------------------------- MODULE StateMachineConfig -------------------------
(***************************************************************************)
(* The immutable configuration of a finite state machine, as pure data.    *)
(*                                                                         *)
(* StateMachineConfig.java maps a state name to a StateRepresentation.     *)
(* Here a configuration is a function whose domain is the set of states    *)
(* that were configured: getRepresentation(s) is config[s], and returns    *)
(* null exactly when s \notin DOMAIN config.                               *)
(*                                                                         *)
(* Guards are predicates supplied by the user of the library and may read  *)
(* anything: a guard is a name, and every look-up receives the set of the  *)
(* guards that are true at the time it is made.                            *)
(***************************************************************************)
EXTENDS Naturals, Sequences

CONSTANTS
    State,     \* names of states
    Trigger,   \* names of triggers
    Guard,     \* names of guard predicates
    None       \* null

ASSUME NoneAssumption == None \notin State \cup Trigger \cup Guard

(* TransitioningTriggerBehaviour: guard None is StateConfiguration.NO_GUARD *)
Behaviour == [trigger : Trigger, destination : State, guard : Guard \cup {None}]

(* What an entry or exit action does, as far as the machine can tell: plain *)
(* work, work that may throw, or completing the operation that caused the   *)
(* transition.  An action registered by onEntryFrom runs only on its        *)
(* trigger; on = None marks one that always runs.                           *)
Action == [on : Trigger \cup {None}, does : {"work", "risky", "complete"}]

(* StateRepresentation: the lists triggerBehaviours.get(t) are the          *)
(* subsequences of behaviours with that trigger; delays are left out.       *)
Representation == [behaviours : Seq(Behaviour),
                   entry      : Seq(Action),
                   expiry     : SUBSET Trigger,
                   exit       : Seq(Action)]

IsConfiguration(config) ==
    /\ DOMAIN config \subseteq State
    /\ \A s \in DOMAIN config : config[s] \in Representation

NewRepresentation ==
    [behaviours |-> << >>, entry |-> << >>, expiry |-> {}, exit |-> << >>]

-----------------------------------------------------------------------------
(* Looking up the behaviour of a trigger                                    *)

IsGuardConditionMet(behaviour, open) == behaviour.guard \in open \cup {None}

(* the list "actual" of tryFindLocalHandler, as positions in behaviours *)
Actual(rep, trigger, open) ==
    {k \in DOMAIN rep.behaviours :
        /\ rep.behaviours[k].trigger = trigger
        /\ IsGuardConditionMet(rep.behaviours[k], open)}

(* more than one behaviour applies: the look-up throws IllegalStateException *)
Ambiguous(rep, trigger, open) ==
    \E j, k \in Actual(rep, trigger, open) : j # k

(* the look-up returns a behaviour: neither null nor an exception *)
CanHandle(rep, trigger, open) ==
    /\ Actual(rep, trigger, open) # {}
    /\ ~ Ambiguous(rep, trigger, open)

-----------------------------------------------------------------------------
(* Graphs                                                                   *)

(* the edges generateDotFile() draws: every behaviour of every state *)
SvcGraph(config) ==
    UNION {{<<s, b.trigger, b.destination>> :
                b \in {config[s].behaviours[k] : k \in DOMAIN config[s].behaviours}} :
           s \in DOMAIN config}

(* the edges generateDotFile(docs) draws from the versions of a document,   *)
(* in version order: two consecutive versions make an edge                  *)
DocGraph(versions) ==
    {<<versions[k].state, versions[k + 1].trigger, versions[k + 1].state>> :
        k \in {n \in 1 .. Len(versions) : n < Len(versions)}}
=============================================================================
