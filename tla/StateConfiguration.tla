------------------------- MODULE StateConfiguration -------------------------
(***************************************************************************)
(* The fluent builder of StateConfiguration.java: every method of it is a  *)
(* call that returns the representation with something added.  A           *)
(* configuration is written as the list of calls a subclass of FSMService  *)
(* makes in stateMachineConfig().                                          *)
(***************************************************************************)
EXTENDS StateMachineConfig

AddBehaviour(rep, trigger, destination, guard) ==
    [rep EXCEPT !.behaviours =
        Append(@, [trigger |-> trigger, destination |-> destination, guard |-> guard])]

(* enforceNotIdentityTransition throws *)
IdentityTransition(state, call) == call.does = "permitIf" /\ call.to = state

(* The n-th of these calls on the representation of state.  Once one threw, *)
(* none after it is made: the representation stays as that one found it.    *)
(* (The exception leaves stateMachineConfig(), and the constructor of the   *)
(* service with it, unless the subclass catches it.)                        *)
Call(rep, state, calls, n) ==
    LET call == calls[n] IN
    IF \E k \in 1 .. n : IdentityTransition(state, calls[k]) THEN rep
    ELSE CASE call.does = "permitIf" ->
                 AddBehaviour(rep, call.trigger, call.to, call.guard)
           [] call.does = "permitReentryIf" ->
                 AddBehaviour(rep, call.trigger, state, call.guard)
           [] call.does = "onEntry" ->
                 [rep EXCEPT !.entry = Append(@, call.action)]
           [] call.does = "onExit" ->
                 [rep EXCEPT !.exit = Append(@, call.action)]
           [] call.does = "onExpiry" ->
                 [rep EXCEPT !.expiry = @ \cup {call.trigger}]

permitIf(trigger, to, guard) ==
    [does |-> "permitIf", trigger |-> trigger, to |-> to, guard |-> guard]
permit(trigger, to) == permitIf(trigger, to, None)
permitReentryIf(trigger, guard) ==
    [does |-> "permitReentryIf", trigger |-> trigger, guard |-> guard]
permitReentry(trigger) == permitReentryIf(trigger, None)
onEntryFrom(trigger, what) ==
    [does |-> "onEntry", action |-> [on |-> trigger, does |-> what]]
onEntry(what) == onEntryFrom(None, what)
onExit(what) == [does |-> "onExit", action |-> [on |-> None, does |-> what]]
onExpiry(trigger) == [does |-> "onExpiry", trigger |-> trigger]

(* configure(state).call1.call2... *)
configure(state, calls) ==
    LET rep[n \in 0 .. Len(calls)] ==
            IF n = 0 THEN NewRepresentation ELSE Call(rep[n - 1], state, calls, n)
    IN  rep[Len(calls)]
=============================================================================
