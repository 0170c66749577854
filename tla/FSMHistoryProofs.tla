-------------------------- MODULE FSMHistoryProofs --------------------------
(***************************************************************************)
(* Proofs about the versions of a document and who made them: when what    *)
(* the documentation says of expiries, of the initial transition and of    *)
(* re-entry is true.                                                       *)
(***************************************************************************)
EXTENDS FSMHandlerProofs, StateConfiguration, WellFoundedInduction

-----------------------------------------------------------------------------
(* Configurations made with the builder                                     *)

BuilderCall ==
    UNION {[does : {"permitIf"}, trigger : Trigger, to : State, guard : Guard \cup {None}],
           [does : {"permitReentryIf"}, trigger : Trigger, guard : Guard \cup {None}],
           [does : {"onEntry", "onExit"}, action : Action],
           [does : {"onExpiry"}, trigger : Trigger]}

(* A representation of the state, whose behaviours that stay in the state   *)
(* were asked for by re-entry.                                              *)
Built(rep, state, calls) ==
    /\ rep \in Representation
    /\ \A k \in DOMAIN rep.behaviours : rep.behaviours[k].destination = state =>
          \E j \in DOMAIN calls : /\ calls[j].does = "permitReentryIf"
                                  /\ calls[j].trigger = rep.behaviours[k].trigger

(* what the recursion of configure computes up to the n-th call *)
Builds(f, state, calls, n) ==
    f = [k \in 0 .. n |-> IF k = 0 THEN NewRepresentation
                          ELSE Call(f[k - 1], state, calls, k)]

LEMMA AddBehaviourBuilt ==
    ASSUME NEW rep, NEW state \in State, NEW calls, Built(rep, state, calls),
           NEW trigger \in Trigger, NEW destination \in State,
           NEW guard \in Guard \cup {None},
           destination = state =>
              \E j \in DOMAIN calls : /\ calls[j].does = "permitReentryIf"
                                      /\ calls[j].trigger = trigger
    PROVE  Built(AddBehaviour(rep, trigger, destination, guard), state, calls)
<1> DEFINE b == [trigger |-> trigger, destination |-> destination, guard |-> guard]
           r == AddBehaviour(rep, trigger, destination, guard)
           old == rep.behaviours
<1>1. rep \in Representation /\ b \in Behaviour /\ old \in Seq(Behaviour)
  BY DEF Built, Representation, Behaviour
<1>2. r = [rep EXCEPT !.behaviours = Append(old, b)]
  BY DEF AddBehaviour
<1>3. r \in Representation /\ r.behaviours = Append(old, b)
  <2>1. Append(old, b) \in Seq(Behaviour)
    BY <1>1
  <2> HIDE DEF b
  <2> QED BY <1>1, <1>2, <2>1 DEF Representation
<1>4. ASSUME NEW k \in DOMAIN r.behaviours, r.behaviours[k].destination = state
      PROVE  \E j \in DOMAIN calls : /\ calls[j].does = "permitReentryIf"
                                     /\ calls[j].trigger = r.behaviours[k].trigger
  <2>1. CASE k \in DOMAIN old
    <3>1. r.behaviours[k] = old[k]
      BY <1>1, <1>3, <2>1
    <3> QED BY <1>4, <2>1, <3>1 DEF Built
  <2>2. CASE k \notin DOMAIN old
    <3>1. r.behaviours[k] = b
      BY <1>1, <1>3, <2>2
    <3>2. destination = state /\ r.behaviours[k].trigger = trigger
      BY <1>4, <3>1
    <3> QED BY <3>2
  <2> QED BY <2>1, <2>2
<1> HIDE DEF r
<1> QED BY <1>3, <1>4 DEF Built, r

(* One call keeps the representation one.                                   *)
LEMMA CallBuilt ==
    ASSUME NEW rep, NEW state \in State, NEW calls \in Seq(BuilderCall),
           Built(rep, state, calls), NEW n \in DOMAIN calls
    PROVE  Built(Call(rep, state, calls, n), state, calls)
<1> DEFINE c == calls[n]
           stopped == \E k \in 1 .. n : IdentityTransition(state, calls[k])
<1> SUFFICES ASSUME ~ stopped
             PROVE  Built(Call(rep, state, calls, n), state, calls)
  BY DEF Call
<1>0. c \in BuilderCall /\ rep \in Representation
  BY DEF Built
<1>1. CASE c.does = "permitIf"
  <2>1. c.trigger \in Trigger /\ c.to \in State /\ c.guard \in Guard \cup {None}
    BY <1>0, <1>1 DEF BuilderCall
  <2>2. Call(rep, state, calls, n) = AddBehaviour(rep, c.trigger, c.to, c.guard)
    BY <1>1 DEF Call
  <2>3. c.to # state
    <3>1. n \in 1 .. n
      OBVIOUS
    <3> QED BY <1>1, <3>1 DEF IdentityTransition
  <2> QED BY <2>1, <2>2, <2>3, AddBehaviourBuilt
<1>2. CASE c.does = "permitReentryIf"
  <2>1. c.trigger \in Trigger /\ c.guard \in Guard \cup {None}
    BY <1>0, <1>2 DEF BuilderCall
  <2>2. Call(rep, state, calls, n) = AddBehaviour(rep, c.trigger, state, c.guard)
    BY <1>2 DEF Call
  <2> QED BY <1>2, <2>1, <2>2, AddBehaviourBuilt
<1>3. CASE c.does \in {"onEntry", "onExit"}
  <2>1. c.action \in Action
    BY <1>0, <1>3 DEF BuilderCall
  <2>2. Call(rep, state, calls, n) \in {[rep EXCEPT !.entry = Append(@, c.action)],
                                 [rep EXCEPT !.exit = Append(@, c.action)]}
    BY <1>3 DEF Call
  <2>3. /\ Call(rep, state, calls, n) \in Representation
        /\ Call(rep, state, calls, n).behaviours = rep.behaviours
    <3>1. rep.entry \in Seq(Action) /\ rep.exit \in Seq(Action)
      BY <1>0 DEF Representation
    <3>2. Append(rep.entry, c.action) \in Seq(Action)
          /\ Append(rep.exit, c.action) \in Seq(Action)
      BY <2>1, <3>1
    <3> QED BY <1>0, <2>2, <3>2 DEF Representation
  <2> QED BY <2>3 DEF Built
<1>4. CASE c.does = "onExpiry"
  <2>1. c.trigger \in Trigger
    BY <1>0, <1>4 DEF BuilderCall
  <2>2. Call(rep, state, calls, n) = [rep EXCEPT !.expiry = @ \cup {c.trigger}]
    BY <1>4 DEF Call
  <2>3. /\ Call(rep, state, calls, n) \in Representation
        /\ Call(rep, state, calls, n).behaviours = rep.behaviours
    BY <1>0, <2>1, <2>2 DEF Representation
  <2> QED BY <2>3 DEF Built
<1>5. c.does \in {"permitIf", "permitReentryIf", "onEntry", "onExit", "onExpiry"}
  BY <1>0 DEF BuilderCall
<1> QED BY <1>1, <1>2, <1>3, <1>4, <1>5

LEMMA NewBuilt ==
    ASSUME NEW state, NEW calls
    PROVE  Built(NewRepresentation, state, calls)
<1>1. NewRepresentation \in Representation /\ DOMAIN NewRepresentation.behaviours = {}
  BY DEF NewRepresentation, Representation
<1> QED BY <1>1 DEF Built

(* The recursion over the calls is well-founded, and what it computes up to *)
(* any call is a representation: there is no first call where it is not.    *)
LEMMA BuildsExists ==
    ASSUME NEW state \in State, NEW calls \in Seq(BuilderCall), NEW n \in 0 .. Len(calls)
    PROVE  \E f : Builds(f, state, calls, n) /\ Built(f[n], state, calls)
<1> DEFINE Good(k) == \E f : Builds(f, state, calls, k) /\ Built(f[k], state, calls)
           Bad == {k \in 0 .. Len(calls) : ~ Good(k)}
<1>1. ASSUME Bad # {} PROVE FALSE
  <2>1. Bad \in SUBSET Nat
    OBVIOUS
  <2>2. PICK k \in Bad : \A m \in Bad : ~ (m < k)
    <3> HIDE DEF Bad
    <3>1. PICK k \in Bad : \A m \in Bad : ~ (<<m, k>> \in OpToRel(<, Nat))
      BY <1>1, <2>1, NatLessThanWellFounded, WFMin
    <3> QED BY <2>1, <3>1 DEF OpToRel
  <2>3. k \in 0 .. Len(calls) /\ ~ Good(k)
    OBVIOUS
  <2>4. CASE k = 0
    <3> DEFINE f == [j \in 0 .. 0 |-> NewRepresentation]
    <3>1. f = [j \in 0 .. 0 |-> IF j = 0 THEN NewRepresentation
                                ELSE Call(f[j - 1], state, calls, j)]
      OBVIOUS
    <3>2. f[0] = NewRepresentation
      OBVIOUS
    <3> HIDE DEF f
    <3>3. Builds(f, state, calls, 0) /\ Built(f[0], state, calls)
      BY <3>1, <3>2, NewBuilt DEF Builds
    <3> QED BY <2>3, <2>4, <3>3
  <2>5. CASE k # 0
    <3>1. k - 1 \in 0 .. Len(calls) /\ k - 1 < k /\ k \in 1 .. Len(calls)
      BY <2>3, <2>5
    <3>2. Good(k - 1)
      BY <2>2, <3>1
    <3>3. PICK g : Builds(g, state, calls, k - 1) /\ Built(g[k - 1], state, calls)
      BY <3>2
    <3> DEFINE last == Call(g[k - 1], state, calls, k)
               f == [j \in 0 .. k |-> IF j = k THEN last ELSE g[j]]
    <3>4. Built(last, state, calls)
      BY <3>1, <3>3, CallBuilt
    <3>5. \A j \in 0 .. k - 1 : g[j] = IF j = 0 THEN NewRepresentation
                                       ELSE Call(g[j - 1], state, calls, j)
      BY <3>3 DEF Builds
    <3>6. f[k] = last /\ \A j \in 0 .. k - 1 : f[j] = g[j]
      BY <3>1
    <3>7. ASSUME NEW j \in 0 .. k
          PROVE  f[j] = IF j = 0 THEN NewRepresentation
                        ELSE Call(f[j - 1], state, calls, j)
      <4>1. CASE j = k
        <5>1. f[j - 1] = g[k - 1] /\ f[j] = last /\ j # 0
          BY <2>5, <3>1, <3>6, <4>1
        <5> HIDE DEF f
        <5> QED BY <4>1, <5>1
      <4>2. CASE j # k
        <5>1. j \in 0 .. k - 1 /\ f[j] = g[j] /\ (j # 0 => f[j - 1] = g[j - 1])
          BY <3>1, <3>6, <4>2
        <5> HIDE DEF f
        <5> QED BY <3>5, <5>1
      <4> QED BY <4>1, <4>2
    <3>8. f = [j \in 0 .. k |-> f[j]]
      OBVIOUS
    <3> HIDE DEF f
    <3>9. f = [j \in 0 .. k |-> IF j = 0 THEN NewRepresentation
                                ELSE Call(f[j - 1], state, calls, j)]
      BY <3>7, <3>8
    <3>10. Builds(f, state, calls, k) /\ Built(f[k], state, calls)
      BY <3>4, <3>6, <3>9 DEF Builds
    <3> QED BY <2>3, <3>10
  <2> QED BY <2>4, <2>5
<1>2. n \notin Bad
  BY <1>1
<1> QED BY <1>2

LEMMA BuildsOnce ==
    ASSUME NEW state, NEW calls, NEW n \in Nat,
           NEW f, Builds(f, state, calls, n), NEW g, Builds(g, state, calls, n)
    PROVE  f[n] = g[n]
<1> DEFINE Bad == {k \in 0 .. n : f[k] # g[k]}
<1>1. ASSUME Bad # {} PROVE FALSE
  <2>1. Bad \in SUBSET Nat
    OBVIOUS
  <2>2. PICK k \in Bad : \A m \in Bad : ~ (m < k)
    <3> HIDE DEF Bad
    <3>1. PICK k \in Bad : \A m \in Bad : ~ (<<m, k>> \in OpToRel(<, Nat))
      BY <1>1, <2>1, NatLessThanWellFounded, WFMin
    <3> QED BY <2>1, <3>1 DEF OpToRel
  <2>3. k \in 0 .. n /\ f[k] # g[k]
    OBVIOUS
  <2>4. /\ f[k] = IF k = 0 THEN NewRepresentation ELSE Call(f[k - 1], state, calls, k)
        /\ g[k] = IF k = 0 THEN NewRepresentation ELSE Call(g[k - 1], state, calls, k)
    BY <2>3 DEF Builds
  <2>5. k # 0
    BY <2>3, <2>4
  <2>6. f[k - 1] = g[k - 1]
    <3>1. k - 1 \in 0 .. n /\ k - 1 < k
      BY <2>3, <2>5
    <3> QED BY <2>2, <3>1
  <2> QED BY <2>3, <2>4, <2>6
<1>2. n \notin Bad
  BY <1>1
<1> QED BY <1>2

(* Whatever calls a subclass makes of the builder, in whatever order, it    *)
(* gets a representation, and one that leads back to its own state only if  *)
(* it called permitReentry: a permit to the state itself throws.            *)
THEOREM ConfigureCorrect ==
    ASSUME NEW state \in State, NEW calls \in Seq(BuilderCall)
    PROVE  Built(configure(state, calls), state, calls)
<1> DEFINE n == Len(calls)
           rep[k \in 0 .. n] ==
               IF k = 0 THEN NewRepresentation ELSE Call(rep[k - 1], state, calls, k)
<1>1. n \in Nat /\ n \in 0 .. n
  OBVIOUS
<1>2. PICK f : Builds(f, state, calls, n) /\ Built(f[n], state, calls)
  BY <1>1, BuildsExists
<1>3. Builds(rep, state, calls, n)
  BY <1>2 DEF Builds
<1>4. configure(state, calls) = rep[n]
  BY DEF configure
<1> HIDE DEF rep
<1>5. rep[n] = f[n]
  BY <1>1, <1>2, <1>3, BuildsOnce
<1> QED BY <1>2, <1>4, <1>5

(* A subclass that configures its states with the builder gets a            *)
(* configuration, so the theorems about FSMService are about its documents. *)
(* A version that repeats the state of the one before it was made by a      *)
(* trigger for which the subclass called permitReentry in that state.       *)
THEOREM StateRepeatedByReentry ==
    ASSUME NEW S \in SUBSET State, NEW calls \in [S -> Seq(BuilderCall)],
           Config = [s \in S |-> configure(s, calls[s])]
    PROVE  /\ IsConfiguration(Config)
           /\ Spec => [](\A k \in 2 .. Len(index) :
                            index[k].state = index[k - 1].state =>
                                \E j \in DOMAIN calls[index[k].state] :
                                   LET call == calls[index[k].state][j] IN
                                   /\ call.does = "permitReentryIf"
                                   /\ call.trigger = index[k].trigger)
<1> DEFINE Reentered(k) == \E j \in DOMAIN calls[index[k].state] :
                              LET call == calls[index[k].state][j] IN
                              /\ call.does = "permitReentryIf"
                              /\ call.trigger = index[k].trigger
           Claim == \A k \in 2 .. Len(index) :
                       index[k].state = index[k - 1].state => Reentered(k)
<1>1. \A s \in S : Built(Config[s], s, calls[s])
  BY ConfigureCorrect
<1>2. IsConfiguration(Config)
  BY <1>1 DEF IsConfiguration, Built
<1>3. ASSUME NEW s, NEW t, <<s, t, s>> \in SvcGraph(Config)
      PROVE  \E j \in DOMAIN calls[s] : /\ calls[s][j].does = "permitReentryIf"
                                        /\ calls[s][j].trigger = t
  <2>1. PICK r \in DOMAIN Config :
          <<s, t, s>> \in {<<r, b.trigger, b.destination>> :
             b \in {Config[r].behaviours[k] : k \in DOMAIN Config[r].behaviours}}
    BY <1>3 DEF SvcGraph
  <2>2. PICK k \in DOMAIN Config[r].behaviours :
          <<s, t, s>> = <<r, Config[r].behaviours[k].trigger,
                          Config[r].behaviours[k].destination>>
    BY <2>1
  <2>3. /\ s = r /\ t = Config[r].behaviours[k].trigger
        /\ s = Config[r].behaviours[k].destination
    BY <2>2
  <2>4. Built(Config[r], r, calls[r])
    BY <1>1
  <2>5. \E j \in DOMAIN calls[r] :
           /\ calls[r][j].does = "permitReentryIf"
           /\ calls[r][j].trigger = Config[r].behaviours[k].trigger
    <3>1. \A rep : Built(rep, r, calls[r]) =>
             \A m \in DOMAIN rep.behaviours : rep.behaviours[m].destination = r =>
                \E j \in DOMAIN calls[r] :
                   /\ calls[r][j].does = "permitReentryIf"
                   /\ calls[r][j].trigger = rep.behaviours[m].trigger
      BY DEF Built
    <3>2. \A m \in DOMAIN Config[r].behaviours :
             Config[r].behaviours[m].destination = r =>
                \E j \in DOMAIN calls[r] :
                   /\ calls[r][j].does = "permitReentryIf"
                   /\ calls[r][j].trigger = Config[r].behaviours[m].trigger
      BY <2>4, <3>1, Zenon
    <3> QED BY <2>3, <3>2, Zenon
  <2> QED BY <2>3, <2>5, Zenon
<1>4. Inv => Claim
  <2> SUFFICES ASSUME Inv, NEW k \in 2 .. Len(index),
                      index[k].state = index[k - 1].state
               PROVE  Reentered(k)
    OBVIOUS
  <2>1. <<index[k].state, index[k].trigger, index[k].state>> \in SvcGraph(Config)
    BY DEF Inv, IndexInv
  <2> QED BY <1>3, <2>1
<1> HIDE DEF Claim
<1>5. Spec => []Claim
  BY <1>4, InvInit, InvNext, PTL DEF Spec
<1> QED BY <1>2, <1>5 DEF Claim

-----------------------------------------------------------------------------
(* What steps leave of the patches                                          *)

Open(r) == r.answer \in {"none", "completed"}

(* a patch that armed its timers and whose version is still to be stored *)
Entered(r) == r.pc \in {"entry", "done"} /\ Open(r)

(* the handler of a patch that was failed or lost does not run on *)
Alive(r) == r.pc \in {"validate", "transit", "exit", "entry"}
               => r.answer \notin {"error", "lost"}

(* Entry actions of expiring states do not throw.  One that does fails the  *)
(* patch after its timers were armed, and they wait for another's stay.     *)
EntryReturns ==
    \A s \in State : ExpiryOf(s) # {} =>
        \A k \in DOMAIN Config[s].entry : Config[s].entry[k].does # "risky"

(* What a step of patch i other than storing its version leaves of it and   *)
(* of the others.                                                           *)
Moves(i) ==
    /\ UNCHANGED <<svc, index, sent, crashes>>
    /\ \A j \in Op : j # i => op'[j] = op[j]
    /\ op[i].pc # "unsent" /\ op'[i].pc # "unsent"
    /\ op'[i].origin = op[i].origin /\ op'[i].state = op[i].state
    /\ op'[i].armedBy = op[i].armedBy
    /\ Open(op'[i]) => Open(op[i])
    /\ op[i].answer # "none" => op'[i].dst = op[i].dst
    /\ Alive(op[i]) => Alive(op'[i])
    /\ busy' = busy \/ busy \in {0, i}
    /\ EntryReturns /\ Entered(op[i]) /\ ExpiryOf(op[i].dst) # {} =>
          Entered(op'[i]) /\ op'[i].dst = op[i].dst /\ busy' = busy

LEMMA MovesStep ==
    ASSUME Inv, NEW i \in Op, NEW r, Update(i, r), op[i].pc # "unsent",
           r.pc # "unsent", r.origin = op[i].origin, r.state = op[i].state,
           r.armedBy = op[i].armedBy, Open(r) => Open(op[i]),
           op[i].answer # "none" => r.dst = op[i].dst, Alive(op[i]) => Alive(r),
           UNCHANGED <<svc, index, sent, crashes>>,
           busy' = busy \/ busy \in {0, i},
           EntryReturns /\ Entered(op[i]) /\ ExpiryOf(op[i].dst) # {} =>
              Entered(r) /\ r.dst = op[i].dst /\ busy' = busy
    PROVE  Moves(i)
BY UpdateEffect DEF Moves

(* A patch fails before its timers are armed, in an entry action that may   *)
(* throw, or after it was completed and stored.                             *)
LEMMA MovesFail ==
    ASSUME Inv, NEW i \in Op, Fail(i), op[i].pc # "unsent",
           op[i].answer = "none" => Unstored(i) \/ busy = 0,
           EntryReturns /\ Entered(op[i]) => ExpiryOf(op[i].dst) = {}
    PROVE  Moves(i)
<1> DEFINE r == [op[i] EXCEPT !.pc = "failed",
                              !.answer = IF @ = "none" THEN "error" ELSE @]
<1>1. /\ Update(i, r) /\ busy' = IF op[i].answer = "none" THEN 0 ELSE busy
      /\ UNCHANGED <<svc, index, sent, crashes>>
  BY DEF Fail
<1>2. op[i] \in OpRecord
  BY <1>1, UpdateEffect
<1>3. /\ r.pc = "failed" /\ r.origin = op[i].origin /\ r.state = op[i].state
      /\ r.armedBy = op[i].armedBy /\ (Open(r) => Open(op[i])) /\ r.dst = op[i].dst
  BY <1>2 DEF OpRecord, Open
<1> HIDE DEF r
<1>4. busy' = busy \/ busy \in {0, i}
  BY <1>1 DEF Inv, OpInv
<1> QED BY <1>1, <1>3, <1>4, MovesStep DEF Alive

LEMMA MovesBegin ==
    ASSUME Inv, NEW i \in Op, BeginPatch(i)
    PROVE  Moves(i)
<1> DEFINE r == [op[i] EXCEPT !.pc = "validate", !.src = CurrentState]
<1>1. /\ Update(i, r) /\ op[i].pc = "queued" /\ busy = 0 
      /\ UNCHANGED <<svc, index, sent, crashes>>
  BY DEF BeginPatch, Dequeues
<1>2. op[i] \in OpRecord /\ op[i].answer = "none"
  BY <1>1, UpdateEffect DEF Inv, OpInv
<1>3. /\ r.pc = "validate" /\ r.origin = op[i].origin /\ r.state = op[i].state
      /\ r.armedBy = op[i].armedBy /\ r.answer = op[i].answer
  BY <1>2 DEF OpRecord
<1> HIDE DEF r
<1>4. ~ Entered(op[i]) /\ (Open(r) => Open(op[i])) /\ Alive(r)
  BY <1>1, <1>2, <1>3 DEF Entered, Open, Alive
<1> QED BY <1>1, <1>2, <1>3, <1>4, MovesStep

LEMMA MovesValidate ==
    ASSUME Inv, NEW i \in Op, ValidateTrigger(i)
    PROVE  Moves(i)
<1> DEFINE r == [op[i] EXCEPT !.pc = "transit"]
<1>1. /\ Update(i, r) /\ op[i].pc = "validate"
      /\ UNCHANGED <<svc, index, sent, busy, crashes>>
  BY DEF ValidateTrigger
<1>2. op[i] \in OpRecord /\ op[i].answer = "none"
  BY <1>1, UpdateEffect DEF Inv, OpInv
<1>3. /\ r.pc = "transit" /\ r.origin = op[i].origin /\ r.state = op[i].state
      /\ r.armedBy = op[i].armedBy /\ r.answer = op[i].answer
  BY <1>2 DEF OpRecord
<1> HIDE DEF r
<1>4. ~ Entered(op[i]) /\ (Open(r) => Open(op[i])) /\ Alive(r)
  BY <1>1, <1>2, <1>3 DEF Entered, Open, Alive
<1> QED BY <1>1, <1>2, <1>3, <1>4, MovesStep

LEMMA MovesTransit ==
    ASSUME Inv, NEW i \in Op, Transit(i)
    PROVE  Moves(i)
<1>1. PICK k \in Actual(Config[op[i].src], op[i].trigger, open) :
        Update(i, [op[i] EXCEPT !.pc = "exit", !.step = 1,
                      !.dst = Config[op[i].src].behaviours[k].destination])
  BY DEF Transit
<1> DEFINE r == [op[i] EXCEPT !.pc = "exit", !.step = 1,
                    !.dst = Config[op[i].src].behaviours[k].destination]
<1>2. op[i].pc = "transit" /\ UNCHANGED <<svc, index, sent, busy, crashes>>
  BY DEF Transit
<1>3. op[i] \in OpRecord /\ op[i].answer = "none"
  BY <1>1, <1>2, UpdateEffect DEF Inv, OpInv
<1>4. /\ r.pc = "exit" /\ r.origin = op[i].origin /\ r.state = op[i].state
      /\ r.armedBy = op[i].armedBy /\ r.answer = op[i].answer
  BY <1>3 DEF OpRecord
<1> HIDE DEF r
<1>5. ~ Entered(op[i]) /\ (Open(r) => Open(op[i])) /\ Alive(r)
  BY <1>2, <1>3, <1>4 DEF Entered, Open, Alive
<1> QED BY <1>1, <1>2, <1>3, <1>4, <1>5, MovesStep DEF r

LEMMA MovesPerform ==
    ASSUME Inv, NEW i \in Op, NEW actions, Perform(i, actions),
           op[i].pc \in {"exit", "entry"}
    PROVE  Moves(i)
<1> DEFINE done == actions[op[i].step].does = "complete" /\ Runs(actions[op[i].step], i)
           r == [op[i] EXCEPT !.step = @ + 1,
                          !.answer = IF done /\ @ = "none" THEN "completed" ELSE @]
<1>1. Update(i, r) /\ UNCHANGED <<svc, index, sent, busy, crashes>>
  BY DEF Perform
<1>2. op[i] \in OpRecord
  BY <1>1, UpdateEffect
<1>3. /\ r.pc = op[i].pc /\ r.origin = op[i].origin /\ r.state = op[i].state
      /\ r.armedBy = op[i].armedBy /\ r.dst = op[i].dst
      /\ r.answer = IF done /\ op[i].answer = "none" THEN "completed" ELSE op[i].answer
  BY <1>2 DEF OpRecord
<1> HIDE DEF r
<1>4. (Open(r) <=> Open(op[i])) /\ (Alive(op[i]) => Alive(r))
  BY <1>1, <1>3 DEF Open, Alive
<1> QED BY <1>1, <1>3, <1>4, MovesStep DEF Entered

LEMMA MovesSchedule ==
    ASSUME Inv, NEW i \in Op, ScheduleExpiry(i)
    PROVE  Moves(i) /\ op'[i].pc = "entry" /\ op'[i].dst = op[i].dst
           /\ op'[i].answer = op[i].answer /\ busy' = busy
<1>1. PICK written \in BOOLEAN :
        Update(i, [op[i] EXCEPT !.pc = "entry", !.step = 1,
                            !.expires = written /\ Config[op[i].dst].expiry # {}])
  BY DEF ScheduleExpiry
<1> DEFINE r == [op[i] EXCEPT !.pc = "entry", !.step = 1,
                          !.expires = written /\ Config[op[i].dst].expiry # {}]
<1>2. op[i].pc = "exit" /\ UNCHANGED <<svc, index, sent, busy, crashes>>
  BY DEF ScheduleExpiry, ExitDone
<1>3. op[i] \in OpRecord
  BY <1>1, UpdateEffect
<1>4. /\ r.pc = "entry" /\ r.origin = op[i].origin /\ r.state = op[i].state
      /\ r.armedBy = op[i].armedBy /\ r.answer = op[i].answer /\ r.dst = op[i].dst
  BY <1>3 DEF OpRecord
<1> HIDE DEF r
<1>5. ~ Entered(op[i]) /\ (Open(r) => Open(op[i])) /\ (Alive(op[i]) => Alive(r))
  BY <1>2, <1>4 DEF Entered, Open, Alive
<1>6. Update(i, r)
  BY <1>1 DEF r
<1> QED BY <1>2, <1>4, <1>5, <1>6, MovesStep, UpdateEffect

LEMMA MovesFinish ==
    ASSUME Inv, NEW i \in Op, Finish(i)
    PROVE  Moves(i)
<1> DEFINE r == [op[i] EXCEPT !.pc = "done"]
<1>1. /\ Update(i, r) /\ op[i].pc = "entry"
      /\ UNCHANGED <<svc, index, sent, busy, crashes>>
  BY DEF Finish
<1>2. op[i] \in OpRecord
  BY <1>1, UpdateEffect
<1>3. /\ r.pc = "done" /\ r.origin = op[i].origin /\ r.state = op[i].state
      /\ r.armedBy = op[i].armedBy /\ r.answer = op[i].answer /\ r.dst = op[i].dst
  BY <1>2 DEF OpRecord
<1> HIDE DEF r
<1>4. (Open(r) <=> Open(op[i])) /\ (Alive(op[i]) => Alive(r))
  BY <1>1, <1>3 DEF Open, Alive
<1> QED BY <1>1, <1>3, <1>4, MovesStep DEF Entered

LEMMA MovesReply ==
    ASSUME Inv, NEW i \in Op, Reply(i)
    PROVE  Moves(i)
<1> DEFINE r == [op[i] EXCEPT !.answer = "ok"]
<1>1. /\ Update(i, r) /\ op[i].answer = "stored"
      /\ UNCHANGED <<svc, index, sent, crashes>>
  BY DEF Reply
<1>2. op[i] \in OpRecord /\ OpInv(i)
  BY <1>1, UpdateEffect DEF Inv
<1>3. /\ r.pc = op[i].pc /\ r.origin = op[i].origin /\ r.state = op[i].state
      /\ r.armedBy = op[i].armedBy /\ r.answer = "ok" /\ r.dst = op[i].dst
  BY <1>2 DEF OpRecord
<1> HIDE DEF r
<1>4. ~ Open(r) /\ ~ Entered(op[i]) /\ busy = i /\ op[i].pc # "unsent"
  BY <1>1, <1>2, <1>3 DEF Entered, Open, OpInv
<1> QED BY <1>1, <1>3, <1>4, MovesStep DEF Alive

LEMMA MovesAction ==
    ASSUME Inv, SlotInv, NEW i \in Op, ExitAction(i) \/ EntryAction(i)
    PROVE  Moves(i)
<1>1. PathInv(op[i])
  BY DEF SlotInv
<1>2. op[i].pc \in {"exit", "entry"}
  BY DEF ExitAction, EntryAction
<1>3. op[i].answer = "none" => Unstored(i)
  BY <1>2 DEF Unstored, Running
<1>4. CASE ExitAction(i)
  <2>1. op[i].pc = "exit" /\ ~ Entered(op[i])
    BY <1>4 DEF ExitAction, Entered
  <2> QED BY <1>2, <1>3, <1>4, <2>1, MovesPerform, MovesFail DEF ExitAction, Throws
<1>5. CASE EntryAction(i)
  <2>1. op[i].pc = "entry" /\ op[i].dst \in DOMAIN Config /\ op[i].dst \in State
    BY <1>1, <1>5, ConfigParts DEF EntryAction, PathInv
  <2>2. EntryReturns /\ Throws(i, Config[op[i].dst].entry) => ExpiryOf(op[i].dst) = {}
    BY <2>1 DEF Throws, EntryReturns
  <2> QED BY <1>2, <1>3, <1>5, <2>2, MovesPerform, MovesFail DEF EntryAction, Throws
<1> QED BY <1>4, <1>5

LEMMA MovesHandle ==
    ASSUME Inv, SlotInv, NEW i \in Op, Dequeue(i) \/ Handle(i) \/ Reply(i)
    PROVE  Moves(i)
<1>1. CASE RejectPatch(i)
  <2>1. busy = 0 /\ op[i].pc = "queued" /\ Fail(i)
    BY <1>1 DEF RejectPatch, Dequeues
  <2>2. ~ Entered(op[i])
    BY <2>1 DEF Entered
  <2> QED BY <2>1, <2>2, MovesFail
<1>2. CASE RefuseTrigger(i) \/ TransitFails(i) \/ DanglingDestination(i)
  <2>1. op[i].pc \in {"validate", "transit", "exit"} /\ Fail(i)
    BY <1>2 DEF RefuseTrigger, TransitFails, DanglingDestination, ExitDone
  <2>2. ~ Entered(op[i]) /\ (op[i].answer = "none" => Unstored(i))
    BY <2>1 DEF Entered, Unstored, Running
  <2> QED BY <2>1, <2>2, MovesFail
<1> QED BY <1>1, <1>2, MovesBegin, MovesValidate, MovesTransit, MovesAction,
           MovesSchedule, MovesFinish, MovesReply DEF Dequeue, Handle

LEMMA VersionStates ==
    ASSUME Inv, NEW k \in 1 .. Len(index)
    PROVE  index[k].state \in State
<1>1. index \in Seq(Version)
  BY DEF Inv, TypeInv, TypeOK
<1>2. index[k] \in Version
  BY <1>1
<1> QED BY <1>2 DEF Version

(* what becomes of the next unsent patch *)
LEMMA SendsRecord ==
    ASSUME Inv, NEW origin, NEW state, NEW trigger, NEW armedBy,
           Send(origin, state, trigger, armedBy)
    PROVE  /\ sent + 1 \in Op /\ sent' = sent + 1 /\ sent \in Nat
           /\ op[sent + 1].pc = "unsent"
           /\ op'[sent + 1].origin = origin /\ op'[sent + 1].state = state
           /\ op'[sent + 1].armedBy = armedBy
           /\ op'[sent + 1].pc = "queued" /\ op'[sent + 1].answer = "none"
           /\ \A j \in Op : j # sent + 1 => op'[j] = op[j]
<1> DEFINE r == [Unsent EXCEPT !.origin = origin, !.state = state,
                               !.trigger = trigger, !.armedBy = armedBy,
                               !.pc = "queued"]
<1>1. sent + 1 \in Op /\ Update(sent + 1, r) /\ sent + 1 > sent
      /\ sent' = sent + 1 /\ sent \in Nat
  BY BoundAssumption DEF Send, Inv, TypeInv, TypeOK, Op
<1>2. /\ r.origin = origin /\ r.state = state /\ r.armedBy = armedBy
      /\ r.pc = "queued" /\ r.answer = "none"
  BY DEF Unsent
<1> HIDE DEF r
<1>3. op[sent + 1].pc = "unsent"
  BY <1>1 DEF Inv, OpInv
<1> QED BY <1>1, <1>2, <1>3, UpdateEffect

-----------------------------------------------------------------------------
(* The initial transition                                                   *)

(* Before the first crash handleStart ran once, and no patch was sent       *)
(* before it: the self-patch it made is the first patch.                    *)
InitialInv ==
    crashes = 0 =>
        /\ svc \in {"absent", "available"}
        /\ \A i \in Op : op[i].origin = "initial" =>
              i = 1 /\ index # << >> /\ index[1].state = InitState

LEMMA InitialMoves ==
    ASSUME Inv, InitialInv, NEW i \in Op, Moves(i)
    PROVE  InitialInv'
BY DEF InitialInv, Moves

LEMMA InitialStore ==
    ASSUME Inv, InitialInv, NEW i \in Op, Store(i)
    PROVE  InitialInv'
<1>1. \A j \in Op : op'[j].origin = op[j].origin
  BY StoreEffect
<1>2. index' # << >> /\ index'[1] = index[1]
  <2>1. Len(index) \in Nat \ {0} /\ Len(index') = Len(index) + 1
    BY StoreEffect
  <2>2. 1 \in 1 .. Len(index) /\ Len(index') # 0
    BY <2>1
  <2>3. index' # << >>
    BY <2>2
  <2> QED BY <2>2, <2>3, StoreEffect
<1>3. UNCHANGED <<svc, crashes>>
  BY StoreEffect
<1> QED BY <1>1, <1>2, <1>3 DEF InitialInv

(* clients and timers send no initial patch *)
LEMMA InitialSend ==
    ASSUME Inv, InitialInv, UNCHANGED <<svc, index, crashes>>,
           NEW origin, origin # "initial", NEW state, NEW trigger, NEW armedBy,
           Send(origin, state, trigger, armedBy)
    PROVE  InitialInv'
<1>1. \A j \in Op : op'[j].origin = "initial" => op[j].origin = "initial"
  BY SendsRecord
<1> QED BY <1>1 DEF InitialInv

LEMMA InitialCreate ==
    ASSUME Inv, InitialInv, NEW posted \in PostState, Create(posted)
    PROVE  InitialInv'
<1> DEFINE state == IF posted = None THEN InitState ELSE posted
<1>1. /\ svc = "absent" /\ svc' = "available" /\ crashes' = crashes
      /\ index' # << >> /\ index'[1].state = state
      /\ SelfPatchIfInitial(state)
  <2>1. PICK trigger \in TriggerOrNull \cup {InitialTrigger} :
          index' = <<[state |-> state, trigger |-> trigger, by |-> 0]>>
    BY DEF Create, TriggerOrNull
  <2>2. Len(index') = 1 /\ index'[1].state = state
    BY <2>1
  <2> QED BY <2>2 DEF Create
<1> HIDE DEF state
<1>2. index = << >> /\ sent = 0
  BY <1>1 DEF Inv
<1>3. CASE state = InitState /\ Send("initial", InitState, InitialTrigger, 0)
  <2>1. \A j \in Op : j # 1 => op'[j] = op[j]
    BY <1>2, <1>3, SendsRecord
  <2> QED BY <1>1, <1>2, <1>3, <2>1 DEF InitialInv
<1>4. CASE UNCHANGED <<op, sent>>
  BY <1>1, <1>2, <1>4 DEF InitialInv
<1> QED BY <1>1, <1>3, <1>4 DEF SelfPatchIfInitial

LEMMA InitialNext == Inv /\ SlotInv /\ InitialInv /\ [Next]_vars => InitialInv'
<1> SUFFICES ASSUME Inv, SlotInv, InitialInv, [Next]_vars PROVE InitialInv'
  OBVIOUS
<1>1. ASSUME NEW posted \in PostState, Create(posted) PROVE InitialInv'
  BY <1>1, InitialCreate
<1>2. CASE Crash
  <2>1. crashes \in 0 .. MaxCrashes
    BY DEF Inv, TypeInv, TypeOK
  <2>2. crashes' = crashes + 1
    BY <1>2 DEF Crash
  <2>3. crashes' # 0
    BY <2>1, <2>2, BoundAssumption
  <2> QED BY <2>3 DEF InitialInv
<1>3. CASE Restart \/ RestartRejected
  <2>1. svc = "down" /\ crashes' = crashes
    BY <1>3 DEF Restart, RestartRejected
  <2> QED BY <2>1 DEF InitialInv
<1>4. ASSUME NEW body \in PatchBody, ClientPatch(body) PROVE InitialInv'
  BY <1>4, InitialSend DEF ClientPatch
<1>5. ASSUME NEW i \in Op, Dequeue(i) \/ Handle(i) \/ Reply(i) PROVE InitialInv'
  BY <1>5, MovesHandle, InitialMoves
<1>6. ASSUME NEW i \in Op, Store(i) PROVE InitialInv'
  BY <1>6, InitialStore
<1>7. ASSUME NEW t \in timers, ExpiryPatch(t) PROVE InitialInv'
  BY <1>7, InitialSend DEF ExpiryPatch
<1>8. CASE UNCHANGED <<svc, index, op, crashes>>
  BY <1>8 DEF InitialInv
<1> QED
  BY <1>1, <1>2, <1>3, <1>4, <1>5, <1>6, <1>7, <1>8
  DEF Next, vars, ExpiryLost, FlipGuard

(* Until the host crashes the initial transition is made once at most, and  *)
(* only by a document that was created in the initial state: what run       *)
(* FSMInitialAgain finds takes a restart of handleStart.                    *)
THEOREM InitialOnceBeforeCrashes ==
    Spec => [](crashes = 0 => InitialTransitionOnlyAtCreation)
<1>1. Inv /\ InitialInv /\ crashes = 0 => InitialTransitionOnlyAtCreation
  <2> SUFFICES ASSUME Inv, InitialInv, crashes = 0
               PROVE  InitialTransitionOnlyAtCreation
    OBVIOUS
  <2> DEFINE initial == {k \in 2 .. Len(index) : op[index[k].by].origin = "initial"}
  <2>1. \A k \in initial : index[k].by = 1 /\ index[1].state = InitState
    BY DEF InitialInv, Inv, IndexInv
  <2>2. \A j, k \in initial : j = k
    BY <2>1 DEF Inv, IndexInv
  <2> HIDE DEF initial
  <2>3. initial # {} => index[1].state = InitState
    BY <2>1
  <2> QED BY <2>2, <2>3 DEF InitialTransitionOnlyAtCreation, initial
<1>2. Init => Inv /\ SlotInv /\ InitialInv
  BY InvInit, SlotInit DEF Init, InitialInv, Unsent
<1>3. (Inv /\ SlotInv /\ InitialInv) /\ [Next]_vars => (Inv /\ SlotInv /\ InitialInv)'
  BY InvNext, SlotNext, InitialNext
<1> QED BY <1>1, <1>2, <1>3, PTL DEF Spec

-----------------------------------------------------------------------------
(* The stay a timer ends                                                    *)

(* An expiring state is entered once at most: along the configured edges a  *)
(* rank never falls, and rises into each expiring state.                    *)
EnteredOnce(rank) ==
    /\ rank \in [State -> Nat]
    /\ \A edge \in SvcGraph(Config) :
          /\ rank[edge[1]] <= rank[edge[3]]
          /\ ExpiryOf(edge[3]) # {} => rank[edge[1]] < rank[edge[3]]

RankInv(rank) ==
    \A j, k \in 1 .. Len(index) : j < k =>
        /\ rank[index[j].state] <= rank[index[k].state]
        /\ ExpiryOf(index[k].state) # {}
              => rank[index[j].state] < rank[index[k].state]

(* What these proofs need to know of the patches.                           *)
StayInv ==
    /\ \A i \in Op : (op[i].pc = "unsent" => op[i].origin = "none") /\ Alive(op[i])
    /\ \A k \in 2 .. Len(index) : op[index[k].by].dst = index[k].state

(* Patch b brought the document into the state, or is about to.             *)
Brings(b, state) ==
    \/ \E k \in 2 .. Len(index) : index[k].by = b /\ index[k].state = state
    \/ b \in Op /\ busy = b /\ Entered(op[b]) /\ op[b].dst = state

(* An expiry that is armed, or sent and not applied yet, is of a state that *)
(* the patch that armed it brings the document into.                        *)
ArmedInv ==
    /\ \A t \in timers :
          ExpiryOf(t.state) # {} /\ Brings(t.by, t.state) /\ t.by <= sent
    /\ \A i \in Op : op[i].origin = "expiry" /\ Open(op[i]) =>
          /\ op[i].state # None /\ ExpiryOf(op[i].state) # {}
          /\ Brings(op[i].armedBy, op[i].state)
          /\ op[i].armedBy # i

(* what is to be shown, after the patches that were applied *)
OwnInv ==
    \A k \in 2 .. Len(index) :
        op[index[k].by].origin = "expiry"
            => index[k - 1].by = op[index[k].by].armedBy

(* No step but a crash takes back what a patch brings about.                *)
BringsKept == \A b, state : Brings(b, state) /\ ExpiryOf(state) # {} => Brings(b, state)'

LEMMA BringsMoves ==
    ASSUME EntryReturns, Inv, NEW i \in Op, Moves(i)
    PROVE  BringsKept
<1> SUFFICES ASSUME NEW b, NEW state, Brings(b, state), ExpiryOf(state) # {}
             PROVE  Brings(b, state)'
  BY DEF BringsKept
<1>1. CASE \E k \in 2 .. Len(index) : index[k].by = b /\ index[k].state = state
  BY <1>1 DEF Brings, Moves
<1>2. CASE b \in Op /\ busy = b /\ Entered(op[b]) /\ op[b].dst = state
  <2>1. b # 0
    BY <1>2, BoundAssumption DEF Op
  <2>2. busy' = b /\ Entered(op'[b]) /\ op'[b].dst = state
    <3>1. CASE b = i
      BY <1>2, <3>1 DEF Moves
    <3>2. CASE b # i
      BY <1>2, <2>1, <3>2 DEF Moves
    <3> QED BY <3>1, <3>2
  <2> QED BY <1>2, <2>2 DEF Brings, Entered, Open
<1> QED BY <1>1, <1>2 DEF Brings

LEMMA BringsStore ==
    ASSUME Inv, NEW i \in Op, Store(i)
    PROVE  BringsKept
<1> SUFFICES ASSUME NEW b, NEW state, Brings(b, state)
             PROVE  Brings(b, state)'
  BY DEF BringsKept
<1> DEFINE n == Len(index)
<1>0. /\ n \in Nat \ {0} /\ Len(index') = n + 1
      /\ \A k \in 1 .. n : index'[k] = index[k]
      /\ index'[n + 1].state = op[i].dst /\ index'[n + 1].by = i
  BY VersionAppended
<1>1. ASSUME NEW k \in 2 .. n, index[k].by = b, index[k].state = state
      PROVE  Brings(b, state)'
  <2>1. k \in 2 .. Len(index') /\ index'[k] = index[k]
    BY <1>0
  <2> QED BY <1>1, <2>1 DEF Brings
<1>2. CASE b \in Op /\ busy = b /\ Entered(op[b]) /\ op[b].dst = state
  <2>1. b = i
    BY <1>2, StoreEffect
  <2>2. n + 1 \in 2 .. Len(index')
    BY <1>0
  <2> QED BY <1>0, <1>2, <2>1, <2>2 DEF Brings
<1> QED BY <1>1, <1>2 DEF Brings

LEMMA BringsIdle ==
    ASSUME UNCHANGED <<index, busy>>, 
           \A j \in Op : op[j].pc # "unsent" => op'[j] = op[j]
    PROVE  BringsKept
<1> SUFFICES ASSUME NEW b, NEW state, Brings(b, state)
             PROVE  Brings(b, state)'
  BY DEF BringsKept
<1>1. b \in Op /\ Entered(op[b]) => op'[b] = op[b]
  BY DEF Entered
<1> QED BY <1>1 DEF Brings, Entered, Open

-----------------------------------------------------------------------------
(* Ranks rise along the versions.                                           *)

LEMMA RankStore ==
    ASSUME NEW rank, EnteredOnce(rank), Inv, RankInv(rank), NEW i \in Op, Store(i)
    PROVE  RankInv(rank)'
<1> DEFINE n == Len(index)
<1>1. /\ n \in Nat \ {0} /\ Len(index') = n + 1
      /\ \A k \in 1 .. n : index'[k] = index[k]
      /\ index'[n + 1].state = op[i].dst
  BY VersionAppended
<1>2. \A k \in 1 .. n : index[k].state \in State
  BY VersionStates
<1>3. op[i].dst \in State
  BY DEF Store, Inv, TypeInv
<1>4. /\ rank[index[n].state] <= rank[op[i].dst]
      /\ ExpiryOf(op[i].dst) # {} => rank[index[n].state] < rank[op[i].dst]
  <2>1. <<index[n].state, op[i].trigger, op[i].dst>> \in SvcGraph(Config)
    BY StoreEffect DEF CurrentState
  <2> QED BY <2>1 DEF EnteredOnce
<1>5. \A k \in 1 .. n : rank[index[k].state] \in Nat
  BY <1>2 DEF EnteredOnce
<1>6. rank[op[i].dst] \in Nat
  BY <1>3 DEF EnteredOnce
<1>7. \A j \in 1 .. n : rank[index[j].state] <= rank[index[n].state]
  <2> TAKE j \in 1 .. n
  <2>1. CASE j = n
    BY <1>1, <1>5, <2>1
  <2>2. CASE j # n
    BY <1>1, <2>2 DEF RankInv
  <2> QED BY <2>1, <2>2
<1>8. ASSUME NEW j \in 1 .. n + 1, NEW k \in 1 .. n + 1, j < k
      PROVE  /\ rank[index'[j].state] <= rank[index'[k].state]
             /\ ExpiryOf(index'[k].state) # {}
                   => rank[index'[j].state] < rank[index'[k].state]
  <2>1. CASE k <= n
    <3>1. j \in 1 .. n /\ k \in 1 .. n
      BY <1>1, <1>8, <2>1
    <3> QED BY <1>1, <1>8, <3>1 DEF RankInv
  <2>2. CASE k = n + 1
    <3>1. j \in 1 .. n
      BY <1>1, <1>8, <2>2
    <3>2. rank[index[j].state] <= rank[index[n].state] /\ rank[index[j].state] \in Nat
          /\ rank[index[n].state] \in Nat
      BY <1>1, <1>5, <1>7, <3>1
    <3> QED BY <1>1, <1>4, <1>6, <2>2, <3>1, <3>2
  <2> QED BY <1>1, <2>1, <2>2
<1> QED BY <1>1, <1>8 DEF RankInv, ExpiryOf

LEMMA RankCreate ==
    ASSUME NEW rank, NEW posted \in PostState, Create(posted)
    PROVE  RankInv(rank)' /\ OwnInv'
<1>1. Len(index') = 1
  BY DEF Create
<1> QED BY <1>1 DEF RankInv, OwnInv

(* An expiry that is applied ends the stay its patch began: that patch made *)
(* a version of the state the document is in, and of these there is one.    *)
LEMMA AppliedExpiry ==
    ASSUME NEW rank, EnteredOnce(rank), Inv, RankInv(rank), ArmedInv,
           NEW i \in Op, Store(i), op[i].origin = "expiry"
    PROVE  index[Len(index)].by = op[i].armedBy
<1> DEFINE n == Len(index)
           s == op[i].state
<1>1. /\ op[i].answer = "completed" /\ busy = i /\ s \in {None, CurrentState}
      /\ n \in Nat \ {0}
  BY StoreEffect
<1>2. /\ s # None /\ ExpiryOf(s) # {} /\ Brings(op[i].armedBy, s)
      /\ op[i].armedBy # i
  BY <1>1 DEF ArmedInv, Open
<1>3. s = index[n].state
  BY <1>1, <1>2 DEF CurrentState
<1>4. PICK k \in 2 .. n : index[k].by = op[i].armedBy /\ index[k].state = s
  BY <1>1, <1>2 DEF Brings
<1>5. k = n
  <2>1. SUFFICES ASSUME k # n PROVE FALSE
    OBVIOUS
  <2>2. k \in 1 .. n /\ n \in 1 .. n /\ k < n
    BY <1>1, <2>1
  <2>3. rank[index[k].state] < rank[index[n].state]
    BY <1>2, <1>3, <2>2 DEF RankInv
  <2>4. rank[s] \in Nat
    BY <1>3, <2>2, VersionStates DEF EnteredOnce
  <2> QED BY <1>3, <1>4, <2>3, <2>4
<1> QED BY <1>4, <1>5

LEMMA OwnStore ==
    ASSUME NEW rank, EnteredOnce(rank), Inv, RankInv(rank), ArmedInv, OwnInv,
           NEW i \in Op, Store(i)
    PROVE  OwnInv'
<1> DEFINE n == Len(index)
<1>1. /\ n \in Nat \ {0} /\ Len(index') = n + 1
      /\ \A k \in 1 .. n : index'[k] = index[k]
      /\ index'[n + 1].by = i
  BY VersionAppended
<1>2. \A j \in Op : op'[j].origin = op[j].origin /\ op'[j].armedBy = op[j].armedBy
  BY StoreEffect
<1>3. \A k \in 2 .. n : index[k].by \in Op
  BY DEF Inv, IndexInv
<1>4. ASSUME NEW k \in 2 .. n + 1, op'[index'[k].by].origin = "expiry"
      PROVE  index'[k - 1].by = op'[index'[k].by].armedBy
  <2>1. CASE k <= n
    <3>1. k \in 2 .. n /\ k \in 1 .. n /\ k - 1 \in 1 .. n
      BY <1>1, <2>1
    <3> QED BY <1>1, <1>2, <1>3, <1>4, <3>1 DEF OwnInv
  <2>2. CASE k = n + 1
    <3>1. k - 1 = n /\ n \in 1 .. n
      BY <1>1, <2>2
    <3> QED BY <1>1, <1>2, <1>4, <2>2, <3>1, AppliedExpiry
  <2> QED BY <1>1, <2>1, <2>2
<1> QED BY <1>1, <1>4 DEF OwnInv

(* steps that leave the versions and who sent their patches alone *)
LEMMA VersionsKept ==
    ASSUME NEW rank, Inv, RankInv(rank), OwnInv, index' = index,
           \A j \in Op : op[j].pc # "unsent" =>
               op'[j].origin = op[j].origin /\ op'[j].armedBy = op[j].armedBy
    PROVE  RankInv(rank)' /\ OwnInv'
<1>1. \A k \in 2 .. Len(index) :
         index[k].by \in Op /\ op[index[k].by].pc # "unsent"
  <2> TAKE k \in 2 .. Len(index)
  <2>1. index[k].by \in Op /\ op[index[k].by].answer # "none"
    BY DEF Inv, IndexInv
  <2> QED BY <2>1 DEF Inv, OpInv
<1> QED BY <1>1 DEF RankInv, OwnInv, ExpiryOf

-----------------------------------------------------------------------------
(* A timer of the next state is one of this state, which may have lost its  *)
(* GET since.                                                               *)
TimersKept ==
    \A u \in timers' : \E t \in timers :
        u.trigger = t.trigger /\ u.state = t.state /\ u.by = t.by

LEMMA TimersSubset ==
    ASSUME timers' \subseteq timers
    PROVE  TimersKept
BY DEF TimersKept

LEMMA TimerLost ==
    ASSUME Inv, NEW t \in timers, ExpiryLost(t)
    PROVE  TimersKept
<1> DEFINE marked == [t EXCEPT !.lost = TRUE]
<1>1. timers' = (timers \ {t}) \cup {marked} /\ t \in Timer
  BY DEF ExpiryLost, Inv, TypeInv, TypeOK
<1>2. marked.trigger = t.trigger /\ marked.state = t.state /\ marked.by = t.by
  BY <1>1 DEF Timer
<1> HIDE DEF marked
<1> QED BY <1>1, <1>2 DEF TimersKept

(* The steps, by what these proofs look at.                                 *)
LEMMA StepKinds ==
    ASSUME Inv, SlotInv, [Next]_vars
    PROVE  \/ \E posted \in PostState : Create(posted)
           \/ Crash
           \/ \E origin \in {"client", "initial"} : \E state, trigger :
                 Send(origin, state, trigger, 0) /\ UNCHANGED <<index, busy, timers>>
           \/ \E i \in Op : Moves(i) /\ timers' = timers
           \/ \E i \in Op : ScheduleExpiry(i)
           \/ \E i \in Op : Store(i)
           \/ \E t \in timers : ExpiryPatch(t)
           \/ UNCHANGED <<index, op, sent, busy>> /\ TimersKept
<1> DEFINE Sends == \E origin \in {"client", "initial"} : \E state, trigger :
                       Send(origin, state, trigger, 0) /\ UNCHANGED <<index, busy, timers>>
           Idle == UNCHANGED <<index, op, sent, busy>> /\ TimersKept
<1>1. ASSUME NEW body \in PatchBody, ClientPatch(body) PROVE Sends
  BY <1>1 DEF ClientPatch
<1>2. ASSUME Restart PROVE Sends \/ Idle
  BY <1>2, TimersSubset DEF Restart, SelfPatchIfInitial
<1>3. ASSUME NEW i \in Op, Dequeue(i) \/ Handle(i) \/ Reply(i)
      PROVE  (Moves(i) /\ timers' = timers) \/ ScheduleExpiry(i)
  <2>1. timers' = timers \/ ScheduleExpiry(i)
    BY <1>3 DEF Dequeue, RejectPatch, BeginPatch, Fail, Handle, ValidateTrigger,
       RefuseTrigger, Transit, TransitFails, ExitAction, EntryAction, Perform,
       Throws, DanglingDestination, Finish, Reply
  <2> QED BY <1>3, <2>1, MovesHandle
<1>4. RestartRejected \/ (\E t \in timers : ExpiryLost(t))
      \/ (\E g \in Guard : FlipGuard(g)) \/ UNCHANGED vars => Idle
  BY TimersSubset, TimerLost DEF RestartRejected, ExpiryLost, FlipGuard, vars
<1> HIDE DEF Sends, Idle
<1>5. \/ \E posted \in PostState : Create(posted)
      \/ Crash \/ Sends \/ Idle
      \/ \E i \in Op : Moves(i) /\ timers' = timers
      \/ \E i \in Op : ScheduleExpiry(i)
      \/ \E i \in Op : Store(i)
      \/ \E t \in timers : ExpiryPatch(t)
  BY <1>1, <1>2, <1>3, <1>4 DEF Next
<1> QED BY <1>5 DEF Sends, Idle

(* what a crash makes of the patches *)
LEMMA CrashEffect ==
    ASSUME Inv, Crash, NEW j \in Op
    PROVE  \/ op[j].pc = "unsent" /\ op'[j] = op[j]
           \/ /\ op[j].pc # "unsent" /\ op'[j].pc = "dead" /\ ~ Open(op'[j])
              /\ op'[j].origin = op[j].origin /\ op'[j].armedBy = op[j].armedBy
              /\ op'[j].dst = op[j].dst
<1>1. CASE op[j].pc = "unsent"
  BY <1>1 DEF Crash
<1>2. CASE op[j].pc # "unsent"
  <2>1. op'[j] = [op[j] EXCEPT !.pc = "dead",
                    !.answer = IF @ \in {"ok", "error"} THEN @ ELSE "lost"]
    BY <1>2 DEF Crash
  <2>2. op[j] \in OpRecord
    BY DEF Inv, TypeInv, TypeOK
  <2>3. /\ op'[j].pc = "dead" /\ op'[j].answer \in {"ok", "error", "lost"}
        /\ op'[j].origin = op[j].origin /\ op'[j].armedBy = op[j].armedBy
        /\ op'[j].dst = op[j].dst
    BY <2>1, <2>2 DEF OpRecord
  <2> QED BY <1>2, <2>3 DEF Open
<1> QED BY <1>1, <1>2

(* the patches of the versions were sent and answered *)
LEMMA Makers ==
    ASSUME Inv, NEW k \in 2 .. Len(index)
    PROVE  /\ index[k].by \in Op /\ op[index[k].by].pc # "unsent"
           /\ op[index[k].by].answer \notin {"none", "completed"}
<1>1. index[k].by \in Op /\ op[index[k].by].answer \in {"stored", "ok", "lost"}
  BY DEF Inv, IndexInv
<1> QED BY <1>1 DEF Inv, OpInv

LEMMA NothingSent ==
    ASSUME Inv, svc = "absent"
    PROVE  \A j \in Op : op[j].pc = "unsent"
<1>1. sent = 0 /\ \A j \in Op : j > 0
  BY BoundAssumption DEF Inv, Op
<1> QED BY <1>1 DEF Inv, OpInv

LEMMA StaySent ==
    ASSUME Inv, StayInv, index' = index, NEW origin, NEW state, NEW trigger,
           NEW armedBy, Send(origin, state, trigger, armedBy)
    PROVE  StayInv'
<1>1. ASSUME NEW j \in Op
      PROVE  (op'[j].pc = "unsent" => op'[j].origin = "none") /\ Alive(op'[j])
  BY SendsRecord DEF StayInv, Alive
<1>2. \A k \in 2 .. Len(index) : op'[index[k].by] = op[index[k].by]
  BY SendsRecord, Makers
<1> QED BY <1>1, <1>2 DEF StayInv, Alive

LEMMA StayNext == Inv /\ SlotInv /\ StayInv /\ [Next]_vars => StayInv'
<1> SUFFICES ASSUME Inv, SlotInv, StayInv, [Next]_vars PROVE StayInv'
  OBVIOUS
<1>1. ASSUME NEW posted \in PostState, Create(posted) PROVE StayInv'
  <2>1. Len(index') = 1 /\ svc = "absent"
    BY <1>1 DEF Create
  <2>2. \A j \in Op : (op'[j].pc = "unsent" => op'[j].origin = "none") /\ Alive(op'[j])
    <3>1. CASE Send("initial", InitState, InitialTrigger, 0)
      BY <3>1, SendsRecord DEF StayInv, Alive
    <3>2. CASE UNCHANGED op
      BY <3>2 DEF StayInv
    <3> QED BY <1>1, <3>1, <3>2 DEF Create, SelfPatchIfInitial
  <2> QED BY <2>1, <2>2 DEF StayInv, Alive
<1>2. CASE Crash
  <2>1. ASSUME NEW j \in Op
        PROVE  (op'[j].pc = "unsent" => op'[j].origin = "none") /\ Alive(op'[j])
    <3>1. CASE op'[j] = op[j]
      BY <3>1 DEF StayInv
    <3>2. CASE op'[j].pc = "dead"
      BY <3>2 DEF Alive
    <3> QED BY <1>2, <3>1, <3>2, CrashEffect
  <2>2. index' = index
    BY <1>2 DEF Crash
  <2>3. \A k \in 2 .. Len(index) : op'[index[k].by].dst = op[index[k].by].dst
    BY <1>2, CrashEffect, Makers
  <2> QED BY <2>1, <2>2, <2>3 DEF StayInv, Alive
<1>3. ASSUME NEW i \in Op, Moves(i) PROVE StayInv'
  <2>1. \A j \in Op : (op'[j].pc = "unsent" => op'[j].origin = "none") /\ Alive(op'[j])
    BY <1>3 DEF StayInv, Moves
  <2>2. \A k \in 2 .. Len(index) : op'[index[k].by].dst = op[index[k].by].dst
    BY <1>3, Makers DEF Moves
  <2> QED BY <1>3, <2>1, <2>2 DEF StayInv, Alive, Moves
<1>4. ASSUME NEW i \in Op, Store(i) PROVE StayInv'
  <2> DEFINE n == Len(index)
  <2>1. /\ n \in Nat \ {0} /\ Len(index') = n + 1
        /\ \A k \in 1 .. n : index'[k] = index[k]
        /\ index'[n + 1].state = op[i].dst /\ index'[n + 1].by = i
    BY <1>4, VersionAppended
  <2>2. ASSUME NEW j \in Op
        PROVE  (op'[j].pc = "unsent" => op'[j].origin = "none") /\ Alive(op'[j])
    <3>1. CASE j = i
      BY <1>4, <3>1, StoreEffect DEF Alive
    <3>2. CASE j # i
      <4>1. op'[j] = op[j]
        BY <1>4, <3>2, StoreEffect
      <4> QED BY <4>1 DEF StayInv
    <3> QED BY <3>1, <3>2
  <2>3. \A j \in Op : op'[j].dst = op[j].dst
    BY <1>4, StoreEffect
  <2>4. ASSUME NEW k \in 2 .. n + 1 PROVE op'[index'[k].by].dst = index'[k].state
    <3>1. CASE k = n + 1
      BY <2>1, <2>3, <3>1
    <3>2. CASE k # n + 1
      <4>1. k \in 2 .. n /\ k \in 1 .. n
        BY <2>1, <3>2
      <4> QED BY <2>1, <2>3, <4>1, Makers DEF StayInv
    <3> QED BY <3>1, <3>2
  <2> QED BY <2>1, <2>2, <2>4 DEF StayInv, Alive
<1>5. ASSUME NEW t \in timers, ExpiryPatch(t) PROVE StayInv'
  BY <1>5, StaySent DEF ExpiryPatch
<1>6. CASE UNCHANGED <<index, op>>
  BY <1>6 DEF StayInv, Alive
<1> QED BY <1>1, <1>2, <1>3, <1>4, <1>5, <1>6, StaySent, StepKinds, MovesSchedule

-----------------------------------------------------------------------------
(* Timers and the patches they send                                         *)

LEMMA ArmedKept ==
    ASSUME Inv, ArmedInv, BringsKept, sent' = sent \/ sent' = sent + 1,
           TimersKept,
           \A j \in Op : op'[j].origin = "expiry" /\ Open(op'[j]) =>
               /\ op[j].origin = "expiry" /\ Open(op[j])
               /\ op'[j].state = op[j].state /\ op'[j].armedBy = op[j].armedBy
    PROVE  ArmedInv'
<1>1. ASSUME NEW t \in timers'
      PROVE  ExpiryOf(t.state) # {} /\ Brings(t.by, t.state)' /\ t.by <= sent'
  <2>1. PICK u \in timers : t.state = u.state /\ t.by = u.by
    BY DEF TimersKept
  <2>2. ExpiryOf(t.state) # {} /\ Brings(t.by, t.state) /\ t.by <= sent
    BY <2>1 DEF ArmedInv
  <2>3. t.by \in Nat /\ sent \in Nat
    BY <2>1, BoundAssumption DEF Inv, TypeInv, TypeOK, Timer
  <2> QED BY <2>2, <2>3 DEF BringsKept
<1>2. ASSUME NEW j \in Op, op'[j].origin = "expiry", Open(op'[j])
      PROVE  /\ op'[j].state # None /\ ExpiryOf(op'[j].state) # {}
             /\ Brings(op[j].armedBy, op[j].state)'
             /\ op'[j].armedBy # j
             /\ op'[j].armedBy = op[j].armedBy /\ op'[j].state = op[j].state
  BY <1>2 DEF ArmedInv, BringsKept
<1> QED BY <1>1, <1>2 DEF ArmedInv, Brings, ExpiryOf, Open, Entered

LEMMA ArmedSend ==
    ASSUME Inv, StayInv, ArmedInv, UNCHANGED <<index, busy, timers>>,
           NEW origin \in {"client", "initial"}, NEW state, NEW trigger,
           Send(origin, state, trigger, 0)
    PROVE  ArmedInv'
<1>1. BringsKept
  BY SendsRecord, BringsIdle
<1>2. \A j \in Op : op'[j].origin = "expiry" => op'[j] = op[j]
  BY SendsRecord
<1>3. sent' = sent + 1
  BY SendsRecord
<1> QED BY <1>1, <1>2, <1>3, ArmedKept, TimersSubset

LEMMA ArmedExpiry ==
    ASSUME Inv, ArmedInv, NEW t \in timers, ExpiryPatch(t)
    PROVE  ArmedInv'
<1>1. /\ Send("expiry", t.state, t.trigger, t.by)
      /\ timers' = timers \ {t} /\ UNCHANGED <<index, busy>>
  BY DEF ExpiryPatch
<1>2. BringsKept
  BY <1>1, SendsRecord, BringsIdle
<1>3. /\ sent + 1 \in Op /\ sent' = sent + 1 /\ sent \in Nat
      /\ op'[sent + 1].origin = "expiry" /\ op'[sent + 1].state = t.state
      /\ op'[sent + 1].armedBy = t.by
      /\ \A j \in Op : j # sent + 1 => op'[j] = op[j]
  BY <1>1, SendsRecord
<1>4. t.by \in Nat /\ t.state \in State
  BY DEF Inv, TypeInv, TypeOK, Timer
<1>5. ExpiryOf(t.state) # {} /\ Brings(t.by, t.state)' /\ t.by <= sent
  BY <1>2 DEF ArmedInv, BringsKept
<1>6. ASSUME NEW u \in timers'
      PROVE  ExpiryOf(u.state) # {} /\ Brings(u.by, u.state)' /\ u.by <= sent'
  <2>1. ExpiryOf(u.state) # {} /\ Brings(u.by, u.state) /\ u.by <= sent /\ u.by \in Nat
    BY <1>1 DEF ArmedInv, Inv, TypeInv, TypeOK, Timer
  <2> QED BY <1>2, <1>3, <2>1 DEF BringsKept
<1>7. ASSUME NEW j \in Op, op'[j].origin = "expiry", Open(op'[j]),
             NEW b, b = op'[j].armedBy, NEW s, s = op'[j].state
      PROVE  s # None /\ ExpiryOf(s) # {} /\ Brings(b, s)' /\ b # j
  <2>1. CASE j = sent + 1
    <3>1. b = t.by /\ s = t.state
      BY <1>3, <1>7, <2>1
    <3>2. t.by # sent + 1 /\ t.state # None
      BY <1>3, <1>4, <1>5, NoneAssumption
    <3> QED BY <1>5, <2>1, <3>1, <3>2
  <2>2. CASE j # sent + 1
    <3>1. op'[j] = op[j]
      BY <1>3, <2>2
    <3>2. s # None /\ ExpiryOf(s) # {} /\ Brings(b, s) /\ b # j
      BY <1>7, <3>1 DEF ArmedInv
    <3> QED BY <1>2, <3>2 DEF BringsKept
  <2> QED BY <2>1, <2>2
<1> QED BY <1>6, <1>7 DEF ArmedInv, Brings, ExpiryOf, Open, Entered

(* a patch arms the timers of the state it brings the document into *)
LEMMA ArmedSchedule ==
    ASSUME EntryReturns, Inv, StayInv, ArmedInv, NEW i \in Op, ScheduleExpiry(i),
           NEW dst, dst = op[i].dst
    PROVE  ArmedInv'
<1> DEFINE o == op[i]
           new == {[trigger |-> t, state |-> dst, by |-> i, lost |-> FALSE] :
                     t \in Config[dst].expiry}
<1>1. /\ o.pc = "exit" /\ dst \in DOMAIN Config /\ timers' = timers \cup new
      /\ UNCHANGED <<index, sent>>
  BY DEF ScheduleExpiry, ExitDone
<1>2. /\ Moves(i) /\ op'[i].pc = "entry" /\ op'[i].dst = dst
      /\ op'[i].answer = o.answer /\ busy' = busy
  BY MovesSchedule
<1>3. BringsKept
  BY <1>2, BringsMoves
<1>4. Brings(i, dst)'
  <2>1. o \in OpRecord /\ OpInv(i) /\ IndexInv
    BY DEF Inv, TypeInv, TypeOK
  <2>2. o.answer \in {"none", "completed", "stored", "ok"}
    BY <1>1, <2>1 DEF StayInv, Alive, OpRecord, Answer
  <2>3. CASE Open(o)
    <3>1. busy = i
      BY <1>1, <2>1, <2>3 DEF Open, OpInv, Unstored, Running
    <3>2. busy' = i /\ Entered(op'[i]) /\ op'[i].dst = dst
      BY <1>2, <2>3, <3>1 DEF Entered, Open
    <3> QED BY <3>2 DEF Brings, Entered, Open
  <2>4. CASE o.answer \in {"stored", "ok"}
    <3>1. PICK k \in 2 .. Len(index) : index[k].by = i
      BY <2>1, <2>4 DEF IndexInv
    <3>2. index[k].state = dst
      BY <3>1 DEF StayInv
    <3> QED BY <1>1, <3>1, <3>2 DEF Brings
  <2> QED BY <2>2, <2>3, <2>4 DEF Open
<1>5. i <= sent
  <2>1. ~ (i > sent)
    BY <1>1 DEF Inv, OpInv
  <2>2. i \in Nat /\ sent \in Nat
    BY BoundAssumption DEF Inv, TypeInv, TypeOK, Op
  <2> QED BY <2>1, <2>2
<1>6. ASSUME NEW t \in timers'
      PROVE  ExpiryOf(t.state) # {} /\ Brings(t.by, t.state)' /\ t.by <= sent'
  <2>1. CASE t \in timers
    BY <1>1, <1>3, <2>1 DEF ArmedInv, BringsKept
  <2>2. CASE t \in new
    <3>1. PICK trigger \in Config[dst].expiry :
            t = [trigger |-> trigger, state |-> dst, by |-> i, lost |-> FALSE]
      BY <2>2
    <3>2. t.state = dst /\ t.by = i
      BY <3>1
    <3>3. ExpiryOf(dst) # {}
      BY <1>1, <3>1 DEF ExpiryOf
    <3> QED BY <1>1, <1>4, <1>5, <3>2, <3>3
  <2> QED BY <1>1, <2>1, <2>2
<1>7. ASSUME NEW j \in Op, op'[j].origin = "expiry", Open(op'[j])
      PROVE  /\ op'[j].state # None /\ ExpiryOf(op'[j].state) # {}
             /\ Brings(op[j].armedBy, op[j].state)'
             /\ op'[j].armedBy # j
             /\ op'[j].armedBy = op[j].armedBy /\ op'[j].state = op[j].state
  <2>1. /\ op[j].origin = "expiry" /\ Open(op[j])
        /\ op'[j].armedBy = op[j].armedBy /\ op'[j].state = op[j].state
    BY <1>2, <1>7 DEF Moves
  <2> QED BY <1>3, <2>1 DEF ArmedInv, BringsKept
<1> QED BY <1>6, <1>7 DEF ArmedInv, Brings, ExpiryOf, Open, Entered

LEMMA ArmedNext ==
    ASSUME EntryReturns, Inv, SlotInv, StayInv, ArmedInv, [Next]_vars
    PROVE  ArmedInv'
<1>1. ASSUME NEW posted \in PostState, Create(posted) PROVE ArmedInv'
  <2>1. \A j \in Op : op[j].pc = "unsent" /\ op[j].origin = "none"
    BY <1>1, NothingSent DEF Create, StayInv
  <2>2. timers = {} /\ timers' = {}
    BY <1>1 DEF Create, Inv
  <2>3. \A j \in Op : op'[j].origin # "expiry"
    <3>1. CASE Send("initial", InitState, InitialTrigger, 0)
      BY <2>1, <3>1, SendsRecord
    <3>2. CASE UNCHANGED op
      BY <2>1, <3>2
    <3> QED BY <1>1, <3>1, <3>2 DEF Create, SelfPatchIfInitial
  <2> QED BY <2>2, <2>3 DEF ArmedInv
<1>2. CASE Crash
  <2>1. \A j \in Op : ~ (op'[j].origin = "expiry" /\ Open(op'[j]))
    BY <1>2, CrashEffect DEF StayInv
  <2>2. timers' = {}
    BY <1>2 DEF Crash
  <2> QED BY <2>1, <2>2 DEF ArmedInv, Open
<1>3. ASSUME NEW i \in Op, Moves(i), timers' = timers PROVE ArmedInv'
  <2>1. \A j \in Op : op'[j].origin = "expiry" /\ Open(op'[j]) =>
               /\ op[j].origin = "expiry" /\ Open(op[j])
               /\ op'[j].state = op[j].state /\ op'[j].armedBy = op[j].armedBy
    BY <1>3 DEF Moves
  <2>2. sent' = sent
    BY <1>3 DEF Moves
  <2> QED BY <1>3, <2>1, <2>2, BringsMoves, ArmedKept, TimersSubset
<1>4. ASSUME NEW i \in Op, Store(i) PROVE ArmedInv'
  <2>1. \A j \in Op : op'[j].origin = "expiry" /\ Open(op'[j]) =>
               /\ op[j].origin = "expiry" /\ Open(op[j])
               /\ op'[j].state = op[j].state /\ op'[j].armedBy = op[j].armedBy
    BY <1>4, StoreEffect DEF Open
  <2>2. sent' = sent /\ timers' = timers
    BY <1>4, StoreEffect
  <2> QED BY <1>4, <2>1, <2>2, BringsStore, ArmedKept, TimersSubset
<1>5. CASE UNCHANGED <<index, op, sent, busy>> /\ TimersKept
  <2>1. BringsKept
    BY <1>5, BringsIdle
  <2> QED BY <1>5, <2>1, ArmedKept
<1> QED BY <1>1, <1>2, <1>3, <1>4, <1>5, ArmedSend, ArmedExpiry, ArmedSchedule, StepKinds

LEMMA OwnNext ==
    ASSUME NEW rank, EnteredOnce(rank), Inv, SlotInv, StayInv, RankInv(rank),
           ArmedInv, OwnInv, [Next]_vars
    PROVE  RankInv(rank)' /\ OwnInv'
<1>1. CASE Crash
  <2>1. \A j \in Op : op[j].pc # "unsent" =>
               op'[j].origin = op[j].origin /\ op'[j].armedBy = op[j].armedBy
    BY <1>1, CrashEffect
  <2> QED BY <1>1, <2>1, VersionsKept DEF Crash
<1>2. ASSUME NEW i \in Op, Moves(i) PROVE RankInv(rank)' /\ OwnInv'
  BY <1>2, VersionsKept DEF Moves
<1>3. ASSUME NEW origin, NEW state, NEW trigger, NEW armedBy,
             Send(origin, state, trigger, armedBy), index' = index
      PROVE  RankInv(rank)' /\ OwnInv'
  <2>1. \A j \in Op : op[j].pc # "unsent" => op'[j] = op[j]
    BY <1>3, SendsRecord
  <2> QED BY <1>3, <2>1, VersionsKept
<1>4. ASSUME NEW t \in timers, ExpiryPatch(t) PROVE RankInv(rank)' /\ OwnInv'
  BY <1>3, <1>4 DEF ExpiryPatch
<1>5. CASE UNCHANGED <<index, op>>
  BY <1>5, VersionsKept
<1> QED BY <1>1, <1>2, <1>3, <1>4, <1>5, RankCreate, RankStore, OwnStore,
           StepKinds, MovesSchedule

(* What run FSMStaleTimer finds takes a configuration that brings a         *)
(* document into an expiring state a second time, or an entry action that   *)
(* throws after the timers were armed.  Without these an expiry ends the    *)
(* stay that armed it, whatever the order of patches, GETs and crashes.     *)
THEOREM ExpiryEndsItsOwnStayOnce ==
    ASSUME NEW rank, EnteredOnce(rank), EntryReturns
    PROVE  Spec => []ExpiryEndsItsOwnStay
<1> DEFINE All == Inv /\ SlotInv /\ StayInv /\ RankInv(rank) /\ ArmedInv /\ OwnInv
<1>1. All => ExpiryEndsItsOwnStay
  BY DEF OwnInv, ExpiryEndsItsOwnStay
<1>2. Init => All
  <2> SUFFICES ASSUME Init PROVE All
    OBVIOUS
  <2>1. index = << >> /\ timers = {} /\ \A i \in Op : op[i] = Unsent
    BY DEF Init
  <2>2. Len(index) = 0
    BY <2>1
  <2>3. StayInv /\ ArmedInv
    BY <2>1, <2>2 DEF StayInv, ArmedInv, Unsent, Alive
  <2>4. RankInv(rank) /\ OwnInv
    BY <2>2 DEF RankInv, OwnInv
  <2> QED BY <2>3, <2>4, InvInit, SlotInit
<1>3. All /\ [Next]_vars => All'
  BY InvNext, SlotNext, StayNext, ArmedNext, OwnNext
<1> QED BY <1>1, <1>2, <1>3, PTL DEF Spec

-----------------------------------------------------------------------------
(* The state an expiry names                                                *)

(* An expiry, armed or sent, names the destination of the patch that armed  *)
(* it, which is a state that its trigger expires.                           *)
TimerInv ==
    /\ \A t \in timers :
          /\ t.by \in Op /\ Past(op[t.by]) /\ t.state = op[t.by].dst
          /\ t.trigger \in ExpiryOf(t.state)
    /\ \A i \in Op : op[i].origin = "expiry" /\ op[i].pc # "unsent" =>
          LET by == op[i].armedBy IN
          /\ by \in Op /\ Past(op[by]) /\ op[i].state = op[by].dst
          /\ op[i].state # None /\ op[i].trigger \in ExpiryOf(op[i].state)

(* a patch that was not sent before was sent by a timer or is no expiry *)
LEMMA NewExpiries ==
    ASSUME Inv, SlotInv, [Next]_vars, NEW j \in Op,
           op[j].pc = "unsent", op'[j].pc # "unsent", op'[j].origin = "expiry"
    PROVE  \E t \in timers : ExpiryPatch(t)
<1>1. ASSUME NEW origin \in {"client", "initial"}, NEW state, NEW trigger,
             Send(origin, state, trigger, 0)
      PROVE  FALSE
  BY <1>1, SendsRecord
<1>2. ASSUME NEW posted \in PostState, Create(posted) PROVE FALSE
  BY <1>1, <1>2 DEF Create, SelfPatchIfInitial
<1>3. ASSUME Crash PROVE FALSE
  BY <1>3, CrashEffect
<1>4. ASSUME NEW i \in Op, Moves(i) PROVE FALSE
  BY <1>4 DEF Moves
<1>5. ASSUME NEW i \in Op, Store(i) PROVE FALSE
  BY <1>5, StoreEffect
<1> QED BY <1>1, <1>2, <1>3, <1>4, <1>5, StepKinds, MovesSchedule

LEMMA TimerNext ==
    ASSUME Inv, SlotInv, WaysInv, TimerInv, [Next]_vars
    PROVE  TimerInv'
<1>1. Keep
  BY KeepNext
<1>2. \A b \in Op : Past(op[b]) => Past(op'[b]) /\ op'[b].dst = op[b].dst
  BY <1>1 DEF Keep, Keeps
<1>3. ASSUME NEW u \in timers'
      PROVE  /\ u.by \in Op /\ Past(op'[u.by]) /\ u.state = op'[u.by].dst
             /\ u.trigger \in ExpiryOf(u.state)
  <2>1. ASSUME NEW t \in timers,
               u.trigger = t.trigger, u.state = t.state, u.by = t.by
        PROVE  /\ u.by \in Op /\ Past(op'[u.by]) /\ u.state = op'[u.by].dst
               /\ u.trigger \in ExpiryOf(u.state)
    BY <1>2, <2>1 DEF TimerInv
  <2>2. ASSUME NEW i \in Op, ScheduleExpiry(i), u \notin timers
        PROVE  /\ u.by \in Op /\ Past(op'[u.by]) /\ u.state = op'[u.by].dst
               /\ u.trigger \in ExpiryOf(u.state)
    <3>1. PICK t \in ExpiryOf(op[i].dst) :
            u = [trigger |-> t, state |-> op[i].dst, by |-> i, lost |-> FALSE]
      BY <2>2, ScheduleEffect
    <3>2. Past(op[i])
      BY <2>2 DEF ScheduleExpiry, ExitDone, Past
    <3> QED BY <1>2, <3>1, <3>2
  <2>3. TimersKept \/ \E i \in Op : ScheduleExpiry(i)
    <3>1. ASSUME NEW t \in timers, ExpiryPatch(t) PROVE TimersKept
      BY <3>1, TimersSubset DEF ExpiryPatch
    <3>2. ASSUME NEW posted \in PostState, Create(posted) PROVE TimersKept
      BY <3>2, TimersSubset DEF Create
    <3>3. Crash => TimersKept
      BY TimersSubset DEF Crash
    <3>4. ASSUME NEW i \in Op, Store(i) PROVE TimersKept
      BY <3>4, StoreEffect, TimersSubset
    <3> QED BY <3>1, <3>2, <3>3, <3>4, StepKinds, TimersSubset
  <2> QED BY <2>1, <2>2, <2>3 DEF TimersKept
<1>4. ASSUME NEW i \in Op, op'[i].origin = "expiry", op'[i].pc # "unsent",
             NEW b, b = op'[i].armedBy
      PROVE  /\ b \in Op /\ Past(op'[b]) /\ op'[i].state = op'[b].dst
             /\ op'[i].state # None /\ op'[i].trigger \in ExpiryOf(op'[i].state)
  <2>1. CASE op[i].pc # "unsent"
    <3>1. /\ op[i].origin = "expiry" /\ b = op[i].armedBy
          /\ op'[i].state = op[i].state /\ op'[i].trigger = op[i].trigger
      BY <1>1, <1>4, <2>1 DEF Keep, Keeps
    <3> QED BY <1>2, <2>1, <3>1 DEF TimerInv
  <2>2. CASE op[i].pc = "unsent"
    <3>1. PICK t \in timers : ExpiryPatch(t)
      BY <1>4, <2>2, NewExpiries
    <3>2. i = sent + 1
      BY <1>4, <2>2, <3>1, ExpiryIsSent
    <3>3. b = t.by /\ op'[i].state = t.state /\ op'[i].trigger = t.trigger
      BY <1>4, <3>1, <3>2, ExpiryIsSent
    <3>4. t.state # None
      BY NoneAssumption DEF Inv, TypeInv, TypeOK, Timer
    <3>5. /\ t.by \in Op /\ Past(op[t.by]) /\ t.state = op[t.by].dst
          /\ t.trigger \in ExpiryOf(t.state)
      BY DEF TimerInv
    <3> QED BY <1>2, <3>3, <3>4, <3>5
  <2> QED BY <2>1, <2>2
<1> QED BY <1>3, <1>4 DEF TimerInv, Past, ExpiryOf

LEMMA TimerInit == Init => TimerInv
<1>1. Init => timers = {} /\ \A i \in Op : op[i].pc = "unsent"
  BY DEF Init, Unsent
<1> QED BY <1>1 DEF TimerInv

(* A patch whose body names a state changes the document only from that     *)
(* state, and a timer's names the destination of the transition that armed  *)
(* it: whatever is configured, in whatever state the document is when the   *)
(* timer runs out, and whatever that state would do with the trigger, an    *)
(* expiry ends no state but the one it was configured for.                  *)
THEOREM ConditionalPatchCorrect == Spec => []ConditionalPatch
<1> DEFINE All == Inv /\ SlotInv /\ WaysInv /\ TimerInv
<1>1. All => ConditionalPatch
  <2> SUFFICES ASSUME All, NEW k \in 2 .. Len(index),
                      NEW patch, patch = op[index[k].by],
                      NEW left, left = index[k - 1].state
               PROVE  /\ patch.state \in {None, left}
                      /\ patch.trigger = index[k].trigger
                      /\ patch.origin = "expiry" =>
                            left = op[patch.armedBy].dst /\ patch.trigger \in ExpiryOf(left)
    BY DEF ConditionalPatch
  <2>1. patch.state \in {None, left} /\ patch.trigger = index[k].trigger
    BY DEF Inv, IndexInv
  <2>2. index[k].by \in Op /\ patch.pc # "unsent"
    BY Makers
  <2>3. patch.origin = "expiry" =>
           /\ patch.state # None /\ patch.state = op[patch.armedBy].dst
           /\ patch.trigger \in ExpiryOf(patch.state)
    BY <2>2 DEF TimerInv
  <2> QED BY <2>1, <2>3
<1>2. Init => All
  BY InvInit, SlotInit, WaysInit, TimerInit
<1>3. All /\ [Next]_vars => All'
  BY InvNext, SlotNext, CarryNext, TimerNext
<1> QED BY <1>1, <1>2, <1>3, PTL DEF Spec
=============================================================================
