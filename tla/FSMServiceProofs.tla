-------------------------- MODULE FSMServiceProofs --------------------------
(***************************************************************************)
(* Proofs about FSMService, for every configuration and every bound.       *)
(***************************************************************************)
EXTENDS FSMService, TLAPS

(* TypeOK is not inductive: the version Store appends takes its state from  *)
(* the transition, and BeginPatch reads the last version, which must exist. *)
TypeInv ==
    /\ TypeOK
    /\ svc # "absent" => index # << >>
    /\ \A i \in Op : op[i].pc \in {"exit", "entry"} \/ op[i].answer = "completed"
                        => op[i].dst \in State

(* A patch whose version is still to be made: its handler runs and has not  *)
(* completed it, or it is completed and not stored.                         *)
Unstored(i) ==
    \/ Running(i) /\ op[i].answer = "none"
    \/ op[i].answer = "completed"

(* ... and whose destination is known.                                      *)
Decided(i) ==
    \/ op[i].pc \in {"exit", "entry"} /\ op[i].answer = "none"
    \/ op[i].answer = "completed"

(* What holds of each patch.  The patch whose version is to be made holds   *)
(* the slot and read the state the document still has: this is what makes   *)
(* the version Store appends an edge from the last one.                     *)
OpInv(i) ==
    /\ i > sent <=> op[i].pc = "unsent"
    /\ op[i].pc \in {"unsent", "queued", "validate", "transit"} => op[i].answer = "none"
    /\ Unstored(i) \/ op[i].answer = "stored" => busy = i
    /\ Unstored(i) => /\ op[i].src = CurrentState
                      /\ op[i].state \in {None, op[i].src}
    /\ Decided(i) => <<op[i].src, op[i].trigger, op[i].dst>> \in SvcGraph(Config)

(* What holds of the versions after the first.                              *)
IndexInv ==
    /\ \A k \in 2 .. Len(index) :
          /\ index[k].by \in Op
          /\ op[index[k].by].answer \in {"stored", "ok", "lost"}
          /\ op[index[k].by].state \in {None, index[k - 1].state}
          /\ op[index[k].by].trigger = index[k].trigger
          /\ <<index[k - 1].state, index[k].trigger, index[k].state>> \in SvcGraph(Config)
          /\ \A j \in 2 .. Len(index) : index[j].by = index[k].by => j = k
    /\ \A i \in Op : op[i].answer \in {"stored", "ok"}
                        => \E k \in 2 .. Len(index) : index[k].by = i

Inv ==
    /\ TypeInv
    /\ svc = "absent" => index = << >> /\ sent = 0 /\ timers = {}
    /\ \A i \in Op : OpInv(i)
    /\ IndexInv

-----------------------------------------------------------------------------
(* The representation of a configured state has the declared parts, and a   *)
(* look-up yields behaviours whose destination is a state.                  *)
LEMMA ConfigParts ==
    ASSUME NEW s \in DOMAIN Config
    PROVE  /\ s \in State
           /\ Config[s].behaviours \in Seq(Behaviour)
           /\ Config[s].entry \in Seq(Action)
           /\ Config[s].exit \in Seq(Action)
           /\ Config[s].expiry \subseteq Trigger
  BY ConfigAssumption DEF IsConfiguration, Representation

(* A behaviour the look-up yields makes an edge of the configured graph.    *)
LEMMA ActualDestination ==
    ASSUME NEW s \in DOMAIN Config, NEW t, NEW k \in Actual(Config[s], t, open)
    PROVE  /\ k \in DOMAIN Config[s].behaviours
           /\ Config[s].behaviours[k].trigger = t
           /\ Config[s].behaviours[k].destination \in State
           /\ <<s, t, Config[s].behaviours[k].destination>> \in SvcGraph(Config)
  <1>1. /\ k \in DOMAIN Config[s].behaviours
        /\ Config[s].behaviours[k].trigger = t
    BY DEF Actual
  <1>2. Config[s].behaviours[k] \in Behaviour
    BY <1>1, ConfigParts
  <1>3. <<s, t, Config[s].behaviours[k].destination>> \in SvcGraph(Config)
    BY <1>1 DEF SvcGraph
  <1> QED
    BY <1>1, <1>2, <1>3 DEF Behaviour

(* The state of an existing document is a state.                            *)
LEMMA CurrentStateIsState ==
    ASSUME TypeInv, svc # "absent"
    PROVE  /\ Len(index) \in Nat \ {0}
           /\ CurrentState \in State
  <1>1. index \in Seq(Version) /\ index # << >>
    BY DEF TypeInv, TypeOK
  <1>2. Len(index) \in Nat \ {0} /\ index[Len(index)] \in Version
    BY <1>1
  <1> QED
    BY <1>2 DEF CurrentState, Version

-----------------------------------------------------------------------------
(* Types                                                                    *)

(* The record of a patch that was not sent is a record.                     *)
LEMMA UnsentType == Unsent \in OpRecord
  BY DEF Unsent, OpRecord, StateOrNull, TriggerOrNull, PC, Answer

(* Changing the record of one patch keeps the types if the new record is    *)
(* one, and has a destination whenever it needs one.                        *)
LEMMA UpdateType ==
    ASSUME TypeInv, NEW i \in Op, NEW r \in OpRecord, Update(i, r)
    PROVE  /\ op' \in [Op -> OpRecord]
           /\ op'[i] = r
           /\ \A j \in Op : j # i => op'[j] = op[j]
  BY DEF Update, TypeInv, TypeOK

(* So the type invariant survives a step that updates one patch.            *)
LEMMA UpdateTypeInv ==
    ASSUME TypeInv, NEW i \in Op, NEW r \in OpRecord, Update(i, r),
           r.pc \in {"exit", "entry"} \/ r.answer = "completed" => r.dst \in State,
           UNCHANGED <<svc, index, sent, open, crashes>>,
           expireFrom' \in StateOrNull, busy' \in Op \cup {0}, timers' \subseteq Timer
    PROVE  TypeInv'
  <1>1. op' \in [Op -> OpRecord]
    BY UpdateType
  <1>2. \A j \in Op : op'[j].pc \in {"exit", "entry"} \/ op'[j].answer = "completed"
                         => op'[j].dst \in State
    BY UpdateType DEF TypeInv
  <1> QED
    BY <1>1, <1>2 DEF TypeInv, TypeOK

(* What Send makes of the next unsent patch.                                *)
LEMMA SendEffect ==
    ASSUME TypeInv,
           NEW o \in {"client", "initial", "expiry"}, NEW s \in StateOrNull,
           NEW t \in TriggerOrNull, NEW a \in Nat,
           Send(o, s, t, a)
    PROVE  /\ sent + 1 \in Op
           /\ sent' = sent + 1
           /\ sent' \in 0 .. MaxOps
           /\ op' \in [Op -> OpRecord]
           /\ op'[sent + 1].pc = "queued"
           /\ op'[sent + 1].answer = "none"
           /\ \A j \in Op : j # sent + 1 => op'[j] = op[j]
  <1> DEFINE new == [Unsent EXCEPT !.origin = o, !.state = s, !.trigger = t,
                                   !.armedBy = a, !.pc = "queued"]
  <1>1. sent + 1 \in Op /\ sent' = sent + 1 /\ sent' \in 0 .. MaxOps
    BY BoundAssumption DEF Send, TypeInv, TypeOK, Op
  <1>2. new \in OpRecord /\ new.pc = "queued" /\ new.answer = "none"
    BY DEF Unsent, OpRecord, StateOrNull, PC, Answer, TriggerOrNull
  <1>3. Update(sent + 1, new)
    BY DEF Send
  <1> HIDE DEF new
  <1> QED
    BY <1>1, <1>2, <1>3, UpdateType

(* Sending a patch gives no patch a destination.                            *)
LEMMA SendTypes ==
    ASSUME TypeInv,
           NEW o \in {"client", "initial", "expiry"}, NEW s \in StateOrNull,
           NEW t \in TriggerOrNull, NEW a \in Nat,
           Send(o, s, t, a)
    PROVE  \A i \in Op : op'[i].pc \in {"exit", "entry"} \/ op'[i].answer = "completed"
                            => op'[i].dst \in State
  BY SendEffect DEF TypeInv

(* The self-patch of handleStart is a Send or nothing.                      *)
LEMMA SelfPatchTypes ==
    ASSUME TypeInv, NEW s, SelfPatchIfInitial(s)
    PROVE  /\ sent' \in 0 .. MaxOps
           /\ op' \in [Op -> OpRecord]
           /\ \A i \in Op : op'[i].pc \in {"exit", "entry"} \/ op'[i].answer = "completed"
                               => op'[i].dst \in State
  <1>1. CASE Send("initial", InitState, InitialTrigger, 0)
    BY <1>1, SendEffect, SendTypes, ConfigAssumption DEF StateOrNull
  <1>2. CASE UNCHANGED <<op, sent>>
    BY <1>2 DEF TypeInv, TypeOK
  <1> QED
    BY <1>1, <1>2 DEF SelfPatchIfInitial

(* What Fail makes of a patch.                                              *)
LEMMA FailEffect ==
    ASSUME TypeInv, NEW i \in Op, Fail(i)
    PROVE  /\ op'[i] \in OpRecord /\ Update(i, op'[i])
           /\ op'[i].pc = "failed"
           /\ op'[i].answer = IF op[i].answer = "none" THEN "error" ELSE op[i].answer
           /\ op'[i].src = op[i].src /\ op'[i].dst = op[i].dst
           /\ op'[i].state = op[i].state /\ op'[i].trigger = op[i].trigger
           /\ \A j \in Op : j # i => op'[j] = op[j]
           /\ busy' = IF op[i].answer = "none" THEN 0 ELSE busy
           /\ UNCHANGED <<svc, index, expireFrom, sent, timers, open, crashes>>
           /\ TypeInv'
  <1> DEFINE new == [op[i] EXCEPT !.pc = "failed",
                                  !.answer = IF @ = "none" THEN "error" ELSE @]
  <1>1. op[i] \in OpRecord
    BY DEF TypeInv, TypeOK
  <1>2. /\ new \in OpRecord
        /\ new.pc = "failed"
        /\ new.answer = IF op[i].answer = "none" THEN "error" ELSE op[i].answer
        /\ new.src = op[i].src /\ new.dst = op[i].dst
        /\ new.state = op[i].state /\ new.trigger = op[i].trigger
    BY <1>1 DEF OpRecord, PC, Answer
  <1>3. /\ Update(i, new)
        /\ busy' = IF op[i].answer = "none" THEN 0 ELSE busy
        /\ UNCHANGED <<svc, index, expireFrom, sent, timers, open, crashes>>
    BY DEF Fail
  <1> HIDE DEF new
  <1>4. op'[i] = new /\ \A j \in Op : j # i => op'[j] = op[j]
    BY <1>2, <1>3, UpdateType
  <1>5. new.answer = "completed" => new.dst \in State
    BY <1>2 DEF TypeInv
  <1>6. TypeInv'
    BY <1>2, <1>3, <1>5, UpdateTypeInv DEF TypeInv, TypeOK
  <1> QED
    BY <1>2, <1>3, <1>4, <1>6

-----------------------------------------------------------------------------
(* Steps that change one patch and leave the index alone                    *)

(* The invariant survives a step that changes one patch, provided it still  *)
(* holds of that patch, its answer is not taken back, and the slot is freed *)
(* only when no other patch needs it.                                       *)
LEMMA LocalStep ==
    ASSUME Inv, NEW i \in Op, NEW r \in OpRecord, Update(i, r),
           UNCHANGED <<svc, index, sent>>,
           op[i].pc # "unsent", timers' = timers \/ svc # "absent",
           r.state = op[i].state, r.trigger = op[i].trigger,
           op[i].answer \in {"stored", "ok", "lost"}
               => r.answer \in {"stored", "ok", "lost"},
           r.answer \in {"stored", "ok"} => op[i].answer \in {"stored", "ok"},
           busy' = busy \/ \A j \in Op : j # i => ~ (Unstored(j) \/ op[j].answer = "stored"),
           TypeInv', OpInv(i)'
    PROVE  Inv'
  <1>1. /\ op'[i] = r
        /\ \A j \in Op : j # i => op'[j] = op[j]
    BY UpdateType DEF Inv
  <1>2. ASSUME NEW j \in Op PROVE OpInv(j)'
    <2>1. CASE j = i
      BY <2>1
    <2>2. CASE j # i
      <3>1. op'[j] = op[j] /\ CurrentState' = CurrentState /\ sent' = sent
        BY <1>1, <2>2 DEF CurrentState
      <3>2. OpInv(j)
        BY DEF Inv
      <3>3. Unstored(j)' = Unstored(j) /\ Decided(j)' = Decided(j)
        BY <3>1 DEF Unstored, Decided, Running
      <3>4. Unstored(j) \/ op[j].answer = "stored" => busy' = busy
        BY <2>2
      <3> QED
        BY <3>1, <3>2, <3>3, <3>4 DEF OpInv
    <2> QED
      BY <2>1, <2>2
  <1>3. IndexInv'
    <2>1. IndexInv
      BY DEF Inv
    <2>2. \A j \in Op : /\ op'[j].state = op[j].state
                        /\ op'[j].trigger = op[j].trigger
                        /\ op[j].answer \in {"stored", "ok", "lost"}
                               => op'[j].answer \in {"stored", "ok", "lost"}
                        /\ op'[j].answer \in {"stored", "ok"}
                               => op[j].answer \in {"stored", "ok"}
      BY <1>1
    <2> QED
      BY <2>1, <2>2 DEF IndexInv
  <1>4. svc' = "absent" => index' = << >> /\ sent' = 0 /\ timers' = {}
    BY DEF Inv
  <1> QED
    BY <1>2, <1>3, <1>4 DEF Inv

(* The slot has one holder, and none when it is free.                       *)
LEMMA OnlyHolder ==
    ASSUME Inv, NEW i \in Op,
           busy = 0 \/ Unstored(i) \/ op[i].answer = "stored"
    PROVE  \A j \in Op : j # i => ~ (Unstored(j) \/ op[j].answer = "stored")
  <1>1. 0 \notin Op
    BY BoundAssumption DEF Op
  <1>2. \A j \in Op : OpInv(j)
    BY DEF Inv
  <1> QED
    BY <1>1, <1>2 DEF OpInv

(* A patch that was sent went to a document that exists.                    *)
LEMMA SentExists ==
    ASSUME Inv, NEW i \in Op, op[i].pc # "unsent"
    PROVE  svc # "absent"
  <1>1. ~ (i > sent)
    BY DEF Inv, OpInv
  <1>2. sent # 0
    BY <1>1, BoundAssumption DEF Op
  <1> QED
    BY <1>2 DEF Inv

(* A patch fails while it runs, or before it was given the slot.            *)
LEMMA FailInv ==
    ASSUME Inv, NEW i \in Op, Fail(i), op[i].pc # "unsent",
           op[i].answer = "none" => Unstored(i) \/ busy = 0
    PROVE  Inv'
  <1>1. TypeInv /\ OpInv(i)
    BY DEF Inv
  <1>2. OpInv(i)'
    BY <1>1, FailEffect DEF OpInv, Unstored, Decided, Running, CurrentState
  <1>3. busy' = busy \/ \A j \in Op : j # i => ~ (Unstored(j) \/ op[j].answer = "stored")
    BY <1>1, FailEffect, OnlyHolder
  <1> QED
    BY <1>1, <1>2, <1>3, FailEffect, LocalStep

-----------------------------------------------------------------------------
(* One lemma for each action                                                *)

(* validatePatch fails a patch that does not hold the slot.                 *)
LEMMA RejectPatchInv ==
    ASSUME Inv, NEW i \in Op, RejectPatch(i)
    PROVE  Inv'
  BY FailInv DEF RejectPatch, Dequeues

(* The patch that gets the slot reads the state of the document.            *)
LEMMA BeginPatchInv ==
    ASSUME Inv, NEW i \in Op, BeginPatch(i)
    PROVE  Inv'
  <1> DEFINE r == [op[i] EXCEPT !.pc = "validate", !.src = CurrentState]
  <1>1. TypeInv /\ OpInv(i) /\ op[i] \in OpRecord
    BY DEF Inv, TypeInv, TypeOK
  <1>2. svc = "available" /\ busy = 0 /\ op[i].pc = "queued" /\ IsValid(i)
        /\ busy' = i /\ Update(i, r)
        /\ UNCHANGED <<svc, index, expireFrom, sent, timers, open, crashes>>
    BY DEF BeginPatch, Dequeues
  <1>3. CurrentState \in State
    BY <1>1, <1>2, CurrentStateIsState
  <1>4. /\ r \in OpRecord
        /\ r.pc = "validate" /\ r.src = CurrentState
        /\ r.answer = op[i].answer /\ r.state = op[i].state /\ r.trigger = op[i].trigger
    BY <1>1, <1>3 DEF OpRecord, PC, StateOrNull
  <1>5. op[i].answer = "none"
    BY <1>1, <1>2 DEF OpInv
  <1> HIDE DEF r
  <1>6. op'[i] = r
    BY <1>1, <1>2, <1>4, UpdateType
  <1>7. TypeInv'
    BY <1>1, <1>2, <1>4, <1>5, UpdateTypeInv DEF TypeInv, TypeOK
  <1>8. OpInv(i)'
    BY <1>1, <1>2, <1>4, <1>5, <1>6
       DEF OpInv, Unstored, Decided, Running, CurrentState, IsValid
  <1> QED
    BY <1>1, <1>2, <1>4, <1>5, <1>7, <1>8, OnlyHolder, LocalStep

(* Validation changes nothing but the progress of the patch.                *)
LEMMA ValidateTriggerInv ==
    ASSUME Inv, NEW i \in Op, ValidateTrigger(i)
    PROVE  Inv'
  <1> DEFINE r == [op[i] EXCEPT !.pc = "transit"]
  <1>1. TypeInv /\ OpInv(i) /\ op[i] \in OpRecord
    BY DEF Inv, TypeInv, TypeOK
  <1>2. op[i].pc = "validate" /\ Update(i, r)
        /\ UNCHANGED <<svc, index, expireFrom, sent, busy, timers, open, crashes>>
    BY DEF ValidateTrigger
  <1>3. /\ r \in OpRecord
        /\ r.pc = "transit" /\ r.src = op[i].src
        /\ r.answer = op[i].answer /\ r.state = op[i].state /\ r.trigger = op[i].trigger
    BY <1>1 DEF OpRecord, PC
  <1>4. op[i].answer = "none"
    BY <1>1, <1>2 DEF OpInv
  <1> HIDE DEF r
  <1>5. op'[i] = r
    BY <1>1, <1>2, <1>3, UpdateType
  <1>6. TypeInv'
    BY <1>1, <1>2, <1>3, <1>4, UpdateTypeInv DEF TypeInv, TypeOK
  <1>7. OpInv(i)'
    BY <1>1, <1>2, <1>3, <1>4, <1>5
       DEF OpInv, Unstored, Decided, Running, CurrentState
  <1> QED
    BY <1>1, <1>2, <1>3, <1>4, <1>6, <1>7, LocalStep

(* A patch that is refused, or meets an exception, fails while it runs.     *)
LEMMA RefuseTriggerInv ==
    ASSUME Inv, NEW i \in Op, RefuseTrigger(i) \/ TransitFails(i)
    PROVE  Inv'
  BY FailInv DEF RefuseTrigger, TransitFails, Unstored, Running

(* The destination transit finds makes an edge from the state it read.      *)
LEMMA TransitInv ==
    ASSUME Inv, NEW i \in Op, Transit(i)
    PROVE  Inv'
  <1>1. TypeInv /\ OpInv(i) /\ op[i] \in OpRecord
    BY DEF Inv, TypeInv, TypeOK
  <1>2. PICK k \in Actual(Config[op[i].src], op[i].trigger, open) :
          Update(i, [op[i] EXCEPT !.pc = "exit", !.step = 1,
                        !.dst = Config[op[i].src].behaviours[k].destination])
    BY DEF Transit
  <1> DEFINE d == Config[op[i].src].behaviours[k].destination
             r == [op[i] EXCEPT !.pc = "exit", !.step = 1, !.dst = d]
  <1>3. op[i].pc = "transit" /\ op[i].src \in DOMAIN Config
        /\ UNCHANGED <<svc, index, expireFrom, sent, busy, timers, open, crashes>>
    BY DEF Transit, Permitted
  <1>4. d \in State /\ <<op[i].src, op[i].trigger, d>> \in SvcGraph(Config)
    BY <1>2, <1>3, ActualDestination
  <1>5. Update(i, r)
    BY <1>2
  <1> HIDE DEF d
  <1>6. /\ r \in OpRecord
        /\ r.pc = "exit" /\ r.src = op[i].src /\ r.dst = d
        /\ r.answer = op[i].answer /\ r.state = op[i].state /\ r.trigger = op[i].trigger
    BY <1>1, <1>4 DEF OpRecord, PC, StateOrNull
  <1>7. op[i].answer = "none"
    BY <1>1, <1>3 DEF OpInv
  <1> HIDE DEF r
  <1>8. op'[i] = r
    BY <1>1, <1>5, <1>6, UpdateType
  <1>9. TypeInv'
    BY <1>1, <1>3, <1>4, <1>5, <1>6, <1>7, UpdateTypeInv DEF TypeInv, TypeOK
  <1>10. OpInv(i)'
    BY <1>1, <1>3, <1>4, <1>6, <1>7, <1>8
       DEF OpInv, Unstored, Decided, Running, CurrentState
  <1> QED
    BY <1>1, <1>3, <1>5, <1>6, <1>7, <1>9, <1>10, LocalStep

(* An action that returns may complete the patch, and nothing else.         *)
LEMMA PerformInv ==
    ASSUME Inv, NEW i \in Op, NEW actions, Perform(i, actions),
           op[i].pc \in {"exit", "entry"}
    PROVE  Inv'
  <1> DEFINE c == /\ actions[op[i].step].does = "complete"
                  /\ Runs(actions[op[i].step], i)
             answer == IF c /\ op[i].answer = "none" THEN "completed" ELSE op[i].answer
             step == op[i].step + 1
             r == [op[i] EXCEPT !.step = step, !.answer = answer]
  <1>1. TypeInv /\ OpInv(i) /\ op[i] \in OpRecord
    BY DEF Inv, TypeInv, TypeOK
  <1>2. Update(i, r)
        /\ UNCHANGED <<svc, index, expireFrom, sent, busy, timers, open, crashes>>
    BY DEF Perform
  <1>3. \/ answer = op[i].answer
        \/ op[i].answer = "none" /\ answer = "completed"
    BY DEF Runs
  <1>4. step \in Nat
    BY <1>1 DEF OpRecord
  <1> HIDE DEF answer, step
  <1>5. answer \in Answer
    BY <1>1, <1>3 DEF OpRecord, Answer
  <1>6. /\ r \in OpRecord
        /\ r.pc = op[i].pc /\ r.src = op[i].src /\ r.dst = op[i].dst
        /\ \/ r.answer = op[i].answer
           \/ op[i].answer = "none" /\ r.answer = "completed"
        /\ r.state = op[i].state /\ r.trigger = op[i].trigger
    BY <1>1, <1>3, <1>4, <1>5 DEF OpRecord
  <1>7. op[i].dst \in State
    BY <1>1 DEF TypeInv
  <1> HIDE DEF r
  <1>8. op'[i] = r
    BY <1>1, <1>2, <1>6, UpdateType
  <1>9. TypeInv'
    BY <1>1, <1>2, <1>6, <1>7, UpdateTypeInv DEF TypeInv, TypeOK
  <1>10. OpInv(i)'
    BY <1>1, <1>2, <1>6, <1>8
       DEF OpInv, Unstored, Decided, Running, CurrentState
  <1> QED
    BY <1>1, <1>2, <1>6, <1>9, <1>10, LocalStep

(* An action that throws fails the patch while it runs.                     *)
LEMMA ThrowsInv ==
    ASSUME Inv, NEW i \in Op, NEW actions, Throws(i, actions),
           op[i].pc \in {"exit", "entry"}
    PROVE  Inv'
  BY FailInv DEF Throws, Unstored, Running

(* Both kinds of actions preserve the invariant.                            *)
LEMMA ActionInv ==
    ASSUME Inv, NEW i \in Op, ExitAction(i) \/ EntryAction(i)
    PROVE  Inv'
  BY PerformInv, ThrowsInv DEF ExitAction, EntryAction

(* The timers that are armed have the types of their parts.                 *)
LEMMA ScheduleExpiryInv ==
    ASSUME Inv, NEW i \in Op, ScheduleExpiry(i)
    PROVE  Inv'
  <1> DEFINE dst == op[i].dst
             expiring == Config[dst].expiry # {}
             armed == {[trigger |-> t, state |-> dst, by |-> i, lost |-> FALSE] :
                          t \in Config[dst].expiry}
  <1>1. TypeInv /\ OpInv(i) /\ op[i] \in OpRecord
    BY DEF Inv, TypeInv, TypeOK
  <1>2. PICK written \in BOOLEAN :
          /\ Update(i, [op[i] EXCEPT !.pc = "entry", !.step = 1,
                                     !.expires = written /\ expiring])
          /\ expireFrom' \in {dst, expireFrom}
    BY DEF ScheduleExpiry
  <1> DEFINE r == [op[i] EXCEPT !.pc = "entry", !.step = 1,
                                !.expires = written /\ expiring]
  <1>3. op[i].pc = "exit" /\ dst \in DOMAIN Config /\ timers' = timers \cup armed
        /\ UNCHANGED <<svc, index, sent, busy, open, crashes>>
    BY DEF ScheduleExpiry, ExitDone
  <1>4. dst \in State /\ armed \subseteq Timer
    <2>1. dst \in State /\ Config[dst].expiry \subseteq Trigger /\ i \in Nat
      BY <1>3, ConfigParts, BoundAssumption DEF Op
    <2>2. \A t \in Config[dst].expiry :
             [trigger |-> t, state |-> dst, by |-> i, lost |-> FALSE] \in Timer
      BY <2>1 DEF Timer
    <2> QED BY <2>1, <2>2
  <1>5. Update(i, r) /\ (written /\ expiring) \in BOOLEAN
    BY <1>2
  <1> HIDE DEF expiring
  <1>6. /\ r \in OpRecord
        /\ r.pc = "entry" /\ r.src = op[i].src /\ r.dst = dst
        /\ r.answer = op[i].answer /\ r.state = op[i].state /\ r.trigger = op[i].trigger
    BY <1>1, <1>5 DEF OpRecord, PC
  <1> HIDE DEF r, armed
  <1>7. op'[i] = r
    BY <1>1, <1>5, <1>6, UpdateType
  <1>8. expireFrom' \in StateOrNull /\ timers' \subseteq Timer /\ busy' \in Op \cup {0}
    BY <1>1, <1>2, <1>3, <1>4 DEF TypeInv, TypeOK, StateOrNull
  <1>9. TypeInv'
    BY <1>1, <1>3, <1>4, <1>5, <1>6, <1>8, UpdateTypeInv
  <1>10. OpInv(i)'
    BY <1>1, <1>3, <1>6, <1>7
       DEF OpInv, Unstored, Decided, Running, CurrentState
  <1> QED
    BY <1>1, <1>3, <1>5, <1>6, <1>9, <1>10, SentExists, LocalStep

(* A destination nobody configured fails the patch while it runs.           *)
LEMMA DanglingDestinationInv ==
    ASSUME Inv, NEW i \in Op, DanglingDestination(i)
    PROVE  Inv'
  BY FailInv DEF DanglingDestination, ExitDone, Unstored, Running

(* A handler that returns decides nothing more.                             *)
LEMMA FinishInv ==
    ASSUME Inv, NEW i \in Op, Finish(i)
    PROVE  Inv'
  <1> DEFINE r == [op[i] EXCEPT !.pc = "done"]
  <1>1. TypeInv /\ OpInv(i) /\ op[i] \in OpRecord
    BY DEF Inv, TypeInv, TypeOK
  <1>2. op[i].pc = "entry" /\ Update(i, r)
        /\ UNCHANGED <<svc, index, expireFrom, sent, busy, timers, open, crashes>>
    BY DEF Finish
  <1>3. /\ r \in OpRecord
        /\ r.pc = "done" /\ r.src = op[i].src /\ r.dst = op[i].dst
        /\ r.answer = op[i].answer /\ r.state = op[i].state /\ r.trigger = op[i].trigger
    BY <1>1 DEF OpRecord, PC
  <1>4. op[i].dst \in State
    BY <1>1, <1>2 DEF TypeInv
  <1> HIDE DEF r
  <1>5. op'[i] = r
    BY <1>1, <1>2, <1>3, UpdateType
  <1>6. TypeInv'
    BY <1>1, <1>2, <1>3, <1>4, UpdateTypeInv DEF TypeInv, TypeOK
  <1>7. OpInv(i)'
    BY <1>1, <1>2, <1>3, <1>5
       DEF OpInv, Unstored, Decided, Running, CurrentState
  <1> QED
    BY <1>1, <1>2, <1>3, <1>6, <1>7, LocalStep

(* The slot is freed once the version of its holder is in the index.        *)
LEMMA ReplyInv ==
    ASSUME Inv, NEW i \in Op, Reply(i)
    PROVE  Inv'
  <1> DEFINE r == [op[i] EXCEPT !.answer = "ok"]
  <1>1. TypeInv /\ OpInv(i) /\ op[i] \in OpRecord
    BY DEF Inv, TypeInv, TypeOK
  <1>2. op[i].answer = "stored" /\ Update(i, r) /\ busy' = 0
        /\ UNCHANGED <<svc, index, expireFrom, sent, timers, open, crashes>>
    BY DEF Reply
  <1>3. /\ r \in OpRecord
        /\ r.pc = op[i].pc /\ r.src = op[i].src /\ r.dst = op[i].dst
        /\ r.answer = "ok" /\ r.state = op[i].state /\ r.trigger = op[i].trigger
    BY <1>1 DEF OpRecord, Answer
  <1>4. op[i].pc # "unsent"
    BY <1>1, <1>2 DEF OpInv
  <1> HIDE DEF r
  <1>5. op'[i] = r
    BY <1>1, <1>2, <1>3, UpdateType
  <1>6. TypeInv'
    BY <1>1, <1>2, <1>3, UpdateTypeInv DEF TypeInv, TypeOK
  <1>7. OpInv(i)'
    BY <1>1, <1>2, <1>3, <1>5
       DEF OpInv, Unstored, Decided, Running, CurrentState
  <1> QED
    BY <1>1, <1>2, <1>3, <1>4, <1>6, <1>7, OnlyHolder, LocalStep

(* The step that changes the index.  The patch being stored holds the slot, *)
(* so no other patch has read the state this step replaces.                 *)
LEMMA StoreInv ==
    ASSUME Inv, NEW i \in Op, Store(i)
    PROVE  Inv'
  <1> DEFINE r == [op[i] EXCEPT !.answer = "stored"]
             v == [state |-> op[i].dst, trigger |-> op[i].trigger, by |-> i]
             n == Len(index)
  <1>1. TypeInv /\ OpInv(i) /\ op[i] \in OpRecord /\ index \in Seq(Version)
    BY DEF Inv, TypeInv, TypeOK
  <1>2. op[i].answer = "completed" /\ Update(i, r) /\ index' = Append(index, v)
        /\ expireFrom' \in {op[i].dst, expireFrom}
        /\ UNCHANGED <<svc, sent, busy, timers, open, crashes>>
    BY DEF Store
  <1>3. /\ r \in OpRecord
        /\ r.pc = op[i].pc /\ r.src = op[i].src /\ r.dst = op[i].dst
        /\ r.answer = "stored" /\ r.state = op[i].state /\ r.trigger = op[i].trigger
    BY <1>1 DEF OpRecord, Answer
  <1>4. op[i].dst \in State /\ v \in Version
    <2>1. op[i].dst \in State
      BY <1>1, <1>2 DEF TypeInv
    <2>2. op[i].trigger \in TriggerOrNull /\ i \in Nat
      BY <1>1, BoundAssumption DEF OpRecord, Op
    <2> QED
      BY <2>1, <2>2 DEF Version
  <1>5. op[i].pc # "unsent"
    BY <1>1, <1>2 DEF OpInv
  <1>6. svc # "absent" /\ n \in Nat \ {0}
    BY <1>1, <1>5, SentExists, CurrentStateIsState
  <1> HIDE DEF r
  <1>7. op' \in [Op -> OpRecord] /\ op'[i] = r /\ \A j \in Op : j # i => op'[j] = op[j]
    BY <1>1, <1>2, <1>3, UpdateType
  <1>8. /\ index' \in Seq(Version) /\ Len(index') = n + 1 /\ index' # << >>
        /\ index'[n + 1] = v
        /\ \A k \in 1 .. n : index'[k] = index[k]
    BY <1>1, <1>2, <1>4, <1>6
  <1>9. TypeInv'
    <2>1. \A j \in Op : op'[j].pc \in {"exit", "entry"} \/ op'[j].answer = "completed"
                           => op'[j].dst \in State
      BY <1>1, <1>3, <1>4, <1>7 DEF TypeInv
    <2>2. expireFrom' \in StateOrNull
      BY <1>1, <1>2, <1>4 DEF TypeInv, TypeOK, StateOrNull
    <2> QED
      BY <1>1, <1>2, <1>7, <1>8, <2>1, <2>2 DEF TypeInv, TypeOK
  <1>10. busy = i /\ op[i].src = CurrentState /\ op[i].state \in {None, CurrentState}
         /\ <<CurrentState, op[i].trigger, op[i].dst>> \in SvcGraph(Config)
    BY <1>1, <1>2 DEF OpInv, Unstored, Decided
  <1>11. ASSUME NEW j \in Op PROVE OpInv(j)'
    <2>1. CASE j = i
      BY <1>1, <1>2, <1>3, <1>5, <1>7, <1>10, <2>1
         DEF OpInv, Unstored, Decided, Running
    <2>2. CASE j # i
      <3>1. op'[j] = op[j] /\ OpInv(j) /\ ~ Unstored(j) /\ op[j].answer # "stored"
        BY <1>2, <1>7, <2>2, OnlyHolder DEF Inv, Unstored
      <3> QED
        BY <1>2, <3>1 DEF OpInv, Unstored, Decided, Running
    <2> QED
      BY <2>1, <2>2
  <1>12. IndexInv'
    <2>1. IndexInv
      BY DEF Inv
    <2>2. \A j \in Op : /\ op'[j].state = op[j].state
                        /\ op'[j].trigger = op[j].trigger
                        /\ op[j].answer \in {"stored", "ok", "lost"}
                               => j # i /\ op'[j].answer = op[j].answer
      BY <1>2, <1>3, <1>7
    <2>3. \A k \in 2 .. n : /\ k \in 1 .. n /\ k - 1 \in 1 .. n
                            /\ index'[k] = index[k] /\ index'[k - 1] = index[k - 1]
      BY <1>6, <1>8
    <2>4. \A k \in 2 .. n : index[k].by # i
      BY <1>2, <2>1 DEF IndexInv
    <2>5. index'[n + 1] = v /\ index'[n] = index[n] /\ index[n].state = CurrentState
      BY <1>6, <1>8 DEF CurrentState
    <2>6. ASSUME NEW k \in 2 .. n + 1
          PROVE  /\ index'[k].by \in Op
                 /\ op'[index'[k].by].answer \in {"stored", "ok", "lost"}
                 /\ op'[index'[k].by].state \in {None, index'[k - 1].state}
                 /\ op'[index'[k].by].trigger = index'[k].trigger
                 /\ <<index'[k - 1].state, index'[k].trigger, index'[k].state>>
                        \in SvcGraph(Config)
                 /\ \A j \in 2 .. n + 1 : index'[j].by = index'[k].by => j = k
      <3>1. CASE k = n + 1
        <4>1. /\ index'[k] = v /\ index'[k - 1] = index[n]
              /\ v.by = i /\ v.trigger = op[i].trigger /\ v.state = op[i].dst
          BY <1>6, <2>5, <3>1
        <4>2. \A j \in 2 .. n + 1 : index'[j].by = i => j = n + 1
          BY <1>6, <2>3, <2>4
        <4>3. /\ op'[i].answer = "stored" /\ op'[i].state = op[i].state
              /\ op'[i].trigger = op[i].trigger
          BY <1>3, <1>7
        <4> HIDE DEF v
        <4> QED
          BY <1>10, <2>5, <3>1, <4>1, <4>2, <4>3
      <3>2. CASE k # n + 1
        <4>1. k \in 2 .. n
          BY <1>6, <3>2
        <4>2. index'[k] = index[k] /\ index'[k - 1] = index[k - 1]
          BY <2>3, <4>1
        <4>3. ASSUME NEW j \in 2 .. n + 1, index'[j].by = index[k].by PROVE j = k
          <5>1. j # n + 1
            BY <2>4, <2>5, <4>1, <4>3
          <5>2. j \in 2 .. n
            BY <1>6, <5>1
          <5> QED
            BY <2>1, <2>3, <4>1, <4>3, <5>2 DEF IndexInv
        <4>4. /\ index[k].by \in Op
              /\ op[index[k].by].answer \in {"stored", "ok", "lost"}
              /\ op[index[k].by].state \in {None, index[k - 1].state}
              /\ op[index[k].by].trigger = index[k].trigger
              /\ <<index[k - 1].state, index[k].trigger, index[k].state>> \in SvcGraph(Config)
          BY <2>1, <4>1 DEF IndexInv
        <4> QED
          BY <2>2, <4>2, <4>3, <4>4
      <3> QED
        BY <3>1, <3>2
    <2>7. ASSUME NEW j \in Op, op'[j].answer \in {"stored", "ok"}
          PROVE  \E k \in 2 .. n + 1 : index'[k].by = j
      <3>1. CASE j = i
        BY <1>6, <2>5, <3>1
      <3>2. CASE j # i
        <4>1. PICK k \in 2 .. n : index[k].by = j
          BY <1>7, <2>1, <2>7, <3>2 DEF IndexInv
        <4> QED
          BY <1>6, <2>3, <4>1
      <3> QED
        BY <3>1, <3>2
    <2> QED
      BY <1>8, <2>6, <2>7 DEF IndexInv
  <1>13. svc' # "absent"
    BY <1>2, <1>6
  <1> QED
    BY <1>9, <1>11, <1>12, <1>13 DEF Inv

(* Sending a patch changes neither the index nor a patch that was sent.     *)
LEMMA SendInv ==
    ASSUME Inv,
           NEW o \in {"client", "initial", "expiry"}, NEW s \in StateOrNull,
           NEW t \in TriggerOrNull, NEW a \in Nat, Send(o, s, t, a),
           UNCHANGED <<index, busy>>, svc' # "absent", TypeInv'
    PROVE  Inv'
  <1>1. TypeInv
    BY DEF Inv
  <1>2. /\ sent + 1 \in Op /\ sent' = sent + 1 /\ sent \in Nat
        /\ op'[sent + 1].pc = "queued" /\ op'[sent + 1].answer = "none"
        /\ \A j \in Op : j # sent + 1 => op'[j] = op[j]
    BY <1>1, SendEffect DEF TypeInv, TypeOK
  <1>3. ASSUME NEW j \in Op PROVE OpInv(j)'
    <2>1. CASE j = sent + 1
      BY <1>2, <2>1 DEF OpInv, Unstored, Decided, Running
    <2>2. CASE j # sent + 1
      <3>1. op'[j] = op[j] /\ OpInv(j) /\ CurrentState' = CurrentState
        BY <1>2, <2>2 DEF Inv, CurrentState
      <3>2. j > sent' <=> j > sent
        BY <1>2, <2>2, BoundAssumption DEF Op
      <3> QED
        BY <3>1, <3>2 DEF OpInv, Unstored, Decided, Running
    <2> QED
      BY <2>1, <2>2
  <1>4. \A j \in Op : op[j].answer # "none" => op'[j] = op[j]
    <2>1. OpInv(sent + 1) /\ sent + 1 > sent
      BY <1>2 DEF Inv
    <2>2. op[sent + 1].answer = "none"
      BY <2>1 DEF OpInv
    <2> QED
      BY <1>2, <2>2
  <1>5. \A j \in Op : op'[j].answer # "none" => op'[j] = op[j]
    BY <1>2
  <1>6. IndexInv'
    <2>1. IndexInv
      BY DEF Inv
    <2>2. index' = index
      OBVIOUS
    <2>3. ASSUME NEW k \in 2 .. Len(index)
          PROVE  op'[index[k].by] = op[index[k].by]
      <3>1. index[k].by \in Op /\ op[index[k].by].answer # "none"
        BY <2>1 DEF IndexInv
      <3> QED
        BY <1>4, <3>1
    <2> QED
      BY <1>5, <2>1, <2>2, <2>3 DEF IndexInv
  <1> QED
    BY <1>3, <1>6 DEF Inv

(* A patch of a client is a patch that is sent.                             *)
LEMMA ClientPatchInv ==
    ASSUME Inv, NEW body \in PatchBody, ClientPatch(body)
    PROVE  Inv'
  <1>1. TypeInv /\ body[1] \in StateOrNull /\ body[2] \in TriggerOrNull
    BY InputAssumption DEF Inv
  <1>2. /\ svc = "available" /\ Send("client", body[1], body[2], 0)
        /\ UNCHANGED <<svc, index, expireFrom, busy, timers, open, crashes>>
    BY DEF ClientPatch
  <1>3. TypeInv'
    BY <1>1, <1>2, SendEffect, SendTypes DEF TypeInv, TypeOK
  <1> QED
    BY <1>1, <1>2, <1>3, SendInv

(* So is the patch of a timer; there are timers only after creation.        *)
LEMMA ExpiryPatchInv ==
    ASSUME Inv, NEW t \in timers, ExpiryPatch(t)
    PROVE  Inv'
  <1>1. TypeInv /\ t.state \in StateOrNull /\ t.trigger \in TriggerOrNull /\ t.by \in Nat
    BY DEF Inv, TypeInv, TypeOK, Timer, StateOrNull, TriggerOrNull
  <1>2. /\ timers' = timers \ {t} /\ Send("expiry", t.state, t.trigger, t.by)
        /\ UNCHANGED <<svc, index, expireFrom, busy, open, crashes>>
    BY DEF ExpiryPatch
  <1>3. TypeInv'
    BY <1>1, <1>2, SendEffect, SendTypes DEF TypeInv, TypeOK
  <1>4. svc # "absent"
    BY DEF Inv
  <1> QED
    BY <1>1, <1>2, <1>3, <1>4, SendInv

(* Steps that change neither a patch nor the index.                         *)
LEMMA IdleStep ==
    ASSUME Inv, UNCHANGED <<index, op, sent, busy>>, TypeInv',
           svc' = "absent" => svc = "absent" /\ timers' = timers
    PROVE  Inv'
  <1>1. \A i \in Op : OpInv(i)'
    BY DEF Inv, OpInv, Unstored, Decided, Running, CurrentState
  <1>2. IndexInv'
    BY DEF Inv, IndexInv
  <1> QED
    BY <1>1, <1>2 DEF Inv

(* A timer that is lost leaves the document alone.                          *)
LEMMA ExpiryLostInv ==
    ASSUME Inv, NEW t \in timers, ExpiryLost(t)
    PROVE  Inv'
  <1>1. [t EXCEPT !.lost = TRUE] \in Timer
    BY DEF Inv, TypeInv, TypeOK, Timer
  <1>2. timers' \subseteq Timer
    BY <1>1 DEF Inv, ExpiryLost, TypeInv, TypeOK
  <1>3. TypeInv'
    BY <1>2 DEF Inv, ExpiryLost, TypeInv, TypeOK
  <1>4. svc # "absent"
    BY DEF Inv
  <1> QED
    BY <1>3, <1>4, IdleStep DEF ExpiryLost

(* A guard that changes leaves the document alone.                          *)
LEMMA FlipGuardInv ==
    ASSUME Inv, NEW g \in Guard, FlipGuard(g)
    PROVE  Inv'
  <1>1. TypeInv'
    BY DEF Inv, FlipGuard, TypeInv, TypeOK
  <1> QED
    BY <1>1, IdleStep DEF FlipGuard

(* A restart leaves the index alone and may send the initial trigger.       *)
LEMMA RestartInv ==
    ASSUME Inv, Restart \/ RestartRejected
    PROVE  Inv'
  <1>1. TypeInv
    BY DEF Inv
  <1>2. CASE RestartRejected
    <2>1. TypeInv'
      BY <1>1, <1>2 DEF RestartRejected, TypeInv, TypeOK
    <2> QED
      BY <1>2, <2>1, IdleStep DEF RestartRejected
  <1>3. CASE Restart
    <2>1. /\ svc = "down" /\ svc' = "available" /\ SelfPatchIfInitial(CurrentState)
          /\ UNCHANGED <<index, expireFrom, busy, timers, open, crashes>>
      BY <1>3 DEF Restart
    <2>2. TypeInv'
      BY <1>1, <2>1, SelfPatchTypes DEF TypeInv, TypeOK
    <2>3. CASE Send("initial", InitState, InitialTrigger, 0)
      BY <2>1, <2>2, <2>3, SendInv, ConfigAssumption DEF StateOrNull
    <2>4. CASE UNCHANGED <<op, sent>>
      BY <2>1, <2>2, <2>4, IdleStep
    <2> QED
      BY <2>1, <2>3, <2>4 DEF SelfPatchIfInitial
  <1> QED
    BY <1>2, <1>3

(* The first version is in a state, and no patch was sent before.           *)
LEMMA CreateInv ==
    ASSUME Inv, NEW posted \in PostState, Create(posted)
    PROVE  Inv'
  <1> DEFINE state == IF posted = None THEN InitState ELSE posted
             written == IF state = InitState THEN {None, InitialTrigger} ELSE {None}
  <1>1. TypeInv /\ svc = "absent" /\ sent = 0
    BY DEF Inv, Create
  <1>2. state \in State
    BY InputAssumption, ConfigAssumption DEF StateOrNull
  <1>3. PICK t \in written :
          index' = <<[state |-> state, trigger |-> t, by |-> 0]>>
    BY DEF Create
  <1>4. svc' = "available" /\ SelfPatchIfInitial(state)
        /\ UNCHANGED <<expireFrom, busy, timers, open, crashes>>
    BY DEF Create
  <1>5. t \in TriggerOrNull
    BY ConfigAssumption DEF TriggerOrNull
  <1> HIDE DEF state, written
  <1>6. index' \in Seq(Version) /\ Len(index') = 1 /\ index' # << >>
    BY <1>2, <1>3, <1>5 DEF Version
  <1>7. TypeInv'
    BY <1>1, <1>4, <1>6, SelfPatchTypes DEF TypeInv, TypeOK
  <1>8. ASSUME NEW i \in Op
        PROVE  op[i].pc = "unsent" /\ op[i].answer = "none" /\ OpInv(i)
    BY <1>1, BoundAssumption DEF Inv, OpInv, Op
  <1>9. ASSUME NEW i \in Op
        PROVE  /\ i > sent' <=> op'[i].pc = "unsent"
               /\ op'[i].pc \in {"unsent", "queued"} /\ op'[i].answer = "none"
    <2>1. CASE Send("initial", InitState, InitialTrigger, 0)
      <3>1. /\ sent' = sent + 1
            /\ op'[sent + 1].pc = "queued" /\ op'[sent + 1].answer = "none"
            /\ \A j \in Op : j # sent + 1 => op'[j] = op[j]
        BY <1>1, <2>1, SendEffect, ConfigAssumption DEF StateOrNull
      <3>2. i = 1 \/ i > 1
        BY BoundAssumption DEF Op
      <3> QED
        BY <1>1, <1>8, <3>1, <3>2
    <2>2. CASE UNCHANGED <<op, sent>>
      BY <1>8, <2>2 DEF OpInv
    <2> QED
      BY <1>4, <2>1, <2>2 DEF SelfPatchIfInitial
  <1>10. \A i \in Op : OpInv(i)'
    BY <1>9 DEF OpInv, Unstored, Decided, Running
  <1>11. IndexInv'
    BY <1>6, <1>9 DEF IndexInv
  <1> QED
    BY <1>4, <1>7, <1>10, <1>11 DEF Inv

(* A crash loses patches, but no version and no answer that was given.      *)
LEMMA CrashInv ==
    ASSUME Inv, Crash
    PROVE  Inv'
  <1>1. TypeInv /\ IndexInv
    BY DEF Inv
  <1>2. svc = "available" /\ svc' = "down" /\ busy' = 0 /\ timers' = {}
        /\ crashes' \in 0 .. MaxCrashes
        /\ UNCHANGED <<index, expireFrom, sent, open>>
    <2>1. crashes < MaxCrashes /\ crashes' = crashes + 1
      BY DEF Crash
    <2>2. crashes \in 0 .. MaxCrashes
      BY <1>1 DEF TypeInv, TypeOK
    <2>3. crashes' \in 0 .. MaxCrashes
      BY <2>1, <2>2, BoundAssumption
    <2> QED
      BY <2>3 DEF Crash
  <1>3. ASSUME NEW i \in Op
        PROVE  /\ op'[i] \in OpRecord
               /\ op[i].pc = "unsent" => op'[i] = op[i]
               /\ op[i].pc # "unsent" => op'[i].pc = "dead"
               /\ op'[i].answer = IF op[i].pc = "unsent" \/ op[i].answer \in {"ok", "error"}
                                  THEN op[i].answer ELSE "lost"
               /\ op'[i].state = op[i].state /\ op'[i].trigger = op[i].trigger
    <2>1. op[i] \in OpRecord
      BY <1>1 DEF TypeInv, TypeOK
    <2>2. op'[i] = IF op[i].pc = "unsent" THEN op[i]
                   ELSE [op[i] EXCEPT
                           !.pc = "dead",
                           !.answer = IF @ \in {"ok", "error"} THEN @ ELSE "lost"]
      BY DEF Crash
    <2> QED
      BY <2>1, <2>2 DEF OpRecord, PC, Answer
  <1>4. \A i \in Op : OpInv(i) /\ (op[i].pc = "unsent" => op[i].answer = "none")
    BY DEF Inv, OpInv
  <1>5. op' \in [Op -> OpRecord]
    <2>1. op' = [i \in Op |-> op'[i]]
      BY DEF Crash
    <2> QED
      BY <1>3, <2>1
  <1>6. TypeInv'
    BY <1>1, <1>2, <1>3, <1>4, <1>5 DEF TypeInv, TypeOK
  <1>7. \A i \in Op : OpInv(i)'
    BY <1>2, <1>3, <1>4 DEF OpInv, Unstored, Decided, Running
  <1>8. IndexInv'
    <2>1. \A i \in Op : /\ op[i].answer \in {"stored", "ok", "lost"}
                              => op'[i].answer \in {"stored", "ok", "lost"}
                        /\ op'[i].answer \in {"stored", "ok"} => op[i].answer = "ok"
                        /\ op'[i].state = op[i].state
                        /\ op'[i].trigger = op[i].trigger
      BY <1>3, <1>4
    <2> QED
      BY <1>1, <1>2, <2>1 DEF IndexInv
  <1> QED
    BY <1>2, <1>6, <1>7, <1>8 DEF Inv

-----------------------------------------------------------------------------
(* The invariant holds                                                      *)

(* It holds before the document exists.                                     *)
LEMMA InvInit == Init => Inv
  <1> SUFFICES ASSUME Init PROVE Inv
    OBVIOUS
  <1>1. TypeInv
    <2>1. \A i \in Op : op[i] = Unsent
      BY DEF Init
    <2>2. op \in [Op -> OpRecord]
      BY UnsentType DEF Init
    <2>3. 0 \in 0 .. MaxOps /\ 0 \in 0 .. MaxCrashes
      BY BoundAssumption
    <2>4. \A i \in Op : op[i].pc = "unsent" /\ op[i].answer = "none"
      BY <2>1 DEF Unsent
    <2>5. index \in Seq(Version)
      BY DEF Init
    <2>6. svc = "absent" /\ expireFrom = None /\ sent = 0 /\ busy = 0 /\ timers = {}
          /\ open \subseteq Guard /\ crashes = 0
      BY DEF Init
    <2> QED
      BY <2>2, <2>3, <2>4, <2>5, <2>6 DEF TypeInv, TypeOK, StateOrNull
  <1>2. \A i \in Op : i > 0
    BY BoundAssumption DEF Op
  <1>3. \A i \in Op : OpInv(i)
    BY <1>2 DEF Init, OpInv, Unsent, Unstored, Decided, Running
  <1>4. IndexInv
    BY DEF Init, IndexInv, Unsent
  <1> QED
    BY <1>1, <1>3, <1>4 DEF Inv, Init

(* Every step preserves the invariant.                                      *)
LEMMA InvNext == Inv /\ [Next]_vars => Inv'
  <1> SUFFICES ASSUME Inv, [Next]_vars PROVE Inv'
    OBVIOUS
  <1>1. ASSUME NEW posted \in PostState, Create(posted) PROVE Inv'
    BY <1>1, CreateInv
  <1>2. CASE Crash
    BY <1>2, CrashInv
  <1>3. CASE Restart \/ RestartRejected
    BY <1>3, RestartInv
  <1>4. ASSUME NEW body \in PatchBody, ClientPatch(body) PROVE Inv'
    BY <1>4, ClientPatchInv
  <1>5. ASSUME NEW i \in Op, Dequeue(i) PROVE Inv'
    BY <1>5, RejectPatchInv, BeginPatchInv DEF Dequeue
  <1>6. ASSUME NEW i \in Op, Handle(i) PROVE Inv'
    BY <1>6, ValidateTriggerInv, RefuseTriggerInv, TransitInv, ActionInv,
       ScheduleExpiryInv, DanglingDestinationInv, FinishInv DEF Handle
  <1>7. ASSUME NEW i \in Op, Store(i) \/ Reply(i) PROVE Inv'
    BY <1>7, StoreInv, ReplyInv
  <1>8. ASSUME NEW t \in timers, ExpiryPatch(t) \/ ExpiryLost(t) PROVE Inv'
    BY <1>8, ExpiryPatchInv, ExpiryLostInv
  <1>9. ASSUME NEW g \in Guard, FlipGuard(g) PROVE Inv'
    BY <1>9, FlipGuardInv
  <1>10. CASE UNCHANGED vars
    <2>1. TypeInv'
      BY <1>10 DEF Inv, TypeInv, TypeOK, vars
    <2> QED
      BY <1>10, <2>1, IdleStep DEF vars
  <1> QED
    BY <1>1, <1>2, <1>3, <1>4, <1>5, <1>6, <1>7, <1>8, <1>9, <1>10 DEF Next

(* The invariant holds in every reachable state.                            *)
LEMMA InvCorrect == Spec => []Inv
  BY InvInit, InvNext, PTL DEF Spec

-----------------------------------------------------------------------------
(* The safety properties that follow from the invariant                     *)

(* The variables have their types: the document is always in a state of     *)
(* State (a body without state is given the initial one by handleStart).    *)
THEOREM TypeCorrect == Spec => []TypeOK
  <1>1. Inv => TypeOK
    BY DEF Inv, TypeInv
  <1> QED
    BY <1>1, InvCorrect, PTL

(* Whatever graph is configured, two consecutive versions of a document are *)
(* joined by an edge of it: no patch, timer, guard change, crash or restart *)
(* makes the document jump, and no update is lost.                          *)
THEOREM DocGraphCorrect == Spec => []DocGraphInSvcGraph
  <1>1. Inv => DocGraphInSvcGraph
    <2> SUFFICES ASSUME Inv,
                        NEW k \in 1 .. Len(index), k < Len(index)
                 PROVE  <<index[k].state, index[k + 1].trigger, index[k + 1].state>>
                           \in SvcGraph(Config)
      BY DEF DocGraphInSvcGraph, DocGraph
    <2>1. Len(index) \in Nat
      BY DEF Inv, TypeInv, TypeOK
    <2>2. k + 1 \in 2 .. Len(index) /\ (k + 1) - 1 = k
      BY <2>1
    <2> QED
      BY <2>2 DEF Inv, IndexInv
  <1> QED
    BY <1>1, InvCorrect, PTL

(* A patch makes at most one version, exactly one if it is answered with    *)
(* success and none if it is answered with an error, although fireTrigger   *)
(* may fail at any of its steps, before and after the patch was completed.  *)
THEOREM AnswersMatchIndexCorrect == Spec => []AnswersMatchIndex
  <1>1. Inv => AnswersMatchIndex
    BY DEF Inv, IndexInv, AnswersMatchIndex
  <1> QED
    BY <1>1, InvCorrect, PTL
=============================================================================
