------------------------ MODULE FSMServiceRefinement ------------------------
(***************************************************************************)
(* FSMService implements AbstractStateMachine, for every configuration.    *)
(*                                                                         *)
(* Create is the abstract creation, Store applies a patch, Reply grants    *)
(* it, Fail refuses a patch that was not completed; every other step       *)
(* stutters.                                                               *)
(***************************************************************************)
EXTENDS FSMServiceProofs

AStutter == UNCHANGED <<AbstractState, Applied, Granted, Refused>>

AStep == [Abstract!ANext]_(Abstract!avars)

-----------------------------------------------------------------------------
(* The abstract state is a function of the index; the abstract answers are  *)
(* a function of the final answers of the patches.                          *)
LEMMA SameIndex ==
    ASSUME UNCHANGED index
    PROVE  UNCHANGED <<AbstractState, Applied>>
  BY DEF AbstractState, Applied, CurrentState

(* A step stutters that keeps the index and answers nobody.                 *)
LEMMA NoAnswer ==
    ASSUME UNCHANGED index,
           \A i \in Op : /\ op'[i].answer = "ok" <=> op[i].answer = "ok"
                         /\ op'[i].answer = "error" <=> op[i].answer = "error"
    PROVE  AStutter
  <1>1. UNCHANGED <<AbstractState, Applied>>
    BY SameIndex
  <1>2. UNCHANGED <<Granted, Refused>>
    BY DEF Granted, Refused
  <1> QED
    BY <1>1, <1>2 DEF AStutter

(* What an update of one patch does to the answers.                         *)
LEMMA UpdateEffect ==
    ASSUME Inv, NEW i \in Op, NEW r, Update(i, r)
    PROVE  /\ op'[i] = r
           /\ \A j \in Op : j # i => op'[j] = op[j]
           /\ op[i] \in OpRecord
  BY DEF Update, Inv, TypeInv, TypeOK

(* A step stutters that keeps the index and changes one patch, neither      *)
(* answering it nor taking its answer back.                                 *)
LEMMA LocalStutter ==
    ASSUME Inv, NEW i \in Op, NEW r, Update(i, r), UNCHANGED index,
           r.answer = op[i].answer \/
             (op[i].answer = "none" /\ r.answer = "completed")
    PROVE  AStutter
  BY UpdateEffect, NoAnswer

(* A patch that failed, or is not stored yet, is not applied.               *)
LEMMA NotApplied ==
    ASSUME Inv, NEW i \in Op, op[i].answer \notin {"stored", "ok", "lost"}
    PROVE  i \notin Applied
  <1>1. \A k \in 2 .. Len(index) : op[index[k].by].answer \in {"stored", "ok", "lost"}
    BY DEF Inv, IndexInv
  <1>2. \A k \in 2 .. Len(index) : index[k].by # i
    BY <1>1
  <1> QED
    BY <1>2 DEF Applied

(* Sending a patch answers nobody.                                          *)
LEMMA SendStutter ==
    ASSUME Inv, UNCHANGED index,
           NEW o \in {"client", "initial", "expiry"}, NEW s \in StateOrNull,
           NEW t \in TriggerOrNull, NEW a \in Nat,
           Send(o, s, t, a)
    PROVE  AStutter
  <1>1. sent + 1 \in Op /\ op'[sent + 1].answer = "none"
        /\ \A j \in Op : j # sent + 1 => op'[j] = op[j]
    BY SendEffect DEF Inv
  <1>2. op[sent + 1].answer = "none"
    <2>1. sent + 1 > sent
      BY DEF Inv, TypeInv, TypeOK
    <2> QED
      BY <1>1, <2>1 DEF Inv, OpInv
  <1> QED
    BY <1>1, <1>2, NoAnswer

(* The self-patch of handleStart answers nobody.                            *)
LEMMA SelfPatchAnswers ==
    ASSUME Inv, NEW s, SelfPatchIfInitial(s)
    PROVE  UNCHANGED <<Granted, Refused>>
  <1>1. CASE Send("initial", InitState, InitialTrigger, 0)
    <2>1. sent + 1 \in Op /\ op'[sent + 1].answer = "none"
          /\ \A j \in Op : j # sent + 1 => op'[j] = op[j]
      BY <1>1, SendEffect, ConfigAssumption DEF Inv, StateOrNull
    <2>2. sent + 1 > sent
      BY DEF Inv, TypeInv, TypeOK
    <2>3. op[sent + 1].answer = "none"
      BY <2>1, <2>2 DEF Inv, OpInv
    <2> QED
      BY <2>1, <2>3 DEF Granted, Refused
  <1>2. CASE UNCHANGED <<op, sent>>
    BY <1>2 DEF Granted, Refused
  <1> QED
    BY <1>1, <1>2 DEF SelfPatchIfInitial

-----------------------------------------------------------------------------
(* The steps that do something                                              *)

(* Creation chooses the first state.                                        *)
LEMMA CreateStep ==
    ASSUME Inv, NEW posted \in PostState, Create(posted)
    PROVE  Abstract!ACreate
  <1>1. svc = "absent" /\ index = << >>
    BY DEF Create, Inv
  <1>2. PICK s \in State, t \in TriggerOrNull :
           index' = <<[state |-> s, trigger |-> t, by |-> 0]>>
    <2> DEFINE state == IF posted = None THEN InitState ELSE posted
    <2>1. state \in State
      BY InputAssumption, ConfigAssumption DEF StateOrNull
    <2>2. \E t \in {None, InitialTrigger} :
             index' = <<[state |-> state, trigger |-> t, by |-> 0]>>
      BY DEF Create
    <2>3. {None, InitialTrigger} \subseteq TriggerOrNull
      BY ConfigAssumption DEF TriggerOrNull
    <2> QED
      BY <2>1, <2>2, <2>3
  <1>3. Len(index') = 1 /\ index' # << >> /\ index'[1].state = s
    BY <1>2
  <1>4. AbstractState = None /\ AbstractState' = s
    BY <1>1, <1>3 DEF AbstractState, CurrentState
  <1>5. Applied = {} /\ Applied' = {}
    BY <1>1, <1>3 DEF Applied
  <1>6. UNCHANGED <<Granted, Refused>>
    BY SelfPatchAnswers DEF Create
  <1> QED
    BY <1>4, <1>5, <1>6 DEF Abstract!ACreate

(* A failure refuses a patch that is not applied, or answers nobody.        *)
LEMMA FailStep ==
    ASSUME Inv, NEW i \in Op, Fail(i)
    PROVE  Abstract!ARefuse(i) \/ AStutter
  <1>1. /\ op'[i].answer = IF op[i].answer = "none" THEN "error" ELSE op[i].answer
        /\ \A j \in Op : j # i => op'[j] = op[j]
        /\ UNCHANGED index
    BY FailEffect DEF Inv
  <1>2. CASE op[i].answer = "none"
    <2>1. i \notin Applied
      BY <1>2, NotApplied
    <2>2. Refused' = Refused \cup {i} /\ Granted' = Granted
      BY <1>1, <1>2 DEF Refused, Granted
    <2>3. UNCHANGED <<AbstractState, Applied>>
      BY <1>1, SameIndex
    <2> QED
      BY <2>1, <2>2, <2>3 DEF Abstract!ARefuse
  <1>3. CASE op[i].answer # "none"
    BY <1>1, <1>3, NoAnswer
  <1> QED
    BY <1>2, <1>3

(* Storing a version follows the edge its handler found when the patch      *)
(* began: the document is still in the state that edge leaves.              *)
LEMMA StoreStep ==
    ASSUME Inv, NEW i \in Op, Store(i)
    PROVE  Abstract!AApply(i)
  <1>1. /\ op[i].answer = "completed"
        /\ op'[i].answer = "stored"
        /\ \A j \in Op : j # i => op'[j] = op[j]
    <2>1. Update(i, [op[i] EXCEPT !.answer = "stored"])
      BY DEF Store
    <2>2. [op[i] EXCEPT !.answer = "stored"].answer = "stored"
      BY UpdateEffect, <2>1 DEF OpRecord
    <2> QED
      BY <2>1, <2>2, UpdateEffect DEF Store
  <1>2. index' = Append(index, [state |-> op[i].dst, trigger |-> op[i].trigger, by |-> i])
    BY DEF Store
  <1>3. index \in Seq(Version) /\ index # << >>
    <2>1. OpInv(i) /\ TypeInv
      BY DEF Inv
    <2>2. op[i].pc # "unsent"
      BY <1>1, <2>1 DEF OpInv
    <2>3. svc # "absent"
      BY <2>2, SentExists
    <2> QED
      BY <2>1, <2>3 DEF TypeInv, TypeOK
  <1>4. op[i].src = CurrentState /\ <<op[i].src, op[i].trigger, op[i].dst>> \in SvcGraph(Config)
    BY <1>1 DEF Inv, OpInv, Unstored, Decided
  <1>5. op[i].dst \in State
    BY <1>1 DEF Inv, TypeInv
  <1> DEFINE v == [state |-> op[i].dst, trigger |-> op[i].trigger, by |-> i]
  <1>6. v.state = op[i].dst /\ v.by = i
    OBVIOUS
  <1>7. /\ Len(index') = Len(index) + 1 /\ Len(index) \in Nat \ {0} /\ index' # << >>
        /\ index'[Len(index) + 1] = v
        /\ \A k \in 1 .. Len(index) : index'[k] = index[k]
    <2> HIDE DEF v
    <2>1. index' = Append(index, v)
      BY <1>2 DEF v
    <2>2. index' = index \o <<v>>
      BY <1>3, <2>1
    <2> QED
      BY <1>3, <2>1
  <1>8. AbstractState = op[i].src /\ AbstractState' = op[i].dst
    BY <1>3, <1>4, <1>6, <1>7 DEF AbstractState, CurrentState
  <1>9. Applied' = Applied \cup {i}
    <2>1. 2 .. Len(index') = (2 .. Len(index)) \cup {Len(index) + 1}
      BY <1>7
    <2>2. \A k \in 2 .. Len(index) : index'[k].by = index[k].by
      BY <1>7
    <2> QED
      BY <1>6, <1>7, <2>1, <2>2 DEF Applied
  <1>10. i \notin Applied \cup Refused
    BY <1>1, NotApplied DEF Refused
  <1>11. UNCHANGED <<Granted, Refused>>
    BY <1>1 DEF Granted, Refused
  <1>12. \E e \in SvcGraph(Config) : e[1] = AbstractState /\ AbstractState' = e[3]
    BY <1>4, <1>8
  <1> QED
    BY <1>9, <1>10, <1>11, <1>12 DEF Abstract!AApply

(* Success is answered for a patch that is applied.                         *)
LEMMA ReplyStep ==
    ASSUME Inv, NEW i \in Op, Reply(i)
    PROVE  Abstract!AGrant(i)
  <1>1. /\ op[i].answer = "stored"
        /\ op'[i].answer = "ok"
        /\ \A j \in Op : j # i => op'[j] = op[j]
        /\ UNCHANGED index
    <2>1. Update(i, [op[i] EXCEPT !.answer = "ok"])
      BY DEF Reply
    <2>2. [op[i] EXCEPT !.answer = "ok"].answer = "ok"
      BY UpdateEffect, <2>1 DEF OpRecord
    <2> QED
      BY <2>1, <2>2, UpdateEffect DEF Reply
  <1>2. i \in Applied
    BY <1>1 DEF Inv, IndexInv, Applied
  <1>3. i \notin Granted /\ Granted' = Granted \cup {i} /\ Refused' = Refused
    BY <1>1 DEF Granted, Refused
  <1>4. UNCHANGED <<AbstractState, Applied>>
    BY <1>1, SameIndex
  <1> QED
    BY <1>2, <1>3, <1>4 DEF Abstract!AGrant

-----------------------------------------------------------------------------
(* The steps that stutter                                                   *)

(* Beginning a patch answers nobody.                                        *)
LEMMA BeginStutter ==
    ASSUME Inv, NEW i \in Op, BeginPatch(i)
    PROVE  AStutter
  <1> DEFINE r == [op[i] EXCEPT !.pc = "validate", !.src = CurrentState]
  <1>1. Update(i, r) /\ UNCHANGED index
    BY DEF BeginPatch
  <1>2. r.answer = op[i].answer
    BY DEF Inv, TypeInv, TypeOK, OpRecord
  <1> HIDE DEF r
  <1> QED
    BY <1>1, <1>2, LocalStutter

(* Neither does validating its trigger, nor returning from its handler.     *)
LEMMA ValidateStutter ==
    ASSUME Inv, NEW i \in Op, ValidateTrigger(i) \/ Finish(i)
    PROVE  AStutter
  <1>1. PICK p \in PC : Update(i, [op[i] EXCEPT !.pc = p]) /\ UNCHANGED index
    BY DEF ValidateTrigger, Finish, PC
  <1>2. [op[i] EXCEPT !.pc = p].answer = op[i].answer
    BY DEF Inv, TypeInv, TypeOK, OpRecord
  <1> QED
    BY <1>1, <1>2, LocalStutter

(* Finding its destination answers nobody.                                  *)
LEMMA TransitStutter ==
    ASSUME Inv, NEW i \in Op, Transit(i)
    PROVE  AStutter
  <1>1. PICK k \in Actual(Config[op[i].src], op[i].trigger, open) :
           Update(i, [op[i] EXCEPT !.pc = "exit", !.step = 1,
                                   !.dst = Config[op[i].src].behaviours[k].destination])
    BY DEF Transit
  <1>2. [op[i] EXCEPT !.pc = "exit", !.step = 1,
                      !.dst = Config[op[i].src].behaviours[k].destination].answer
           = op[i].answer
    BY DEF Inv, TypeInv, TypeOK, OpRecord
  <1>3. UNCHANGED index
    BY DEF Transit
  <1> QED
    BY <1>1, <1>2, <1>3, LocalStutter

(* An action may complete the patch, which is not an answer yet.            *)
LEMMA PerformStutter ==
    ASSUME Inv, NEW i \in Op, NEW actions, Perform(i, actions)
    PROVE  AStutter
  <1>1. PICK completes \in BOOLEAN :
           Update(i, [op[i] EXCEPT !.step = @ + 1,
                                   !.answer = IF completes /\ @ = "none"
                                              THEN "completed" ELSE @])
    BY DEF Perform
  <1> DEFINE r == [op[i] EXCEPT !.step = @ + 1,
                                !.answer = IF completes /\ @ = "none"
                                           THEN "completed" ELSE @]
  <1>2. r.answer = op[i].answer \/ (op[i].answer = "none" /\ r.answer = "completed")
    BY DEF Inv, TypeInv, TypeOK, OpRecord
  <1>3. UNCHANGED index
    BY DEF Perform
  <1> HIDE DEF r
  <1>4. Update(i, r)
    BY <1>1 DEF r
  <1> QED
    BY <1>2, <1>3, <1>4, LocalStutter

(* Arming timers answers nobody.                                            *)
LEMMA ScheduleStutter ==
    ASSUME Inv, NEW i \in Op, ScheduleExpiry(i)
    PROVE  AStutter
  <1>1. PICK e : Update(i, [op[i] EXCEPT !.pc = "entry", !.step = 1, !.expires = e])
    BY DEF ScheduleExpiry
  <1>2. [op[i] EXCEPT !.pc = "entry", !.step = 1, !.expires = e].answer = op[i].answer
    BY DEF Inv, TypeInv, TypeOK, OpRecord
  <1>3. UNCHANGED index
    BY DEF ScheduleExpiry
  <1> QED
    BY <1>1, <1>2, <1>3, LocalStutter

(* A crash takes no answer back and gives none.                             *)
LEMMA CrashStutter ==
    ASSUME Inv, Crash
    PROVE  AStutter
  <1>1. UNCHANGED index
    BY DEF Crash
  <1>2. ASSUME NEW i \in Op
        PROVE  /\ op'[i].answer = "ok" <=> op[i].answer = "ok"
               /\ op'[i].answer = "error" <=> op[i].answer = "error"
    <2>1. op[i] \in OpRecord
      BY DEF Inv, TypeInv, TypeOK
    <2>2. op'[i] = IF op[i].pc = "unsent" THEN op[i]
                   ELSE [op[i] EXCEPT
                           !.pc = "dead",
                           !.answer = IF @ \in {"ok", "error"} THEN @ ELSE "lost"]
      BY DEF Crash
    <2> QED
      BY <2>1, <2>2 DEF OpRecord
  <1> QED
    BY <1>1, <1>2, NoAnswer

(* The steps of a handler refuse the patch or stutter.                      *)
LEMMA HandleStep ==
    ASSUME Inv, NEW i \in Op, Handle(i)
    PROVE  Abstract!ARefuse(i) \/ AStutter
  <1>1. CASE ValidateTrigger(i) \/ Finish(i)
    BY <1>1, ValidateStutter
  <1>2. CASE RefuseTrigger(i) \/ TransitFails(i) \/ DanglingDestination(i)
    BY <1>2, FailStep DEF RefuseTrigger, TransitFails, DanglingDestination
  <1>3. CASE Transit(i)
    BY <1>3, TransitStutter
  <1>4. CASE ScheduleExpiry(i)
    BY <1>4, ScheduleStutter
  <1>5. CASE ExitAction(i)
    BY <1>5, PerformStutter, FailStep DEF ExitAction, Throws
  <1>6. CASE EntryAction(i)
    BY <1>6, PerformStutter, FailStep DEF EntryAction, Throws
  <1> QED
    BY <1>1, <1>2, <1>3, <1>4, <1>5, <1>6 DEF Handle

-----------------------------------------------------------------------------
(* Refinement                                                               *)

(* The initial states map to the abstract one.                              *)
LEMMA InitRefines == Init => Abstract!AInit
  <1> SUFFICES ASSUME Init PROVE Abstract!AInit
    OBVIOUS
  <1>1. AbstractState = None /\ Applied = {}
    BY DEF Init, AbstractState, Applied
  <1>2. Granted = {} /\ Refused = {}
    BY DEF Init, Unsent, Granted, Refused
  <1> QED
    BY <1>1, <1>2 DEF Abstract!AInit

(* Every step maps to an abstract step or a stutter.                        *)
LEMMA NextRefines == Inv /\ [Next]_vars => AStep
  <1> SUFFICES ASSUME Inv, [Next]_vars PROVE AStep
    OBVIOUS
  <1>1. AStutter => AStep
    BY DEF AStutter, AStep, Abstract!avars
  <1>2. \A i \in Op : Abstract!ARefuse(i) => AStep
    BY DEF AStep, Abstract!ANext
  <1>3. ASSUME NEW posted \in PostState, Create(posted) PROVE AStep
    BY <1>3, CreateStep DEF AStep, Abstract!ANext
  <1>4. CASE Crash
    BY <1>1, <1>4, CrashStutter
  <1>5. CASE Restart \/ RestartRejected
    <2>1. UNCHANGED index /\ UNCHANGED <<Granted, Refused>>
      BY <1>5, SelfPatchAnswers DEF Restart, RestartRejected, Granted, Refused
    <2> QED
      BY <1>1, <2>1, SameIndex DEF AStutter
  <1>6. ASSUME NEW body \in PatchBody, ClientPatch(body) PROVE AStep
    <2>1. body[1] \in StateOrNull /\ body[2] \in TriggerOrNull
      BY InputAssumption
    <2>2. Send("client", body[1], body[2], 0) /\ UNCHANGED index
      BY <1>6 DEF ClientPatch
    <2> QED
      BY <1>1, <2>1, <2>2, SendStutter
  <1>7. ASSUME NEW i \in Op, Dequeue(i) PROVE AStep
    BY <1>1, <1>2, <1>7, FailStep, BeginStutter DEF Dequeue, RejectPatch
  <1>8. ASSUME NEW i \in Op, Handle(i) PROVE AStep
    BY <1>1, <1>2, <1>8, HandleStep
  <1>9. ASSUME NEW i \in Op, Store(i) \/ Reply(i) PROVE AStep
    BY <1>9, StoreStep, ReplyStep DEF AStep, Abstract!ANext
  <1>10. ASSUME NEW t \in timers, ExpiryPatch(t) \/ ExpiryLost(t) PROVE AStep
    <2>1. t \in Timer
      BY DEF Inv, TypeInv, TypeOK
    <2>2. t.state \in StateOrNull /\ t.trigger \in TriggerOrNull /\ t.by \in Nat
      BY <2>1 DEF Timer, StateOrNull, TriggerOrNull
    <2>3. CASE ExpiryPatch(t)
      BY <1>1, <2>2, <2>3, SendStutter DEF ExpiryPatch
    <2>4. CASE ExpiryLost(t)
      BY <1>1, <2>4, NoAnswer DEF ExpiryLost
    <2> QED
      BY <1>10, <2>3, <2>4
  <1>11. ASSUME NEW g \in Guard, FlipGuard(g) PROVE AStep
    BY <1>1, <1>11, NoAnswer DEF FlipGuard
  <1>12. CASE UNCHANGED vars
    BY <1>1, <1>12, NoAnswer DEF vars
  <1> QED
    BY <1>3, <1>4, <1>5, <1>6, <1>7, <1>8, <1>9, <1>10, <1>11, <1>12 DEF Next

(* Whatever the configuration, clients, timers and crashes do, a document   *)
(* behaves as the abstract state machine: it moves along configured edges,  *)
(* one patch at a time and each at most once, a patch is answered with      *)
(* success only after it took effect, and a refused one never takes effect. *)
THEOREM Refinement == Spec => AbstractSpec
  <1>1. Init => Abstract!AInit
    BY InitRefines
  <1>2. Inv /\ [Next]_vars => [Abstract!ANext]_(Abstract!avars)
    BY NextRefines DEF AStep
  <1> QED
    BY <1>1, <1>2, InvCorrect, PTL DEF Spec, AbstractSpec, Abstract!ASpec
=============================================================================
