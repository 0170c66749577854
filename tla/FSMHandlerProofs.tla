-------------------------- MODULE FSMHandlerProofs --------------------------
(***************************************************************************)
(* Proofs about the handlers of patches in FSMService: what they leave     *)
(* behind, depending on the actions that are configured.                   *)
(***************************************************************************)
EXTENDS FSMServiceProofs

(* an action completes the patch with this record when it runs *)
Completes(action, r) == action.does = "complete" /\ action.on \in {None, r.trigger}

(* no action of a list does, or none of those that have run *)
Silent(r, actions) == \A k \in DOMAIN actions : ~ Completes(actions[k], r)
SilentSoFar(r, actions) ==
    \A k \in DOMAIN actions : k < r.step => ~ Completes(actions[k], r)

(* A patch that no action has completed so far has run no action that does. *)
PathInv(r) ==
    /\ r.pc \in {"exit", "entry"} => r.step \in Nat \ {0} /\ r.src \in DOMAIN Config
    /\ r.pc = "entry" => r.dst \in DOMAIN Config
    /\ r.answer = "none" =>
          /\ r.pc \notin {"failed", "dead"}
          /\ r.pc = "exit" => SilentSoFar(r, Config[r.src].exit)
          /\ r.pc \in {"entry", "done"} => Silent(r, Config[r.src].exit)
          /\ r.pc = "entry" => SilentSoFar(r, Config[r.dst].entry)
          /\ r.pc = "done" => Silent(r, Config[r.dst].entry)

(* the record of a patch that may hold the slot *)
MayHold(r) ==
    /\ r.answer \in {"none", "completed", "stored"}
    /\ r.answer = "none" => r.pc \in {"validate", "transit", "exit", "entry", "done"}

SlotInv ==
    /\ \A i \in Op : PathInv(op[i])
    /\ busy # 0 => MayHold(op[busy])

-----------------------------------------------------------------------------
(* What the steps of a handler make of the record of its patch              *)

LEMMA UpdateEffect ==
    ASSUME Inv, NEW i \in Op, NEW r, Update(i, r)
    PROVE  /\ op'[i] = r
           /\ \A j \in Op : j # i => op'[j] = op[j]
           /\ op[i] \in OpRecord
BY DEF Inv, TypeInv, TypeOK, Update

(* An update of one patch keeps the invariant if the new record satisfies   *)
(* it and the slot is freed, given to the patch, or not concerned.          *)
LEMMA SlotStep ==
    ASSUME Inv, SlotInv, NEW i \in Op, NEW r, Update(i, r), PathInv(r),
           \/ busy' = 0
           \/ busy' = i /\ MayHold(r)
           \/ busy' = busy /\ busy # i
    PROVE  SlotInv'
<1>1. op'[i] = r /\ \A j \in Op : j # i => op'[j] = op[j]
  BY UpdateEffect
<1>2. \A j \in Op : PathInv(op'[j])
  BY <1>1 DEF SlotInv
<1>3. busy' # 0 => MayHold(op'[busy'])
  <2>1. busy \in Op \cup {0}
    BY DEF Inv, TypeInv, TypeOK
  <2> QED BY <1>1, <2>1 DEF SlotInv
<1>4. (\A j \in Op : PathInv(op[j]))' <=> \A j \in Op : PathInv(op'[j])
  BY DEF PathInv, Silent, SilentSoFar, Completes
<1>5. MayHold(op[busy])' <=> MayHold(op'[busy'])
  BY DEF MayHold
<1> QED BY <1>2, <1>3, <1>4, <1>5 DEF SlotInv

(* An operation fails: its patch leaves the slot, or was completed.         *)
LEMMA FailSlot ==
    ASSUME Inv, SlotInv, NEW i \in Op, Fail(i)
    PROVE  SlotInv'
<1> DEFINE r == [op[i] EXCEPT !.pc = "failed",
                              !.answer = IF @ = "none" THEN "error" ELSE @]
<1>1. Update(i, r) /\ busy' = IF op[i].answer = "none" THEN 0 ELSE busy
  BY DEF Fail
<1>2. op[i] \in OpRecord
  BY <1>1, UpdateEffect
<1>3. r.pc = "failed" /\ r.answer # "none"
      /\ (op[i].answer # "none" => r.answer = op[i].answer)
  BY <1>2 DEF OpRecord
<1> HIDE DEF r
<1>4. PathInv(r)
  BY <1>3 DEF PathInv
<1>5. op[i].answer # "none" /\ busy = i => MayHold(r)
  <2>1. i # 0
    BY BoundAssumption DEF Op
  <2> QED BY <1>3, <2>1 DEF SlotInv, MayHold
<1> QED BY <1>1, <1>4, <1>5, SlotStep

(* Steps that change neither a patch nor the slot.                          *)
LEMMA IdleSlot ==
    ASSUME SlotInv, UNCHANGED <<op, busy>>
    PROVE  SlotInv'
BY DEF SlotInv, PathInv, MayHold, Silent, SilentSoFar, Completes

(* A patch that is sent waits.                                              *)
LEMMA SendSlot ==
    ASSUME Inv, SlotInv, NEW origin, NEW state, NEW trigger, NEW armedBy,
           Send(origin, state, trigger, armedBy), busy' = busy
    PROVE  SlotInv'
<1> DEFINE r == [Unsent EXCEPT !.origin = origin, !.state = state,
                               !.trigger = trigger, !.armedBy = armedBy,
                               !.pc = "queued"]
<1>1. sent + 1 \in Op /\ Update(sent + 1, r) /\ sent + 1 > sent
  BY BoundAssumption DEF Send, Inv, TypeInv, TypeOK, Op
<1>2. r.pc = "queued" /\ r.answer = "none"
  BY DEF Unsent
<1> HIDE DEF r
<1>3. PathInv(r)
  BY <1>2 DEF PathInv
<1>4. op[sent + 1].pc = "unsent" /\ op[sent + 1].answer = "none"
  BY <1>1 DEF Inv, OpInv
<1>5. busy # sent + 1
  <2>1. sent + 1 # 0
    BY <1>1, BoundAssumption DEF Op
  <2> QED BY <1>4, <2>1 DEF SlotInv, MayHold
<1> QED BY <1>1, <1>3, <1>5, SlotStep

LEMMA SelfPatchSlot ==
    ASSUME Inv, SlotInv, NEW state, SelfPatchIfInitial(state), busy' = busy
    PROVE  SlotInv'
BY SendSlot, IdleSlot DEF SelfPatchIfInitial

(* the slot goes to a patch that has run no action yet *)
LEMMA BeginPatchSlot ==
    ASSUME Inv, SlotInv, NEW i \in Op, BeginPatch(i)
    PROVE  SlotInv'
<1> DEFINE r == [op[i] EXCEPT !.pc = "validate", !.src = CurrentState]
<1>1. Update(i, r) /\ busy' = i /\ op[i].pc = "queued"
  BY DEF BeginPatch, Dequeues
<1>2. op[i] \in OpRecord /\ op[i].answer = "none"
  BY <1>1, UpdateEffect DEF Inv, OpInv
<1>3. r.pc = "validate" /\ r.answer = "none"
  BY <1>2 DEF OpRecord
<1> HIDE DEF r
<1>4. PathInv(r) /\ MayHold(r)
  BY <1>3 DEF PathInv, MayHold
<1> QED BY <1>1, <1>4, SlotStep

LEMMA ValidateTriggerSlot ==
    ASSUME Inv, SlotInv, NEW i \in Op, ValidateTrigger(i)
    PROVE  SlotInv'
<1> DEFINE r == [op[i] EXCEPT !.pc = "transit"]
<1>1. Update(i, r) /\ busy' = busy /\ op[i].pc = "validate"
  BY DEF ValidateTrigger
<1>2. op[i] \in OpRecord /\ op[i].answer = "none"
  BY <1>1, UpdateEffect DEF Inv, OpInv
<1>3. r.pc = "transit" /\ r.answer = "none"
  BY <1>2 DEF OpRecord
<1> HIDE DEF r
<1>4. PathInv(r) /\ MayHold(r)
  BY <1>3 DEF PathInv, MayHold
<1> QED BY <1>1, <1>4, SlotStep

(* transit leads to the first exit action *)
LEMMA TransitSlot ==
    ASSUME Inv, SlotInv, NEW i \in Op, Transit(i)
    PROVE  SlotInv'
<1>1. PICK k \in Actual(Config[op[i].src], op[i].trigger, open) :
        Update(i, [op[i] EXCEPT !.pc = "exit", !.step = 1,
                      !.dst = Config[op[i].src].behaviours[k].destination])
  BY DEF Transit
<1> DEFINE r == [op[i] EXCEPT !.pc = "exit", !.step = 1,
                    !.dst = Config[op[i].src].behaviours[k].destination]
<1>2. busy' = busy /\ op[i].pc = "transit" /\ op[i].src \in DOMAIN Config
  BY DEF Transit, Permitted
<1>3. op[i] \in OpRecord /\ op[i].answer = "none"
  BY <1>1, <1>2, UpdateEffect DEF Inv, OpInv
<1>4. r.pc = "exit" /\ r.answer = "none" /\ r.step = 1 /\ r.src = op[i].src
  BY <1>3 DEF OpRecord
<1> HIDE DEF r
<1>5. SilentSoFar(r, Config[r.src].exit)
  <2>1. Config[r.src].exit \in Seq(Action)
    BY <1>2, <1>4, ConfigParts
  <2>2. \A k1 \in DOMAIN Config[r.src].exit : ~ (k1 < r.step)
    BY <1>4, <2>1
  <2> QED BY <2>2 DEF SilentSoFar
<1>6. PathInv(r) /\ MayHold(r)
  BY <1>2, <1>4, <1>5 DEF PathInv, MayHold
<1> QED BY <1>1, <1>2, <1>6, SlotStep DEF r

(* an action that returns completes the patch or was silent *)
LEMMA PerformSlot ==
    ASSUME Inv, SlotInv, NEW i \in Op, NEW actions \in Seq(Action),
           Perform(i, actions),
           \/ op[i].pc = "exit" /\ actions = Config[op[i].src].exit
           \/ op[i].pc = "entry" /\ actions = Config[op[i].dst].entry
    PROVE  SlotInv'
<1> DEFINE o == op[i]
           done == Completes(actions[o.step], o)
           r == [o EXCEPT !.step = @ + 1,
                          !.answer = IF done /\ @ = "none" THEN "completed" ELSE @]
<1>1. Update(i, r) /\ busy' = busy /\ o.step \in DOMAIN actions
  BY DEF Perform, Completes, Runs
<1>2. o \in OpRecord /\ PathInv(o)
  BY <1>1, UpdateEffect DEF SlotInv
<1>3. /\ r.pc = o.pc /\ r.src = o.src /\ r.dst = o.dst /\ r.trigger = o.trigger
      /\ r.step = o.step + 1
      /\ r.answer = IF done /\ o.answer = "none" THEN "completed" ELSE o.answer
  BY <1>2 DEF OpRecord
<1> HIDE DEF r
<1>4. r.answer = "none" => o.answer = "none" /\ ~ done
  BY <1>3
<1> HIDE DEF done
<1>5. \A a : Completes(a, r) <=> Completes(a, o)
  BY <1>3 DEF Completes
<1>6. DOMAIN actions = 1 .. Len(actions) /\ Len(actions) \in Nat
  OBVIOUS
<1>7. SilentSoFar(o, actions) /\ ~ done => SilentSoFar(r, actions)
  BY <1>1, <1>3, <1>5, <1>6 DEF SilentSoFar, done
<1>8. \A list : Silent(o, list) => Silent(r, list)
  BY <1>5 DEF Silent
<1>9. PathInv(r)
  BY <1>2, <1>3, <1>4, <1>7, <1>8 DEF PathInv
<1>10. busy = i => MayHold(r)
  <2>1. busy = i => MayHold(o)
    BY BoundAssumption DEF SlotInv, Op
  <2> QED BY <1>3, <2>1 DEF MayHold
<1> QED BY <1>1, <1>9, <1>10, SlotStep
LEMMA ActionSlot ==
    ASSUME Inv, SlotInv, NEW i \in Op, ExitAction(i) \/ EntryAction(i)
    PROVE  SlotInv'
<1>1. PathInv(op[i])
  BY DEF SlotInv
<1>2. CASE ExitAction(i)
  <2>1. Config[op[i].src].exit \in Seq(Action)
    BY <1>1, <1>2, ConfigParts DEF PathInv, ExitAction
  <2> QED BY <1>2, <2>1, PerformSlot, FailSlot DEF ExitAction, Throws
<1>3. CASE EntryAction(i)
  <2>1. Config[op[i].dst].entry \in Seq(Action)
    BY <1>1, <1>3, ConfigParts DEF PathInv, EntryAction
  <2> QED BY <1>3, <2>1, PerformSlot, FailSlot DEF EntryAction, Throws
<1> QED BY <1>2, <1>3

(* A list of actions is over when the next one is not in it.                *)
LEMMA ListOver ==
    ASSUME NEW r, NEW actions \in Seq(Action), r.step \in Nat \ {0},
           r.step \notin DOMAIN actions, SilentSoFar(r, actions)
    PROVE  Silent(r, actions)
<1>1. DOMAIN actions = 1 .. Len(actions) /\ Len(actions) \in Nat
  OBVIOUS
<1>2. \A k \in DOMAIN actions : k < r.step
  BY <1>1
<1> QED BY <1>2 DEF Silent, SilentSoFar

(* the exit actions are over, the entry actions begin *)
LEMMA ScheduleExpirySlot ==
    ASSUME Inv, SlotInv, NEW i \in Op, ScheduleExpiry(i)
    PROVE  SlotInv'
<1> DEFINE o == op[i]
<1>1. PICK written \in BOOLEAN :
        Update(i, [o EXCEPT !.pc = "entry", !.step = 1,
                            !.expires = written /\ Config[o.dst].expiry # {}])
  BY DEF ScheduleExpiry
<1> DEFINE r == [o EXCEPT !.pc = "entry", !.step = 1,
                          !.expires = written /\ Config[o.dst].expiry # {}]
<1>2. /\ busy' = busy /\ o.pc = "exit" /\ o.dst \in DOMAIN Config
      /\ o.step \notin DOMAIN Config[o.src].exit
  BY DEF ScheduleExpiry, ExitDone
<1>3. o \in OpRecord /\ PathInv(o)
  BY <1>1, UpdateEffect DEF SlotInv
<1>4. /\ r.pc = "entry" /\ r.step = 1 /\ r.answer = o.answer
      /\ r.src = o.src /\ r.dst = o.dst /\ r.trigger = o.trigger
  BY <1>3 DEF OpRecord
<1> HIDE DEF r
<1>5. o.answer = "none" => Silent(r, Config[r.src].exit)
  <2>1. Config[o.src].exit \in Seq(Action) /\ o.step \in Nat \ {0}
    BY <1>2, <1>3, ConfigParts DEF PathInv
  <2>2. o.answer = "none" => Silent(o, Config[o.src].exit)
    BY <1>2, <1>3, <2>1, ListOver DEF PathInv
  <2> QED BY <1>4, <2>2 DEF Silent, Completes
<1>6. SilentSoFar(r, Config[r.dst].entry)
  <2>1. Config[r.dst].entry \in Seq(Action)
    BY <1>2, <1>4, ConfigParts
  <2>2. \A k \in DOMAIN Config[r.dst].entry : ~ (k < r.step)
    BY <1>4, <2>1
  <2> QED BY <2>2 DEF SilentSoFar
<1>7. PathInv(r)
  BY <1>2, <1>3, <1>4, <1>5, <1>6 DEF PathInv
<1>8. busy = i => MayHold(r)
  <2>1. busy = i => MayHold(o)
    BY BoundAssumption DEF SlotInv, Op
  <2> QED BY <1>4, <2>1 DEF MayHold
<1> QED BY <1>1, <1>2, <1>7, <1>8, SlotStep DEF r

(* the handler returns *)
LEMMA FinishSlot ==
    ASSUME Inv, SlotInv, NEW i \in Op, Finish(i)
    PROVE  SlotInv'
<1> DEFINE o == op[i]
           r == [o EXCEPT !.pc = "done"]
<1>1. /\ Update(i, r) /\ busy' = busy /\ o.pc = "entry"
      /\ o.step \notin DOMAIN Config[o.dst].entry
  BY DEF Finish
<1>2. o \in OpRecord /\ PathInv(o)
  BY <1>1, UpdateEffect DEF SlotInv
<1>3. /\ r.pc = "done" /\ r.answer = o.answer
      /\ r.src = o.src /\ r.dst = o.dst /\ r.trigger = o.trigger
  BY <1>2 DEF OpRecord
<1> HIDE DEF r
<1>4. o.answer = "none" => Silent(o, Config[o.src].exit) /\ Silent(o, Config[o.dst].entry)
  <2>1. Config[o.dst].entry \in Seq(Action) /\ o.step \in Nat \ {0}
    BY <1>1, <1>2, ConfigParts DEF PathInv
  <2> QED BY <1>1, <1>2, <2>1, ListOver DEF PathInv
<1>5. PathInv(r)
  BY <1>3, <1>4 DEF PathInv, Silent, Completes
<1>6. busy = i => MayHold(r)
  <2>1. busy = i => MayHold(o)
    BY BoundAssumption DEF SlotInv, Op
  <2> QED BY <1>3, <2>1 DEF MayHold
<1> QED BY <1>1, <1>5, <1>6, SlotStep

LEMMA StoreSlot ==
    ASSUME Inv, SlotInv, NEW i \in Op, Store(i)
    PROVE  SlotInv'
<1> DEFINE r == [op[i] EXCEPT !.answer = "stored"]
<1>1. Update(i, r) /\ busy' = busy /\ op[i].answer = "completed"
  BY DEF Store
<1>2. op[i] \in OpRecord /\ PathInv(op[i])
  BY <1>1, UpdateEffect DEF SlotInv
<1>3. /\ r.pc = op[i].pc /\ r.answer = "stored" /\ r.step = op[i].step
      /\ r.src = op[i].src /\ r.dst = op[i].dst
  BY <1>2 DEF OpRecord
<1> HIDE DEF r
<1>4. PathInv(r) /\ MayHold(r)
  BY <1>2, <1>3 DEF PathInv, MayHold
<1> QED BY <1>1, <1>4, SlotStep

(* the slot is free *)
LEMMA ReplySlot ==
    ASSUME Inv, SlotInv, NEW i \in Op, Reply(i)
    PROVE  SlotInv'
<1> DEFINE r == [op[i] EXCEPT !.answer = "ok"]
<1>1. Update(i, r) /\ busy' = 0
  BY DEF Reply
<1>2. op[i] \in OpRecord /\ PathInv(op[i])
  BY <1>1, UpdateEffect DEF SlotInv
<1>3. /\ r.pc = op[i].pc /\ r.answer = "ok" /\ r.step = op[i].step
      /\ r.src = op[i].src /\ r.dst = op[i].dst
  BY <1>2 DEF OpRecord
<1> HIDE DEF r
<1>4. PathInv(r)
  BY <1>2, <1>3 DEF PathInv
<1> QED BY <1>1, <1>4, SlotStep

(* nothing holds the slot of a host that died *)
LEMMA CrashSlot ==
    ASSUME Inv, SlotInv, Crash
    PROVE  SlotInv'
<1>1. op \in [Op -> OpRecord] /\ busy' = 0
  BY DEF Inv, TypeInv, TypeOK, Crash
<1>2. ASSUME NEW i \in Op PROVE PathInv(op'[i])
  <2>1. CASE op[i].pc = "unsent"
    BY <2>1, <1>1 DEF Crash, SlotInv
  <2>2. CASE op[i].pc # "unsent"
    <3>1. op'[i] = [op[i] EXCEPT !.pc = "dead",
                      !.answer = IF @ \in {"ok", "error"} THEN @ ELSE "lost"]
      BY <2>2 DEF Crash
    <3>2. op'[i].pc = "dead" /\ op'[i].answer # "none"
      BY <1>1, <3>1 DEF OpRecord
    <3> QED BY <3>2 DEF PathInv
  <2> QED BY <2>1, <2>2
<1>3. (\A i \in Op : PathInv(op[i]))' <=> \A i \in Op : PathInv(op'[i])
  BY DEF PathInv, Silent, SilentSoFar, Completes
<1> QED BY <1>1, <1>2, <1>3 DEF SlotInv

-----------------------------------------------------------------------------
LEMMA SlotInit == Init => SlotInv
BY DEF Init, SlotInv, PathInv, Unsent, MayHold

LEMMA SlotNext == Inv /\ SlotInv /\ [Next]_vars => SlotInv'
<1> SUFFICES ASSUME Inv, SlotInv, [Next]_vars PROVE SlotInv'
  OBVIOUS
<1>1. ASSUME NEW posted \in PostState, Create(posted) PROVE SlotInv'
  BY <1>1, SelfPatchSlot DEF Create
<1>2. CASE Crash
  BY <1>2, CrashSlot
<1>3. CASE Restart \/ RestartRejected
  BY <1>3, SelfPatchSlot, IdleSlot DEF Restart, RestartRejected
<1>4. ASSUME NEW body \in PatchBody, ClientPatch(body) PROVE SlotInv'
  BY <1>4, SendSlot DEF ClientPatch
<1>5. ASSUME NEW i \in Op, Dequeue(i) PROVE SlotInv'
  BY <1>5, FailSlot, BeginPatchSlot DEF Dequeue, RejectPatch
<1>6. ASSUME NEW i \in Op, Handle(i) PROVE SlotInv'
  BY <1>6, ValidateTriggerSlot, TransitSlot, ActionSlot, ScheduleExpirySlot,
     FinishSlot, FailSlot
  DEF Handle, RefuseTrigger, TransitFails, DanglingDestination
<1>7. ASSUME NEW i \in Op, Store(i) \/ Reply(i) PROVE SlotInv'
  BY <1>7, StoreSlot, ReplySlot
<1>8. ASSUME NEW t \in timers, ExpiryPatch(t) \/ ExpiryLost(t) PROVE SlotInv'
  BY <1>8, SendSlot, IdleSlot DEF ExpiryPatch, ExpiryLost
<1>9. ASSUME NEW g \in Guard, FlipGuard(g) PROVE SlotInv'
  BY <1>9, IdleSlot DEF FlipGuard
<1>10. CASE UNCHANGED vars
  BY <1>10, IdleSlot DEF vars
<1> QED
  BY <1>1, <1>2, <1>3, <1>4, <1>5, <1>6, <1>7, <1>8, <1>9, <1>10 DEF Next

(* Whatever actions are configured, and whichever of them throw, a patch    *)
(* holds the update slot of the document only while its handler runs or its *)
(* version is stored, or because no action configured on its path completes *)
(* the operation: fireTrigger and the platform leave no other way to block  *)
(* a document.                                                              *)
THEOREM SlotHeldForAReasonCorrect == Spec => []SlotHeldForAReason
<1>1. Inv /\ SlotInv => SlotHeldForAReason
  <2> SUFFICES ASSUME Inv, SlotInv, busy # 0,
                      ~ Running(busy), op[busy].answer \notin {"completed", "stored"}
               PROVE  op[busy].pc = "done" /\ ~ PathCompletes(busy)
    BY DEF SlotHeldForAReason
  <2>1. busy \in Op
    BY DEF Inv, TypeInv, TypeOK
  <2>2. op[busy].pc = "done" /\ op[busy].answer = "none"
    BY DEF SlotInv, MayHold, Running
  <2>3. Silent(op[busy], Config[op[busy].src].exit)
        /\ Silent(op[busy], Config[op[busy].dst].entry)
    BY <2>1, <2>2 DEF SlotInv, PathInv
  <2> QED BY <2>2, <2>3 DEF PathCompletes, ExitCompletes, CompletedBy, Silent, Completes, Runs
<1>2. Init => Inv /\ SlotInv
  BY InvInit, SlotInit
<1>3. (Inv /\ SlotInv) /\ [Next]_vars => (Inv /\ SlotInv)'
  BY InvNext, SlotNext
<1> QED BY <1>1, <1>2, <1>3, PTL DEF Spec

-----------------------------------------------------------------------------
(* What the handlers of patches leave behind, whatever is configured        *)

(* no exit action of the state it leaves completes the patch *)
LeavesSilently(r) == Silent(r, Config[r.src].exit)

(* a patch that is completed while its actions run was completed by one of  *)
(* those that ran; only a dead patch is lost *)
WayInv(r) ==
    /\ r.pc = "exit" /\ r.answer # "none" => ~ SilentSoFar(r, Config[r.src].exit)
    /\ r.pc = "entry" /\ r.answer # "none" =>
          ~ LeavesSilently(r) \/ ~ SilentSoFar(r, Config[r.dst].entry)
    /\ r.pc \in {"exit", "entry", "done"} => r.answer \notin {"error", "lost"}
    /\ r.answer = "lost" => r.pc = "dead"
    /\ r.pc = "dead" => r.answer \in {"ok", "error", "lost"}

WaysInv == \A i \in Op : WayInv(op[i])

(* the source and destination of a patch are decided *)
Past(r) == r.pc \in {"exit", "entry", "done", "failed", "dead"}

(* the scheduler ran for the patch: one that failed after it was completed  *)
(* came so far unless an exit action had completed it *)
Scheduled(r) ==
    \/ r.pc \in {"entry", "done"}
    \/ r.pc = "failed" /\ r.answer # "error" /\ LeavesSilently(r)

(* What every step leaves of the record of a patch, and what the steps but  *)
(* the scheduler's do.                                                      *)
Keeps(r, o) ==
    /\ o.pc # "unsent" => /\ r.pc # "unsent"
                          /\ r.origin = o.origin
                          /\ r.armedBy = o.armedBy
                          /\ r.state = o.state
                          /\ r.trigger = o.trigger
    /\ Past(o) => Past(r) /\ r.src = o.src /\ r.dst = o.dst
Carries(r, o) ==
    /\ Keeps(r, o)
    /\ Scheduled(r) => Scheduled(o) /\ r.expires = o.expires

Keep == \A j \in Op : Keeps(op'[j], op[j])
Carry == \A j \in Op : Carries(op'[j], op[j])

-----------------------------------------------------------------------------
(* The step from one record to the next                                     *)

(* the invariant speaks of the patches only *)
LEMMA WaysLater ==
    ASSUME \A j \in Op : WayInv(op'[j])
    PROVE  WaysInv'
BY DEF WaysInv, WayInv, LeavesSilently, Silent, SilentSoFar, Completes

LEMMA CarryStep ==
    ASSUME Inv, WaysInv, NEW i \in Op, NEW r, Update(i, r),
           Carries(r, op[i]), WayInv(r)
    PROVE  WaysInv' /\ Carry
<1>1. op'[i] = r /\ \A j \in Op : j # i => op'[j] = op[j]
  BY UpdateEffect
<1>2. \A j \in Op : Carries(op[j], op[j])
  BY DEF Carries, Keeps
<1>3. Carry
  BY <1>1, <1>2 DEF Carry
<1>4. \A j \in Op : WayInv(op'[j])
  BY <1>1 DEF WaysInv
<1> QED BY <1>3, <1>4, WaysLater

LEMMA CarryIdle ==
    ASSUME WaysInv, UNCHANGED op
    PROVE  WaysInv' /\ Carry
<1>1. Carry
  BY DEF Carry, Carries, Keeps
<1>2. \A j \in Op : WayInv(op'[j])
  BY DEF WaysInv
<1> QED BY <1>1, <1>2, WaysLater

(* A patch that fails after it was completed was past the scheduler, unless *)
(* an exit action completed it.                                             *)
LEMMA CarryFail ==
    ASSUME Inv, WaysInv, NEW i \in Op, Fail(i),
           op[i].pc \in {"queued", "validate", "transit", "exit", "entry"}
    PROVE  WaysInv' /\ Carry
<1> DEFINE o == op[i]
           r == [o EXCEPT !.pc = "failed",
                          !.answer = IF @ = "none" THEN "error" ELSE @]
<1>1. Update(i, r)
  BY DEF Fail
<1>2. o \in OpRecord /\ WayInv(o) /\ OpInv(i)
  BY <1>1, UpdateEffect DEF WaysInv, Inv
<1>3. /\ r.pc = "failed" /\ r.origin = o.origin /\ r.armedBy = o.armedBy
      /\ r.state = o.state /\ r.trigger = o.trigger /\ r.src = o.src
      /\ r.dst = o.dst /\ r.expires = o.expires
      /\ r.answer = IF o.answer = "none" THEN "error" ELSE o.answer
  BY <1>2 DEF OpRecord
<1> HIDE DEF r
<1>4. Keeps(r, o)
  BY <1>3 DEF Keeps, Past
<1>5. ASSUME r.answer # "error", LeavesSilently(r) PROVE o.pc = "entry"
  <2>1. o.answer # "none" /\ o.pc \in {"exit", "entry"}
    BY <1>2, <1>3, <1>5 DEF OpInv
  <2>2. LeavesSilently(o)
    BY <1>3, <1>5 DEF LeavesSilently, Silent, Completes
  <2>3. SilentSoFar(o, Config[o.src].exit)
    BY <2>2 DEF LeavesSilently, Silent, SilentSoFar
  <2> QED BY <1>2, <2>1, <2>3 DEF WayInv
<1>6. Carries(r, o)
  BY <1>3, <1>4, <1>5 DEF Carries, Scheduled
<1>7. WayInv(r)
  BY <1>2, <1>3 DEF WayInv
<1> QED BY <1>1, <1>6, <1>7, CarryStep

LEMMA CarrySend ==
    ASSUME Inv, WaysInv, NEW origin, NEW state, NEW trigger, NEW armedBy,
           Send(origin, state, trigger, armedBy)
    PROVE  WaysInv' /\ Carry
<1> DEFINE r == [Unsent EXCEPT !.origin = origin, !.state = state,
                               !.trigger = trigger, !.armedBy = armedBy,
                               !.pc = "queued"]
<1>1. sent + 1 \in Op /\ Update(sent + 1, r) /\ sent + 1 > sent
  BY BoundAssumption DEF Send, Inv, TypeInv, TypeOK, Op
<1>2. r.pc = "queued" /\ r.answer = "none"
  BY DEF Unsent
<1> HIDE DEF r
<1>3. op[sent + 1].pc = "unsent"
  BY <1>1 DEF Inv, OpInv
<1>4. Carries(r, op[sent + 1]) /\ WayInv(r)
  BY <1>2, <1>3 DEF Carries, Keeps, Past, Scheduled, WayInv
<1> QED BY <1>1, <1>4, CarryStep

LEMMA CarrySelfPatch ==
    ASSUME Inv, WaysInv, NEW state, SelfPatchIfInitial(state)
    PROVE  WaysInv' /\ Carry
BY CarrySend, CarryIdle DEF SelfPatchIfInitial

LEMMA CarryCrash ==
    ASSUME Inv, WaysInv, Crash
    PROVE  WaysInv' /\ Carry
<1>1. op \in [Op -> OpRecord]
  BY DEF Inv, TypeInv, TypeOK
<1>2. ASSUME NEW j \in Op PROVE Carries(op'[j], op[j]) /\ WayInv(op'[j])
  <2>1. CASE op[j].pc = "unsent"
    <3>1. op'[j] = op[j]
      BY <2>1 DEF Crash
    <3> QED BY <3>1 DEF Carries, Keeps, WaysInv
  <2>2. CASE op[j].pc # "unsent"
    <3>1. op'[j] = [op[j] EXCEPT !.pc = "dead",
                      !.answer = IF @ \in {"ok", "error"} THEN @ ELSE "lost"]
      BY <2>2 DEF Crash
    <3>2. op[j] \in OpRecord
      BY <1>1
    <3>3. /\ op'[j].pc = "dead" /\ op'[j].answer \in {"ok", "error", "lost"}
          /\ op'[j].origin = op[j].origin /\ op'[j].armedBy = op[j].armedBy
          /\ op'[j].state = op[j].state /\ op'[j].trigger = op[j].trigger
          /\ op'[j].src = op[j].src /\ op'[j].dst = op[j].dst
      BY <3>1, <3>2 DEF OpRecord
    <3> QED BY <3>3 DEF Carries, Keeps, Past, Scheduled, WayInv
  <2> QED BY <2>1, <2>2
<1> QED BY <1>2, WaysLater DEF Carry

-----------------------------------------------------------------------------
(* The steps of a handler                                                   *)

(* no action has run *)
LEMMA CarryUpTo ==
    ASSUME Inv, WaysInv, NEW i \in Op, NEW r, Update(i, r),
           op[i].pc \in {"queued", "validate", "transit"},
           r.pc \in {"validate", "transit", "exit"}, r.answer = op[i].answer,
           r.origin = op[i].origin, r.armedBy = op[i].armedBy,
           r.state = op[i].state, r.trigger = op[i].trigger
    PROVE  WaysInv' /\ Carry
<1>1. op[i].answer = "none"
  BY DEF Inv, OpInv
<1>2. Carries(r, op[i]) /\ WayInv(r)
  BY <1>1 DEF Carries, Keeps, Past, Scheduled, WayInv
<1> QED BY <1>2, CarryStep

LEMMA CarryBegin ==
    ASSUME Inv, WaysInv, NEW i \in Op, BeginPatch(i) \/ ValidateTrigger(i)
    PROVE  WaysInv' /\ Carry
<1>1. CASE BeginPatch(i)
  <2> DEFINE r == [op[i] EXCEPT !.pc = "validate", !.src = CurrentState]
  <2>1. Update(i, r) /\ op[i].pc = "queued"
    BY <1>1 DEF BeginPatch, Dequeues
  <2>2. op[i] \in OpRecord
    BY <2>1, UpdateEffect
  <2>3. /\ r.pc = "validate" /\ r.answer = op[i].answer
        /\ r.origin = op[i].origin /\ r.armedBy = op[i].armedBy
        /\ r.state = op[i].state /\ r.trigger = op[i].trigger
    BY <2>2 DEF OpRecord
  <2> HIDE DEF r
  <2> QED BY <2>1, <2>3, CarryUpTo
<1>2. CASE ValidateTrigger(i)
  <2> DEFINE r == [op[i] EXCEPT !.pc = "transit"]
  <2>1. Update(i, r) /\ op[i].pc = "validate"
    BY <1>2 DEF ValidateTrigger
  <2>2. op[i] \in OpRecord
    BY <2>1, UpdateEffect
  <2>3. /\ r.pc = "transit" /\ r.answer = op[i].answer
        /\ r.origin = op[i].origin /\ r.armedBy = op[i].armedBy
        /\ r.state = op[i].state /\ r.trigger = op[i].trigger
    BY <2>2 DEF OpRecord
  <2> HIDE DEF r
  <2> QED BY <2>1, <2>3, CarryUpTo
<1> QED BY <1>1, <1>2

LEMMA CarryTransit ==
    ASSUME Inv, WaysInv, NEW i \in Op, Transit(i)
    PROVE  WaysInv' /\ Carry
<1>1. PICK k \in Actual(Config[op[i].src], op[i].trigger, open) :
        Update(i, [op[i] EXCEPT !.pc = "exit", !.step = 1,
                      !.dst = Config[op[i].src].behaviours[k].destination])
  BY DEF Transit
<1> DEFINE r == [op[i] EXCEPT !.pc = "exit", !.step = 1,
                    !.dst = Config[op[i].src].behaviours[k].destination]
<1>2. op[i].pc = "transit"
  BY DEF Transit
<1>3. op[i] \in OpRecord
  BY <1>1, UpdateEffect
<1>4. /\ r.pc = "exit" /\ r.answer = op[i].answer /\ r.origin = op[i].origin
      /\ r.armedBy = op[i].armedBy /\ r.state = op[i].state
      /\ r.trigger = op[i].trigger
  BY <1>3 DEF OpRecord
<1>5. Update(i, r)
  BY <1>1
<1> HIDE DEF r
<1> QED BY <1>2, <1>4, <1>5, CarryUpTo

(* an action that returns and completes the patch is one of those that ran *)
LEMMA CarryPerform ==
    ASSUME Inv, SlotInv, WaysInv, NEW i \in Op,
           NEW actions \in Seq(Action), Perform(i, actions),
           \/ op[i].pc = "exit" /\ actions = Config[op[i].src].exit
           \/ op[i].pc = "entry" /\ actions = Config[op[i].dst].entry
    PROVE  WaysInv' /\ Carry
<1> DEFINE o == op[i]
           done == Completes(actions[o.step], o)
           r == [o EXCEPT !.step = @ + 1,
                          !.answer = IF done /\ @ = "none" THEN "completed" ELSE @]
<1>1. Update(i, r) /\ o.step \in DOMAIN actions
  BY DEF Perform, Completes, Runs
<1>2. o \in OpRecord /\ WayInv(o) /\ o.step \in Nat
  BY <1>1, UpdateEffect DEF WaysInv, OpRecord
<1>3. /\ r.pc = o.pc /\ r.src = o.src /\ r.dst = o.dst /\ r.expires = o.expires
      /\ r.origin = o.origin /\ r.armedBy = o.armedBy /\ r.state = o.state
      /\ r.trigger = o.trigger /\ r.step = o.step + 1
      /\ r.answer = IF done /\ o.answer = "none" THEN "completed" ELSE o.answer
  BY <1>2 DEF OpRecord
<1> HIDE DEF r
<1>4. (done => ~ SilentSoFar(r, actions))
      /\ (~ SilentSoFar(o, actions) => ~ SilentSoFar(r, actions))
  <2>1. \A a : Completes(a, r) <=> Completes(a, o)
    BY <1>3 DEF Completes
  <2>2. \A k \in DOMAIN actions : k <= o.step => k < r.step
    BY <1>2, <1>3
  <2>3. \A k \in DOMAIN actions : k < o.step => k < r.step
    BY <1>2, <1>3
  <2> QED BY <1>1, <1>2, <2>1, <2>2, <2>3 DEF SilentSoFar
<1>5. r.answer # "none" => o.answer # "none" \/ done
  BY <1>3
<1>6. r.answer \in {"error", "lost"} => r.answer = o.answer
  BY <1>3
<1> HIDE DEF done
<1>7. LeavesSilently(r) <=> LeavesSilently(o)
  BY <1>3 DEF LeavesSilently, Silent, Completes
<1>8. Carries(r, o)
  BY <1>3 DEF Carries, Keeps, Past, Scheduled
<1>9. WayInv(r)
  BY <1>2, <1>3, <1>4, <1>5, <1>6, <1>7 DEF WayInv
<1> QED BY <1>1, <1>8, <1>9, CarryStep

LEMMA CarryAction ==
    ASSUME Inv, SlotInv, WaysInv, NEW i \in Op, ExitAction(i) \/ EntryAction(i)
    PROVE  WaysInv' /\ Carry
<1>1. PathInv(op[i])
  BY DEF SlotInv
<1>2. CASE ExitAction(i)
  <2>1. Config[op[i].src].exit \in Seq(Action)
    BY <1>1, <1>2, ConfigParts DEF PathInv, ExitAction
  <2> QED BY <1>2, <2>1, CarryPerform, CarryFail DEF ExitAction, Throws
<1>3. CASE EntryAction(i)
  <2>1. Config[op[i].dst].entry \in Seq(Action)
    BY <1>1, <1>3, ConfigParts DEF PathInv, EntryAction
  <2> QED BY <1>3, <2>1, CarryPerform, CarryFail DEF EntryAction, Throws
<1> QED BY <1>2, <1>3

LEMMA CarryFinish ==
    ASSUME Inv, WaysInv, NEW i \in Op, Finish(i)
    PROVE  WaysInv' /\ Carry
<1> DEFINE o == op[i]
           r == [o EXCEPT !.pc = "done"]
<1>1. Update(i, r) /\ o.pc = "entry"
  BY DEF Finish
<1>2. o \in OpRecord /\ WayInv(o)
  BY <1>1, UpdateEffect DEF WaysInv
<1>3. /\ r.pc = "done" /\ r.answer = o.answer /\ r.origin = o.origin
      /\ r.armedBy = o.armedBy /\ r.state = o.state /\ r.trigger = o.trigger
      /\ r.src = o.src /\ r.dst = o.dst /\ r.expires = o.expires
  BY <1>2 DEF OpRecord
<1> HIDE DEF r
<1>4. Carries(r, o) /\ WayInv(r)
  BY <1>1, <1>2, <1>3 DEF Carries, Keeps, Past, Scheduled, WayInv
<1> QED BY <1>1, <1>4, CarryStep

(* a version is stored, a sender is told *)
LEMMA CarryAnswer ==
    ASSUME Inv, WaysInv, NEW i \in Op, Store(i) \/ Reply(i)
    PROVE  WaysInv' /\ Carry
<1>1. PICK a \in {"stored", "ok"} :
        Update(i, [op[i] EXCEPT !.answer = a])
  BY DEF Store, Reply
<1> DEFINE o == op[i]
           r == [o EXCEPT !.answer = a]
<1>2. o \in OpRecord /\ o.answer \in {"completed", "stored"} /\ WayInv(o)
  BY <1>1, UpdateEffect DEF Store, Reply, WaysInv
<1>3. /\ r.pc = o.pc /\ r.step = o.step /\ r.answer = a
      /\ r.origin = o.origin /\ r.armedBy = o.armedBy /\ r.state = o.state
      /\ r.trigger = o.trigger /\ r.src = o.src /\ r.dst = o.dst
      /\ r.expires = o.expires
  BY <1>2 DEF OpRecord
<1> HIDE DEF r
<1>4. \A list : /\ Silent(r, list) <=> Silent(o, list)
                /\ SilentSoFar(r, list) <=> SilentSoFar(o, list)
  BY <1>3 DEF Silent, SilentSoFar, Completes
<1>5. LeavesSilently(r) <=> LeavesSilently(o)
  BY <1>3, <1>4 DEF LeavesSilently
<1>6. Carries(r, o)
  BY <1>2, <1>3, <1>5 DEF Carries, Keeps, Past, Scheduled
<1>7. WayInv(r)
  BY <1>2, <1>3, <1>4, <1>5 DEF WayInv
<1> QED BY <1>1, <1>6, <1>7, CarryStep DEF r

(* The scheduler runs after the exit actions.  If none of them completed    *)
(* the patch, what it writes is in the document when that is stored.        *)
LEMMA ScheduleEffect ==
    ASSUME Inv, SlotInv, WaysInv, NEW i \in Op, ScheduleExpiry(i)
    PROVE  /\ WaysInv' /\ Keep
           /\ \A j \in Op : j # i => op'[j] = op[j]
           /\ op'[i].src = op[i].src /\ op'[i].dst = op[i].dst
           /\ op'[i].trigger = op[i].trigger
           /\ LeavesSilently(op[i]) =>
                 /\ op'[i].expires = (ExpiryOf(op[i].dst) # {})
                 /\ expireFrom' = expireFrom
           /\ index[Len(index)].by # i => expireFrom' = expireFrom
           /\ timers' = timers \cup
                 {[trigger |-> t, state |-> op[i].dst, by |-> i, lost |-> FALSE] :
                     t \in ExpiryOf(op[i].dst)}
           /\ index' = index
<1> DEFINE o == op[i]
           expiring == Config[o.dst].expiry # {}
<1>1. o.pc = "exit" /\ o.dst \in DOMAIN Config /\ WayInv(o)
  BY DEF ScheduleExpiry, ExitDone, WaysInv
<1>2. ExpiryOf(o.dst) = Config[o.dst].expiry
  BY <1>1 DEF ExpiryOf
<1>3. PICK written \in BOOLEAN :
        /\ o.answer = "none" => written
        /\ Update(i, [o EXCEPT !.pc = "entry", !.step = 1,
                               !.expires = written /\ expiring])
        /\ expireFrom' = IF /\ written /\ expiring
                            /\ o.answer \in {"stored", "ok"}
                            /\ index[Len(index)].by = i
                         THEN o.dst ELSE expireFrom
  BY DEF ScheduleExpiry
<1> DEFINE r == [o EXCEPT !.pc = "entry", !.step = 1, !.expires = written /\ expiring]
<1>4. op'[i] = r /\ (\A j \in Op : j # i => op'[j] = op[j]) /\ o \in OpRecord
  BY <1>3, UpdateEffect
<1>5. /\ r.pc = "entry" /\ r.step = 1 /\ r.src = o.src /\ r.dst = o.dst
      /\ r.answer = o.answer /\ r.expires = (written /\ expiring)
      /\ r.trigger = o.trigger /\ r.origin = o.origin
      /\ r.armedBy = o.armedBy /\ r.state = o.state
  BY <1>4 DEF OpRecord
<1> HIDE DEF r
<1>6. LeavesSilently(o) => o.answer = "none"
  BY <1>1 DEF LeavesSilently, WayInv, Silent, SilentSoFar
<1>7. LeavesSilently(r) <=> LeavesSilently(o)
  BY <1>5 DEF LeavesSilently, Silent, Completes
<1>8. WayInv(r)
  BY <1>1, <1>5, <1>6, <1>7 DEF WayInv
<1>9. WaysInv'
  BY <1>4, <1>8, WaysLater DEF WaysInv
<1>10. Keep
  <2>1. Keeps(r, o)
    BY <1>5 DEF Keeps, Past
  <2>2. \A j \in Op : Keeps(op[j], op[j])
    BY DEF Keeps
  <2> QED BY <1>4, <2>1, <2>2 DEF Keep
<1>11. LeavesSilently(o) => /\ op'[i].expires = (ExpiryOf(o.dst) # {})
                            /\ expireFrom' = expireFrom
  <2> SUFFICES ASSUME LeavesSilently(o)
               PROVE  op'[i].expires = (ExpiryOf(o.dst) # {}) /\ expireFrom' = expireFrom
    OBVIOUS
  <2>1. o.answer = "none" /\ written
    BY <1>3, <1>6
  <2>2. (written /\ expiring) = expiring
    BY <2>1
  <2> QED BY <1>2, <1>3, <1>4, <1>5, <2>1, <2>2
<1>12. timers' = timers \cup {[trigger |-> t, state |-> o.dst, by |-> i, lost |-> FALSE] :
                                t \in ExpiryOf(o.dst)}
      /\ index' = index
  BY <1>2 DEF ScheduleExpiry
<1>13. index[Len(index)].by # i => expireFrom' = expireFrom
  BY <1>3
<1> QED BY <1>4, <1>5, <1>9, <1>10, <1>11, <1>12, <1>13

-----------------------------------------------------------------------------
LEMMA CarryNext ==
    ASSUME Inv, SlotInv, WaysInv, [Next]_vars
    PROVE  WaysInv' /\ (Carry \/ \E i \in Op : ScheduleExpiry(i))
<1> DEFINE Goal == WaysInv' /\ (Carry \/ \E i \in Op : ScheduleExpiry(i))
<1>1. ASSUME NEW posted \in PostState, Create(posted) PROVE Goal
  BY <1>1, CarrySelfPatch DEF Create
<1>2. CASE Crash
  BY <1>2, CarryCrash
<1>3. CASE Restart \/ RestartRejected
  BY <1>3, CarrySelfPatch, CarryIdle DEF Restart, RestartRejected
<1>4. ASSUME NEW body \in PatchBody, ClientPatch(body) PROVE Goal
  BY <1>4, CarrySend DEF ClientPatch
<1>5. ASSUME NEW i \in Op, Dequeue(i) PROVE Goal
  BY <1>5, CarryFail, CarryBegin DEF Dequeue, RejectPatch, Dequeues
<1>6. ASSUME NEW i \in Op, Handle(i) PROVE Goal
  BY <1>6, CarryBegin, CarryTransit, CarryAction, CarryFinish, CarryFail,
     ScheduleEffect
  DEF Handle, RefuseTrigger, TransitFails, DanglingDestination, ExitDone
<1>7. ASSUME NEW i \in Op, Store(i) \/ Reply(i) PROVE Goal
  BY <1>7, CarryAnswer
<1>8. ASSUME NEW t \in timers, ExpiryPatch(t) \/ ExpiryLost(t) PROVE Goal
  BY <1>8, CarrySend, CarryIdle DEF ExpiryPatch, ExpiryLost
<1>9. ASSUME NEW g \in Guard, FlipGuard(g) PROVE Goal
  BY <1>9, CarryIdle DEF FlipGuard
<1>10. CASE UNCHANGED vars
  BY <1>10, CarryIdle DEF vars
<1> QED
  BY <1>1, <1>2, <1>3, <1>4, <1>5, <1>6, <1>7, <1>8, <1>9, <1>10 DEF Next

LEMMA KeepNext ==
    ASSUME Inv, SlotInv, WaysInv, [Next]_vars
    PROVE  Keep
<1>1. Carry => Keep
  BY DEF Carry, Carries, Keep
<1> QED BY <1>1, CarryNext, ScheduleEffect

LEMMA WaysInit == Init => WaysInv
BY DEF Init, WaysInv, WayInv, Unsent

(* Whatever is configured, the actions of two transitions of a document run *)
(* at the same time only if an action that is configured before others      *)
(* completed one of the two patches (the default of the documentation is an *)
(* exit action that does), and then that patch is answered: what the other  *)
(* transition starts from is stored.                                        *)
THEOREM HandlersOverlapForAReasonCorrect == Spec => []HandlersOverlapForAReason
<1>1. Inv /\ WaysInv => HandlersOverlapForAReason
  <2> SUFFICES ASSUME Inv, WaysInv, NEW i \in Op, NEW j \in Op,
                      Acts(i), Acts(j), i # j
               PROVE  \E first \in {i, j} : op[first].answer = "ok"
                                            /\ CompletedOnTheWay(first)
    BY DEF HandlersOverlapForAReason
  <2>1. PICK first \in {i, j} : busy # first
    OBVIOUS
  <2>2. first \in Op /\ Acts(first) /\ op[first] \in OpRecord
        /\ OpInv(first) /\ WayInv(op[first])
    BY DEF Inv, TypeInv, TypeOK, WaysInv
  <2>3. op[first].pc \in {"exit", "entry"}
    BY <2>2 DEF Acts
  <2>4. op[first].answer = "ok"
    <3>1. op[first].answer \notin {"none", "completed", "stored"}
      BY <2>1, <2>2, <2>3 DEF OpInv, Unstored, Running
    <3> QED BY <2>2, <2>3, <3>1 DEF WayInv, OpRecord, Answer
  <2>5. CompletedOnTheWay(first)
    <3>1. \A list : ~ SilentSoFar(op[first], list) =>
             \E k \in {k \in DOMAIN list : k < op[first].step} :
                CompletedBy(first, list[k])
      BY DEF SilentSoFar, Completes, CompletedBy, Runs
    <3>2. ~ LeavesSilently(op[first]) => ExitCompletes(first)
      BY DEF LeavesSilently, Silent, Completes, ExitCompletes, CompletedBy, Runs
    <3> QED BY <2>2, <2>3, <2>4, <3>1, <3>2 DEF CompletedOnTheWay, WayInv
  <2> QED BY <2>4, <2>5
<1>2. Init => Inv /\ SlotInv /\ WaysInv
  BY InvInit, SlotInit, WaysInit
<1>3. (Inv /\ SlotInv /\ WaysInv) /\ [Next]_vars => (Inv /\ SlotInv /\ WaysInv)'
  BY InvNext, SlotNext, CarryNext
<1> QED BY <1>1, <1>2, <1>3, PTL DEF Spec

-----------------------------------------------------------------------------
(* The versions and the patches that made them                              *)

(* the version is appended, and nothing else changes but the answer *)
LEMMA StoreEffect ==
    ASSUME Inv, NEW i \in Op, Store(i)
    PROVE  /\ Len(index) \in Nat \ {0}
           /\ Len(index') = Len(index) + 1
           /\ \A k \in 1 .. Len(index) : index'[k] = index[k]
           /\ index'[Len(index) + 1] =
                 [state |-> op[i].dst, trigger |-> op[i].trigger, by |-> i]
           /\ \A j \in Op : j # i => op'[j] = op[j]
           /\ op[i].pc # "unsent" /\ op'[i].pc # "unsent"
           /\ op'[i].origin = op[i].origin /\ op'[i].state = op[i].state
           /\ op'[i].armedBy = op[i].armedBy /\ op[i].answer = "completed"
           /\ op'[i].dst = op[i].dst
           /\ op'[i].answer = "stored" /\ busy = i
           /\ op[i].src = CurrentState /\ op[i].state \in {None, CurrentState}
           /\ <<CurrentState, op[i].trigger, op[i].dst>> \in SvcGraph(Config)
           /\ UNCHANGED <<svc, sent, busy, timers, crashes>>
<1> DEFINE r == [op[i] EXCEPT !.answer = "stored"]
           v == [state |-> op[i].dst, trigger |-> op[i].trigger, by |-> i]
<1>1. /\ Update(i, r) /\ op[i].answer = "completed" /\ index' = Append(index, v)
      /\ UNCHANGED <<svc, sent, busy, timers, crashes>>
  BY DEF Store
<1>2. op[i] \in OpRecord /\ OpInv(i) /\ TypeInv /\ index \in Seq(Version)
  BY <1>1, UpdateEffect DEF Inv, TypeInv, TypeOK
<1>3. /\ r.pc = op[i].pc /\ r.origin = op[i].origin /\ r.state = op[i].state
      /\ r.armedBy = op[i].armedBy /\ r.answer = "stored" /\ r.dst = op[i].dst
  BY <1>2 DEF OpRecord
<1> HIDE DEF r
<1>4. op'[i] = r /\ \A j \in Op : j # i => op'[j] = op[j]
  BY <1>1, UpdateEffect
<1>5. /\ op[i].pc # "unsent" /\ busy = i
      /\ op[i].src = CurrentState /\ op[i].state \in {None, CurrentState}
      /\ <<CurrentState, op[i].trigger, op[i].dst>> \in SvcGraph(Config)
  BY <1>1, <1>2 DEF OpInv, Unstored, Decided
<1>6. Len(index) \in Nat \ {0}
  BY <1>2, <1>5, SentExists, CurrentStateIsState
<1> HIDE DEF v
<1>7. /\ Len(index') = Len(index) + 1
      /\ \A k \in 1 .. Len(index) : index'[k] = index[k]
      /\ index'[Len(index) + 1] = v
  BY <1>1, <1>2, <1>6
<1> QED BY <1>1, <1>3, <1>4, <1>5, <1>6, <1>7 DEF v

LEMMA VersionAppended ==
    ASSUME Inv, NEW i \in Op, Store(i), NEW n, n = Len(index)
    PROVE  /\ n \in Nat \ {0}
           /\ Len(index') = n + 1
           /\ \A k \in 1 .. n : index'[k] = index[k]
           /\ index'[n + 1].state = op[i].dst
           /\ index'[n + 1].by = i
<1>1. index'[n + 1] = [state |-> op[i].dst, trigger |-> op[i].trigger, by |-> i]
  BY StoreEffect
<1>2. index'[n + 1].state = op[i].dst /\ index'[n + 1].by = i
  BY <1>1
<1> QED BY <1>2, StoreEffect

(* The first version is made by the creation, the others by patches whose   *)
(* destination they have.                                                   *)
VersionInv ==
    /\ index # << >> => index[1].by = 0
    /\ \A k \in 2 .. Len(index) :
          Past(op[index[k].by]) /\ op[index[k].by].dst = index[k].state

(* only two actions change the index, and one other expireFromState *)
LEMMA IndexChanges ==
    ASSUME [Next]_vars
    PROVE  \/ \E posted \in PostState : Create(posted)
           \/ \E i \in Op : Store(i)
           \/ index' = index /\ (expireFrom' = expireFrom \/ \E i \in Op : ScheduleExpiry(i))
BY DEF Next, vars, Crash, Restart, RestartRejected, ClientPatch, Dequeue, RejectPatch,
       BeginPatch, Fail, Handle, ValidateTrigger, RefuseTrigger, Transit, TransitFails,
       ExitAction, EntryAction, Perform, Throws, DanglingDestination, Finish, Reply,
       ExpiryPatch, ExpiryLost, FlipGuard, ScheduleExpiry

(* a patch that is completed is past its decision *)
LEMMA CompletedPast ==
    ASSUME Inv, NEW i \in Op, op[i].answer \notin {"none"}
    PROVE  Past(op[i])
<1>1. op[i] \in OpRecord /\ OpInv(i)
  BY DEF Inv, TypeInv, TypeOK
<1> QED BY <1>1 DEF OpInv, Past, OpRecord, PC

LEMMA VersionNext ==
    ASSUME Inv, SlotInv, WaysInv, VersionInv, [Next]_vars
    PROVE  VersionInv'
<1>1. Keep
  BY KeepNext
<1>2. \A k \in 2 .. Len(index) : /\ index[k].by \in Op
                                 /\ Past(op'[index[k].by])
                                 /\ op'[index[k].by].dst = index[k].state
  <2>1. \A k \in 2 .. Len(index) : index[k].by \in Op
    BY DEF Inv, IndexInv
  <2> QED BY <1>1, <2>1 DEF VersionInv, Keep, Keeps
<1>3. CASE index' = index
  BY <1>2, <1>3 DEF VersionInv, Past
<1>4. ASSUME NEW posted \in PostState, Create(posted) PROVE VersionInv'
  <2>1. Len(index') = 1 /\ index'[1].by = 0
    BY <1>4 DEF Create
  <2> QED BY <2>1 DEF VersionInv
<1>5. ASSUME NEW i \in Op, Store(i) PROVE VersionInv'
  <2> DEFINE n == Len(index)
  <2>1. /\ n \in Nat \ {0} /\ Len(index') = n + 1
        /\ \A k \in 1 .. n : index'[k] = index[k]
        /\ index'[n + 1].state = op[i].dst /\ index'[n + 1].by = i
    BY <1>5, VersionAppended
  <2>2. Past(op'[i]) /\ op'[i].dst = op[i].dst
    <3>1. Past(op[i])
      BY <1>5, CompletedPast DEF Store
    <3> QED BY <1>1, <3>1 DEF Keep, Keeps
  <2>3. index[1].by = 0
    <3>1. index # << >>
      BY <2>1
    <3> QED BY <3>1 DEF VersionInv
  <2>4. index'[1].by = 0
    <3>1. 1 \in 1 .. n
      BY <2>1
    <3> QED BY <2>1, <2>3, <3>1
  <2>5. ASSUME NEW k \in 2 .. n + 1
        PROVE  /\ Past(op'[index'[k].by])
               /\ op'[index'[k].by].dst = index'[k].state
    <3>1. CASE k = n + 1
      BY <2>1, <2>2, <3>1
    <3>2. CASE k # n + 1
      <4>1. k \in 2 .. n /\ k \in 1 .. n
        BY <2>1, <3>2
      <4> QED BY <1>2, <2>1, <4>1
    <3> QED BY <3>1, <3>2
  <2> QED BY <2>1, <2>4, <2>5 DEF VersionInv, Past
<1> QED BY <1>3, <1>4, <1>5, IndexChanges

LEMMA VersionInit == Init => VersionInv
BY DEF Init, VersionInv

(* whether an exit action completes a patch does not change any more *)
LEMMA SilenceKept ==
    ASSUME Keep, NEW j \in Op, Past(op[j])
    PROVE  LeavesSilently(op'[j]) <=> LeavesSilently(op[j])
<1>1. op'[j].src = op[j].src /\ op'[j].trigger = op[j].trigger
  BY DEF Keep, Keeps, Past
<1> QED BY <1>1 DEF LeavesSilently, Silent, Completes

-----------------------------------------------------------------------------
(* What the scheduler recorded                                              *)

(* Of the patches that no exit action completes: one past the scheduler     *)
(* writes expireFromState if its destination expires, and the document has  *)
(* the one of its last version.                                             *)
RecordedInv ==
    /\ \A i \in Op : Scheduled(op[i]) /\ LeavesSilently(op[i])
                        => op[i].expires = (ExpiryOf(op[i].dst) # {})
    /\ Len(index) > 1 /\ ExpiryOf(CurrentState) # {} =>
          (LeavesSilently(op[index[Len(index)].by]) => expireFrom = CurrentState)

LEMMA RecordedOps ==
    ASSUME Inv, SlotInv, WaysInv, RecordedInv, [Next]_vars, NEW j \in Op,
           Scheduled(op'[j]), LeavesSilently(op'[j])
    PROVE  op'[j].expires = (ExpiryOf(op'[j].dst) # {})
<1>1. Keep
  BY KeepNext
<1>2. \A i \in Op : Scheduled(op[i]) => Past(op[i])
  BY DEF Scheduled, Past
<1>3. CASE Carry
  <2>1. Scheduled(op[j]) /\ op'[j].expires = op[j].expires
    BY <1>3 DEF Carry, Carries
  <2>2. LeavesSilently(op[j]) /\ op'[j].dst = op[j].dst
    BY <1>1, <1>2, <2>1, SilenceKept DEF Keep, Keeps
  <2> QED BY <2>1, <2>2 DEF RecordedInv
<1>4. ASSUME NEW i \in Op, ScheduleExpiry(i)
      PROVE  op'[j].expires = (ExpiryOf(op'[j].dst) # {})
  <2>1. CASE j = i
    <3>1. Past(op[j])
      BY <1>4, <2>1 DEF ScheduleExpiry, ExitDone, Past
    <3>2. LeavesSilently(op[j])
      BY <1>1, <3>1, SilenceKept
    <3> QED BY <1>4, <2>1, <3>2, ScheduleEffect
  <2>2. CASE j # i
    <3>1. op'[j] = op[j]
      BY <1>4, <2>2, ScheduleEffect
    <3> QED BY <3>1 DEF RecordedInv
  <2> QED BY <2>1, <2>2
<1> QED BY <1>3, <1>4, CarryNext

LEMMA RecordedDocument ==
    ASSUME Inv, SlotInv, WaysInv, VersionInv, RecordedInv, [Next]_vars,
           Len(index') > 1, NEW s, s = CurrentState', ExpiryOf(s) # {},
           NEW by, by = index'[Len(index')].by, LeavesSilently(op'[by])
    PROVE  expireFrom' = s
<1>1. Keep
  BY KeepNext
<1>2. CASE index' = index /\ (expireFrom' = expireFrom \/ \E i \in Op : ScheduleExpiry(i))
  <2>1. Len(index) \in 2 .. Len(index) /\ Len(index) > 1
    BY <1>2 DEF Inv, TypeInv, TypeOK
  <2>2. by = index[Len(index)].by /\ by \in Op /\ Past(op[by]) /\ s = CurrentState
    BY <1>2, <2>1 DEF VersionInv, Inv, IndexInv, CurrentState
  <2>3. LeavesSilently(op[by])
    BY <1>1, <2>2, SilenceKept
  <2>4. expireFrom = s
    BY <2>1, <2>2, <2>3 DEF RecordedInv
  <2>5. expireFrom' = expireFrom
    BY <1>2, <2>2, <2>3, ScheduleEffect
  <2> QED BY <2>4, <2>5
<1>3. ASSUME NEW posted \in PostState, Create(posted) PROVE FALSE
  BY <1>3 DEF Create
<1>4. ASSUME NEW i \in Op, Store(i) PROVE expireFrom' = s
  <2>1. op[i].answer = "completed" /\ Past(op[i]) /\ WayInv(op[i])
        /\ expireFrom' = IF op[i].expires THEN op[i].dst ELSE expireFrom
    BY <1>4, CompletedPast DEF Store, WaysInv
  <2>2. s = op[i].dst /\ by = i
    BY <1>4, VersionAppended DEF CurrentState
  <2>3. LeavesSilently(op[i])
    BY <1>1, <2>1, <2>2, SilenceKept
  <2>4. Scheduled(op[i])
    BY <2>1, <2>3 DEF WayInv, Past, Scheduled, LeavesSilently, Silent, SilentSoFar
  <2>5. op[i].expires = (ExpiryOf(op[i].dst) # {})
    BY <2>3, <2>4, Zenon DEF RecordedInv
  <2> QED BY <2>1, <2>2, <2>5
<1> QED BY <1>2, <1>3, <1>4, IndexChanges

LEMMA RecordedNext ==
    ASSUME Inv, SlotInv, WaysInv, VersionInv, RecordedInv, [Next]_vars
    PROVE  RecordedInv'
<1>1. \A j \in Op : Scheduled(op'[j]) /\ LeavesSilently(op'[j])
                       => op'[j].expires = (ExpiryOf(op'[j].dst) # {})
  BY RecordedOps
<1>2. Len(index') > 1 /\ ExpiryOf(CurrentState') # {} =>
         (LeavesSilently(op'[index'[Len(index')].by]) => expireFrom' = CurrentState')
  <2>1. PICK s : s = CurrentState'
    OBVIOUS
  <2>2. PICK by : by = index'[Len(index')].by
    OBVIOUS
  <2>3. Len(index') > 1 /\ ExpiryOf(s) # {} /\ LeavesSilently(op'[by]) => expireFrom' = s
    BY <2>1, <2>2, RecordedDocument
  <2> QED BY <2>1, <2>2, <2>3
<1> QED BY <1>1, <1>2
        DEF RecordedInv, Scheduled, LeavesSilently, Silent, Completes, ExpiryOf

LEMMA RecordedInit == Init => RecordedInv
<1>1. Init => Len(index) = 0
  BY DEF Init
<1>2. Init => \A i \in Op : op[i].pc = "unsent"
  BY DEF Init, Unsent
<1> QED BY <1>1, <1>2 DEF RecordedInv, Scheduled

(* Whatever is configured, a document that was patched into an expiring     *)
(* state says so in expireFromState, after crashes and restarts too, unless *)
(* an exit action completed the patch: else the scheduler writes before the *)
(* version is stored, and nothing else writes over it.                      *)
THEOREM ExpiryIsRecordedCorrect == Spec => []ExpiryIsRecorded
<1> DEFINE All == Inv /\ SlotInv /\ WaysInv /\ VersionInv /\ RecordedInv
<1>1. All => ExpiryIsRecorded
  BY DEF RecordedInv, ExpiryIsRecorded, LeavesSilently, Silent, Completes,
         ExitCompletes, CompletedBy, Runs
<1>2. Init => All
  BY InvInit, SlotInit, WaysInit, VersionInit, RecordedInit
<1>3. All /\ [Next]_vars => All'
  BY InvNext, SlotNext, CarryNext, VersionNext, RecordedNext
<1> QED BY <1>1, <1>2, <1>3, PTL DEF Spec

-----------------------------------------------------------------------------
(* What the scheduler armed                                                 *)

(* the expiry trigger of a state that patch by entered has its timer, lost  *)
(* it, or was sent *)
Pending(t, state, by) ==
    \/ Armed(t, state, by, FALSE) \/ Armed(t, state, by, TRUE)
    \/ \E j \in Op : /\ op[j].pc # "unsent"
                     /\ op[j].origin = "expiry"
                     /\ op[j].armedBy = by
                     /\ op[j].trigger = t

PendingInv ==
    \A i \in Op : Scheduled(op[i]) =>
        \A t \in ExpiryOf(op[i].dst) : Pending(t, op[i].dst, i)

(* what a timer becomes when it sends its patch *)
LEMMA ExpiryIsSent ==
    ASSUME Inv, NEW t \in timers, ExpiryPatch(t)
    PROVE  /\ sent + 1 \in Op
           /\ op'[sent + 1].pc # "unsent"
           /\ op'[sent + 1].origin = "expiry"
           /\ op'[sent + 1].armedBy = t.by
           /\ op'[sent + 1].trigger = t.trigger
           /\ op'[sent + 1].state = t.state
           /\ \A j \in Op : j # sent + 1 => op'[j] = op[j]
<1> DEFINE r == [Unsent EXCEPT !.origin = "expiry", !.state = t.state,
                               !.trigger = t.trigger, !.armedBy = t.by,
                               !.pc = "queued"]
<1>1. sent + 1 \in Op /\ Update(sent + 1, r)
  BY BoundAssumption DEF ExpiryPatch, Send, Inv, TypeInv, TypeOK, Op
<1>2. op'[sent + 1] = r /\ \A j \in Op : j # sent + 1 => op'[j] = op[j]
  BY <1>1, UpdateEffect
<1> QED BY <1>1, <1>2 DEF Unsent

(* the actions that change the timers *)
LEMMA TimerChanges ==
    ASSUME [Next]_vars
    PROVE  \/ timers \subseteq timers' \/ Crash
           \/ \E t \in timers : ExpiryPatch(t) \/ ExpiryLost(t)
BY DEF Next, vars, Create, Restart, RestartRejected, ClientPatch, Dequeue, RejectPatch,
       BeginPatch, Fail, Handle, ValidateTrigger, RefuseTrigger, Transit, TransitFails,
       ExitAction, EntryAction, Perform, Throws, DanglingDestination, Finish, Store,
       Reply, FlipGuard, ScheduleExpiry

(* A timer that is removed leaves a patch or its mark, unless the host dies. *)
LEMMA PendingKept ==
    ASSUME Inv, SlotInv, WaysInv, [Next]_vars, ~ Crash,
           NEW t, NEW state, NEW by, Pending(t, state, by)
    PROVE  Pending(t, state, by)'
<1> DEFINE timer(lost) == [trigger |-> t, state |-> state, by |-> by, lost |-> lost]
           SentNow == \E j \in Op : /\ op'[j].pc # "unsent"
                                    /\ op'[j].origin = "expiry"
                                    /\ op'[j].armedBy = by
                                    /\ op'[j].trigger = t
<1>1. CASE \E j \in Op : /\ op[j].pc # "unsent"
                         /\ op[j].origin = "expiry"
                         /\ op[j].armedBy = by
                         /\ op[j].trigger = t
  <2>1. SentNow
    BY <1>1, KeepNext DEF Keep, Keeps
  <2> QED BY <2>1 DEF Pending
<1>2. CASE timer(TRUE) \in timers
  <2>1. ASSUME NEW u \in timers, u.lost = TRUE PROVE u \in timers'
    BY <2>1, TimerChanges DEF ExpiryPatch, ExpiryLost
  <2>2. timer(TRUE) \in timers'
    <3>1. timer(TRUE).lost = TRUE
      OBVIOUS
    <3> QED BY <1>2, <2>1, <3>1
  <2> QED BY <2>2 DEF Pending, Armed
<1>3. CASE timer(FALSE) \in timers
  <2>1. ASSUME ExpiryPatch(timer(FALSE)) PROVE SentNow
    BY <1>3, <2>1, ExpiryIsSent
  <2>2. ASSUME ExpiryLost(timer(FALSE)) PROVE timer(TRUE) \in timers'
    <3>1. ASSUME NEW u \in Timer
          PROVE  [u EXCEPT !.lost = TRUE] =
                    [trigger |-> u.trigger, state |-> u.state, by |-> u.by, lost |-> TRUE]
      <4> DEFINE v == [u EXCEPT !.lost = TRUE]
      <4>1. /\ v = [f \in {"trigger", "state", "by", "lost"} |-> v[f]]
            /\ v.trigger = u.trigger /\ v.state = u.state /\ v.by = u.by /\ v.lost = TRUE
        BY DEF Timer
      <4> HIDE DEF v
      <4>2. v = [trigger |-> v.trigger, state |-> v.state, by |-> v.by, lost |-> v.lost]
        BY <4>1
      <4>3. v = [trigger |-> u.trigger, state |-> u.state, by |-> u.by, lost |-> TRUE]
        BY <4>1, <4>2
      <4> QED BY <4>3 DEF v
    <3>2. [timer(FALSE) EXCEPT !.lost = TRUE] = timer(TRUE)
      BY <1>3, <3>1 DEF Inv, TypeInv, TypeOK
    <3> HIDE DEF timer
    <3> QED BY <2>2, <3>2 DEF ExpiryLost
  <2>3. timer(FALSE) \in timers' \/ ExpiryPatch(timer(FALSE)) \/ ExpiryLost(timer(FALSE))
    <3> HIDE DEF timer
    <3> QED BY <1>3, TimerChanges DEF ExpiryPatch, ExpiryLost
  <2> QED BY <2>1, <2>2, <2>3 DEF Pending, Armed
<1> QED BY <1>1, <1>2, <1>3 DEF Pending, Armed

LEMMA PendingNext ==
    ASSUME Inv, SlotInv, WaysInv, PendingInv, [Next]_vars
    PROVE  PendingInv'
<1>1. ASSUME NEW i \in Op, Scheduled(op'[i]), NEW s, s = op'[i].dst, NEW t \in ExpiryOf(s)
      PROVE  Pending(t, s, i)'
  <2>1. ~ Crash
    <3>1. ASSUME Crash PROVE ~ Scheduled(op'[i])
      <4>1. op[i] \in OpRecord
        BY DEF Inv, TypeInv, TypeOK
      <4>2. op'[i].pc \in {"unsent", "dead"}
        BY <3>1, <4>1 DEF Crash, OpRecord
      <4> QED BY <4>2 DEF Scheduled
    <3> QED BY <1>1, <3>1
  <2>2. CASE Carry
    <3>1. Scheduled(op[i]) /\ op[i].dst = s
      BY <1>1, <2>2 DEF Carry, Carries, Keeps, Scheduled, Past
    <3>2. Pending(t, s, i)
      BY <1>1, <3>1 DEF PendingInv
    <3> QED BY <2>1, <3>2, PendingKept
  <2>3. ASSUME NEW k \in Op, ScheduleExpiry(k) PROVE Pending(t, s, i)'
    <3>1. CASE i = k
      <4>1. [trigger |-> t, state |-> s, by |-> i, lost |-> FALSE] \in timers'
        BY <1>1, <2>3, <3>1, ScheduleEffect
      <4> QED BY <4>1 DEF Pending, Armed
    <3>2. CASE i # k
      <4>1. op'[i] = op[i]
        BY <2>3, <3>2, ScheduleEffect
      <4>2. Pending(t, s, i)
        BY <1>1, <4>1 DEF PendingInv
      <4> QED BY <2>1, <4>2, PendingKept
    <3> QED BY <3>1, <3>2
  <2> QED BY <2>2, <2>3, CarryNext
<1> QED BY <1>1 DEF PendingInv, Scheduled, LeavesSilently, Silent, Completes, ExpiryOf

LEMMA PendingInit == Init => PendingInv
BY DEF Init, PendingInv, Scheduled, Unsent

(* Whatever is configured, whatever clients post and patch, and whatever    *)
(* crashes and fails: while a document rests, each expiry trigger of its    *)
(* state is armed or was sent, or is missing for one of the four reasons.   *)
(* None is forgotten, armed for another state, or lost on the way otherwise. *)
THEOREM ExpiryMissingForAReasonCorrect == Spec => []ExpiryMissingForAReason
<1> DEFINE All == Inv /\ SlotInv /\ WaysInv /\ VersionInv /\ PendingInv
<1>1. All => ExpiryMissingForAReason
  <2> SUFFICES ASSUME All, Quiet, NEW rest, rest = index[Len(index)],
                      rest.by # 0, op[rest.by].pc # "dead",
                      ~ (op[rest.by].pc = "failed" /\ ExitCompletes(rest.by)),
                      NEW t \in ExpiryOf(rest.state)
               PROVE  \/ Armed(t, rest.state, rest.by, FALSE) \/ Sent(t, rest.by)
                      \/ Armed(t, rest.state, rest.by, TRUE)
    BY DEF ExpiryMissingForAReason
  <2> DEFINE by == rest.by
  <2>1. Len(index) \in Nat \ {0} /\ index # << >>
    BY CurrentStateIsState DEF Inv, TypeInv, Quiet
  <2>2. Len(index) \in 2 .. Len(index)
    BY <2>1 DEF VersionInv
  <2>3. /\ by \in Op /\ op[by].dst = rest.state /\ Past(op[by]) /\ WayInv(op[by])
        /\ op[by].answer \in {"stored", "ok", "lost"}
    BY <2>2 DEF VersionInv, Inv, IndexInv, WaysInv
  <2>4. op[by].pc \in {"done", "failed"}
    BY <2>3 DEF Quiet, Running, Past
  <2>5. LeavesSilently(op[by]) \/ ExitCompletes(by)
    BY DEF LeavesSilently, Silent, Completes, ExitCompletes, CompletedBy, Runs
  <2>6. Scheduled(op[by])
    BY <2>3, <2>4, <2>5 DEF Scheduled
  <2>7. Pending(t, rest.state, by)
    BY <2>3, <2>6 DEF PendingInv
  <2> QED BY <2>7 DEF Pending, Sent
<1>2. Init => All
  BY InvInit, SlotInit, WaysInit, VersionInit, PendingInit
<1>3. All /\ [Next]_vars => All'
  BY InvNext, SlotNext, CarryNext, VersionNext, PendingNext
<1> QED BY <1>1, <1>2, <1>3, PTL DEF Spec
=============================================================================
