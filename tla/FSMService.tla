----------------------------- MODULE FSMService -----------------------------
(***************************************************************************)
(* One document of a stateful service that extends FSMService: its         *)
(* creation, the patches that drive its state machine, its expiry timers,  *)
(* and crashes and restarts of the host it lives on.                       *)
(*                                                                         *)
(* A patch is an element of Op.  The platform (Xenon) gives the update     *)
(* slot of the document to one patch at a time and keeps it until that     *)
(* patch is completed or failed; the handler of the patch goes on running  *)
(* after it called complete(), beside the handler of the next patch.       *)
(***************************************************************************)
EXTENDS StateMachineConfig, FiniteSets

CONSTANTS
    Config,          \* what stateMachineConfig() returns
    InitState,       \* its initial state
    InitialTrigger,  \* what initialTrigger() returns, None for empty
    Accepted,        \* states of a body that validateStartPost() accepts
    PostState,       \* states of the bodies clients post, None for no state
    PatchBody,       \* <<state, trigger>> of the bodies clients patch
    GetsFail,        \* whether the GET of an expiry timer may fail
    MaxOps,          \* bound: patches of all origins
    MaxClientOps,    \* bound: patches of clients
    MaxCrashes       \* bound: crashes of the host

Op == 1 .. MaxOps

StateOrNull == State \cup {None}
TriggerOrNull == Trigger \cup {None}

ASSUME ConfigAssumption ==
    /\ IsConfiguration(Config)
    /\ InitState \in State
    /\ InitialTrigger \in TriggerOrNull

ASSUME InputAssumption ==
    /\ Accepted \subseteq StateOrNull
    /\ PostState \subseteq StateOrNull
    /\ PatchBody \subseteq StateOrNull \X TriggerOrNull
    /\ GetsFail \in BOOLEAN

ASSUME BoundAssumption ==
    /\ MaxOps \in Nat \ {0}
    /\ MaxClientOps \in Nat
    /\ MaxCrashes \in Nat

VARIABLES
    svc,         \* the service on its host
    index,       \* versions of the document in the index, oldest first
    expireFrom,  \* expireFromState of the current document
    op,          \* the patches, those not sent yet included
    sent,        \* number of patches sent
    busy,        \* the patch that holds the update slot, 0 if it is free
    timers,      \* expiry tasks, until the GET each sends is answered with
                 \* success, or the host crashes
    open,        \* guards that are true now
    crashes      \* number of crashes

vars == <<svc, index, expireFrom, op, sent, busy, timers, open, crashes>>

(* Progress of a patch: waiting in the update queue; in one of the steps of *)
(* fireTrigger; returned; thrown or refused; or gone with its host.         *)
PC == {"unsent", "queued", "validate", "transit", "exit", "entry",
       "done", "failed", "dead"}

(* What became of the operation: complete() was called, the new version was *)
(* stored, the client was told; or it failed; or nobody will ever answer.   *)
Answer == {"none", "completed", "stored", "ok", "error", "lost"}

OpRecord == [origin  : {"none", "client", "initial", "expiry"},
             state   : StateOrNull,       \* body.state
             trigger : TriggerOrNull,     \* body.trigger
             armedBy : Nat,               \* the patch that armed the timer
             pc      : PC,
             step    : Nat,               \* next action of the current list
             src     : StateOrNull,       \* Transition
             dst     : StateOrNull,
             expires : BOOLEAN,           \* expireFromState written in time
             answer  : Answer]

Unsent == [origin |-> "none", state |-> None, trigger |-> None, armedBy |-> 0,
           pc |-> "unsent", step |-> 0, src |-> None, dst |-> None,
           expires |-> FALSE, answer |-> "none"]

Version == [state : State, trigger : TriggerOrNull, by : Nat]

(* lost marks a timer that is gone: its GET failed.  It is kept to tell why *)
(* no patch came of it, and nothing happens to it any more.                 *)
Timer == [trigger : Trigger, state : State, by : Nat, lost : BOOLEAN]

CurrentState == index[Len(index)].state

Init ==
    /\ svc = "absent"
    /\ index = << >>
    /\ expireFrom = None
    /\ op = [i \in Op |-> Unsent]
    /\ sent = 0
    /\ busy = 0
    /\ timers = {}
    /\ open \in SUBSET Guard
    /\ crashes = 0

Update(i, record) == op' = [op EXCEPT ![i] = record]

(* A patch reaches the update queue of the document. *)
Send(origin, state, trigger, armedBy) ==
    /\ sent < MaxOps
    /\ sent' = sent + 1
    /\ Update(sent + 1, [Unsent EXCEPT !.origin = origin, !.state = state,
                                       !.trigger = trigger, !.armedBy = armedBy,
                                       !.pc = "queued"])

-----------------------------------------------------------------------------
(* handleStart: on creation, and again each time the host restarts          *)

(* The self-patch of the initial trigger, which names the initial state.    *)
SelfPatchIfInitial(state) ==
    IF state = InitState /\ InitialTrigger # None
    THEN Send("initial", InitState, InitialTrigger, 0)
    ELSE UNCHANGED <<op, sent>>

(* Faulty variant of Create: a body without state is stored as it is. *)
CreateWithoutDefault(posted) ==
    /\ svc = "absent"
    /\ posted \in PostState \cap Accepted
    /\ index' = <<[state |-> posted, trigger |-> None, by |-> 0]>>
    /\ svc' = "available"
    /\ SelfPatchIfInitial(posted)
    /\ UNCHANGED <<expireFrom, busy, timers, open, crashes>>

(* POST with a body that validateStartPost accepts.  The self-patch sets    *)
(* the trigger of the body after complete() handed it over to be stored:    *)
(* the first version has it or not.  A rejected body leaves no document.    *)
Create(posted) ==
    LET state == IF posted = None THEN InitState ELSE posted
        written == IF state = InitState THEN {None, InitialTrigger} ELSE {None}
    IN  /\ svc = "absent"
        /\ posted \in PostState \cap Accepted
        /\ \E trigger \in written :
              index' = <<[state |-> state, trigger |-> trigger, by |-> 0]>>
        /\ svc' = "available"
        /\ SelfPatchIfInitial(state)
        /\ UNCHANGED <<expireFrom, busy, timers, open, crashes>>

(* The host dies: the queue, the running handlers and the timers are memory *)
(* of its process, only the index survives.                                 *)
Crash ==
    /\ svc = "available"
    /\ crashes < MaxCrashes
    /\ crashes' = crashes + 1
    /\ svc' = "down"
    /\ op' = [i \in Op |->
                IF op[i].pc = "unsent" THEN op[i]
                ELSE [op[i] EXCEPT
                        !.pc = "dead",
                        !.answer = IF @ \in {"ok", "error"} THEN @ ELSE "lost"]]
    /\ busy' = 0
    /\ timers' = {}
    /\ UNCHANGED <<index, expireFrom, sent, open>>

(* Faulty variant of Restart: the state is initialised on every start. *)
RestartFromInit ==
    /\ svc = "down"
    /\ CurrentState \in Accepted
    /\ svc' = "available"
    /\ index' = [index EXCEPT ![Len(index)].state = InitState]
    /\ SelfPatchIfInitial(InitState)
    /\ UNCHANGED <<expireFrom, busy, timers, open, crashes>>

(* The stored document goes through handleStart as a posted one does.       *)
Restart ==
    /\ svc = "down"
    /\ CurrentState \in Accepted
    /\ svc' = "available"
    /\ SelfPatchIfInitial(CurrentState)
    /\ UNCHANGED <<index, expireFrom, busy, timers, open, crashes>>

RestartRejected ==
    /\ svc = "down"
    /\ CurrentState \notin Accepted
    /\ svc' = "rejected"
    /\ UNCHANGED <<index, expireFrom, op, sent, busy, timers, open, crashes>>

-----------------------------------------------------------------------------
(* handlePatch                                                              *)

ClientPatch(body) ==
    /\ svc = "available"
    /\ Cardinality({i \in Op : op[i].origin = "client"}) < MaxClientOps
    /\ Send("client", body[1], body[2], 0)
    /\ UNCHANGED <<svc, index, expireFrom, busy, timers, open, crashes>>

(* Faulty variants of Fail: an operation that was completed is failed too;  *)
(* the slot is not freed.                                                   *)
FailCompleted(i) ==
    /\ Update(i, [op[i] EXCEPT !.pc = "failed", !.answer = "error"])
    /\ busy' = IF op[i].answer = "none" THEN 0 ELSE busy
    /\ UNCHANGED <<svc, index, expireFrom, sent, timers, open, crashes>>
FailKeepsSlot(i) ==
    /\ Update(i, [op[i] EXCEPT !.pc = "failed",
                               !.answer = IF @ = "none" THEN "error" ELSE @])
    /\ UNCHANGED <<svc, index, expireFrom, sent, busy, timers, open, crashes>>

(* op.fail(), called by the handler or by the platform that caught an       *)
(* exception of it.  It answers the patch and frees the slot unless the     *)
(* patch was completed before; in any case the handler runs no further.     *)
Fail(i) ==
    /\ Update(i, [op[i] EXCEPT !.pc = "failed",
                               !.answer = IF @ = "none" THEN "error" ELSE @])
    /\ busy' = IF op[i].answer = "none" THEN 0 ELSE busy
    /\ UNCHANGED <<svc, index, expireFrom, sent, timers, open, crashes>>

(* Faulty variant of Dequeues: two patches may be in their handlers. *)
DequeuesConcurrently(i) == svc = "available" /\ op[i].pc = "queued"

(* The platform gives the slot to a waiting patch; the requests come from   *)
(* many threads and hosts, so any of them may be the next.                  *)
Dequeues(i) ==
    /\ svc = "available"
    /\ busy = 0
    /\ op[i].pc = "queued"

IsValid(i) ==
    /\ op[i].trigger # None
    /\ op[i].state \in {None, CurrentState}

RejectPatch(i) ==
    /\ Dequeues(i)
    /\ ~ IsValid(i)
    /\ Fail(i)

BeginPatch(i) ==
    /\ Dequeues(i)
    /\ IsValid(i)
    /\ busy' = i
    /\ Update(i, [op[i] EXCEPT !.pc = "validate", !.src = CurrentState])
    /\ UNCHANGED <<svc, index, expireFrom, sent, timers, open, crashes>>

-----------------------------------------------------------------------------
(* StateMachine.fireTrigger.  The behaviour of the trigger is looked up     *)
(* twice, and its guards are evaluated each time.                           *)

Permitted(i) ==
    /\ op[i].src \in DOMAIN Config
    /\ CanHandle(Config[op[i].src], op[i].trigger, open)

ValidateTrigger(i) ==
    /\ op[i].pc = "validate"
    /\ Permitted(i)
    /\ Update(i, [op[i] EXCEPT !.pc = "transit"])
    /\ UNCHANGED <<svc, index, expireFrom, sent, busy, timers, open, crashes>>

(* Faulty variant of RefuseTrigger: the operation is not failed. *)
RefuseSilently(i) ==
    /\ op[i].pc = "validate"
    /\ ~ Permitted(i)
    /\ Update(i, [op[i] EXCEPT !.pc = "done"])
    /\ UNCHANGED <<svc, index, expireFrom, sent, busy, timers, open, crashes>>

(* no behaviour: the patch is failed; an unconfigured state or ambiguous    *)
(* behaviours: an exception                                                 *)
RefuseTrigger(i) ==
    /\ op[i].pc = "validate"
    /\ ~ Permitted(i)
    /\ Fail(i)

(* Faulty variant of Transit: the patch is completed before the actions. *)
TransitAndComplete(i) ==
    /\ op[i].pc = "transit"
    /\ Permitted(i)
    /\ \E k \in Actual(Config[op[i].src], op[i].trigger, open) :
          Update(i, [op[i] EXCEPT !.pc = "exit", !.step = 1,
                                  !.answer = "completed",
                                  !.dst = Config[op[i].src].behaviours[k].destination])
    /\ UNCHANGED <<svc, index, expireFrom, sent, busy, timers, open, crashes>>

(* transit, and statePopulator on its result *)
Transit(i) ==
    /\ op[i].pc = "transit"
    /\ Permitted(i)
    /\ \E k \in Actual(Config[op[i].src], op[i].trigger, open) :
          Update(i, [op[i] EXCEPT !.pc = "exit", !.step = 1,
                                  !.dst = Config[op[i].src].behaviours[k].destination])
    /\ UNCHANGED <<svc, index, expireFrom, sent, busy, timers, open, crashes>>

(* a guard changed since the trigger was validated *)
TransitFails(i) ==
    /\ op[i].pc = "transit"
    /\ ~ Permitted(i)
    /\ Fail(i)

-----------------------------------------------------------------------------
(* Exit and entry actions, one at a time                                    *)

Runs(action, i) == action.on \in {None, op[i].trigger}

(* the next action of the list returns *)
Perform(i, actions) ==
    /\ op[i].step \in DOMAIN actions
    /\ LET action == actions[op[i].step]
           completes == action.does = "complete" /\ Runs(action, i)
       IN  Update(i, [op[i] EXCEPT !.step = @ + 1,
                                   !.answer = IF completes /\ @ = "none"
                                              THEN "completed" ELSE @])
    /\ UNCHANGED <<svc, index, expireFrom, sent, busy, timers, open, crashes>>

(* the next action of the list throws *)
Throws(i, actions) ==
    /\ op[i].step \in DOMAIN actions
    /\ actions[op[i].step].does = "risky"
    /\ Runs(actions[op[i].step], i)
    /\ Fail(i)

ExitAction(i) ==
    /\ op[i].pc = "exit"
    /\ \/ Perform(i, Config[op[i].src].exit)
       \/ Throws(i, Config[op[i].src].exit)

EntryAction(i) ==
    /\ op[i].pc = "entry"
    /\ \/ Perform(i, Config[op[i].dst].entry)
       \/ Throws(i, Config[op[i].dst].entry)

ExitDone(i) ==
    /\ op[i].pc = "exit"
    /\ op[i].step \notin DOMAIN Config[op[i].src].exit

(* Faulty variants of ScheduleExpiry: the timers of the source are armed;   *)
(* the timers of the destination patch the source.                          *)
ScheduleExpiryOfSource(i) ==
    /\ ExitDone(i)
    /\ op[i].dst \in DOMAIN Config
    /\ Update(i, [op[i] EXCEPT !.pc = "entry", !.step = 1])
    /\ timers' = timers \cup {[trigger |-> t, state |-> op[i].src, by |-> i, lost |-> FALSE] :
                                 t \in Config[op[i].src].expiry}
    /\ UNCHANGED <<svc, index, expireFrom, sent, busy, open, crashes>>
ScheduleExpiryFromSource(i) ==
    /\ ExitDone(i)
    /\ op[i].dst \in DOMAIN Config
    /\ Update(i, [op[i] EXCEPT !.pc = "entry", !.step = 1])
    /\ timers' = timers \cup {[trigger |-> t, state |-> op[i].src, by |-> i, lost |-> FALSE] :
                                 t \in Config[op[i].dst].expiry}
    /\ UNCHANGED <<svc, index, expireFrom, sent, busy, open, crashes>>

(* Arms one timer for each expiry trigger of the destination and records    *)
(* the state in the document.  When the patch was completed before, the     *)
(* document is being stored, or is already, by another thread: the record   *)
(* reaches the current document or is lost.                                 *)
ScheduleExpiry(i) ==
    LET dst == op[i].dst
        stored == op[i].answer \in {"stored", "ok"}
    IN  /\ ExitDone(i)
        /\ dst \in DOMAIN Config
        /\ \E written \in BOOLEAN :
              /\ op[i].answer = "none" => written
              /\ Update(i, [op[i] EXCEPT !.pc = "entry", !.step = 1,
                                         !.expires = written /\ Config[dst].expiry # {}])
              /\ expireFrom' = IF /\ written /\ Config[dst].expiry # {}
                                  /\ stored /\ index[Len(index)].by = i
                               THEN dst ELSE expireFrom
        /\ timers' = timers \cup
              {[trigger |-> t, state |-> dst, by |-> i, lost |-> FALSE] :
                  t \in Config[dst].expiry}
        /\ UNCHANGED <<svc, index, sent, busy, open, crashes>>

(* getRepresentation(destination) is null *)
DanglingDestination(i) ==
    /\ ExitDone(i)
    /\ op[i].dst \notin DOMAIN Config
    /\ Fail(i)

(* The handler returns.  If no action completed the patch, it keeps the     *)
(* update slot and is never answered.                                       *)
Finish(i) ==
    /\ op[i].pc = "entry"
    /\ op[i].step \notin DOMAIN Config[op[i].dst].entry
    /\ Update(i, [op[i] EXCEPT !.pc = "done"])
    /\ UNCHANGED <<svc, index, expireFrom, sent, busy, timers, open, crashes>>

-----------------------------------------------------------------------------
(* Completion of a patch, by the platform                                   *)

(* Faulty variant of Store: what the scheduler wrote is not stored. *)
StoreWithoutExpiry(i) ==
    /\ op[i].answer = "completed"
    /\ Update(i, [op[i] EXCEPT !.answer = "stored"])
    /\ index' = Append(index, [state |-> op[i].dst, trigger |-> op[i].trigger,
                               by |-> i])
    /\ UNCHANGED <<svc, expireFrom, sent, busy, timers, open, crashes>>

(* complete() was called: the document the handler wrote becomes the next   *)
(* version.                                                                 *)
Store(i) ==
    /\ op[i].answer = "completed"
    /\ Update(i, [op[i] EXCEPT !.answer = "stored"])
    /\ index' = Append(index, [state |-> op[i].dst, trigger |-> op[i].trigger,
                               by |-> i])
    /\ expireFrom' = IF op[i].expires THEN op[i].dst ELSE expireFrom
    /\ UNCHANGED <<svc, sent, busy, timers, open, crashes>>

(* The version is durable: the sender is told and the slot is free.         *)
Reply(i) ==
    /\ op[i].answer = "stored"
    /\ Update(i, [op[i] EXCEPT !.answer = "ok"])
    /\ busy' = 0
    /\ UNCHANGED <<svc, index, expireFrom, sent, timers, open, crashes>>

-----------------------------------------------------------------------------
(* ExpiryScheduler.  A timer runs out at any time: delays are arbitrary     *)
(* and so is the wait for the GET that follows, whose result is used for    *)
(* nothing that the state machine looks at.                                 *)

(* Faulty variant of ExpiryPatch: the patch does not name the state. *)
ExpiryPatchOfAnyState(t) ==
    /\ t \in timers /\ ~ t.lost
    /\ timers' = timers \ {t}
    /\ Send("expiry", None, t.trigger, t.by)
    /\ UNCHANGED <<svc, index, expireFrom, busy, open, crashes>>

(* the patch names the state the timer was armed for *)
ExpiryPatch(t) ==
    /\ t \in timers /\ ~ t.lost
    /\ timers' = timers \ {t}
    /\ Send("expiry", t.state, t.trigger, t.by)
    /\ UNCHANGED <<svc, index, expireFrom, busy, open, crashes>>

(* the GET failed and its completion found no body: no patch, no retry *)
ExpiryLost(t) ==
    /\ GetsFail
    /\ t \in timers /\ ~ t.lost
    /\ timers' = (timers \ {t}) \cup {[t EXCEPT !.lost = TRUE]}
    /\ UNCHANGED <<svc, index, expireFrom, op, sent, busy, open, crashes>>

-----------------------------------------------------------------------------
(* What the guards read changes.                                            *)
FlipGuard(g) ==
    /\ open' = IF g \in open THEN open \ {g} ELSE open \cup {g}
    /\ UNCHANGED <<svc, index, expireFrom, op, sent, busy, timers, crashes>>

Dequeue(i) == RejectPatch(i) \/ BeginPatch(i)

(* the steps of the thread that runs the handler of a patch *)
Handle(i) ==
    \/ ValidateTrigger(i) \/ RefuseTrigger(i)
    \/ Transit(i) \/ TransitFails(i)
    \/ ExitAction(i)
    \/ ScheduleExpiry(i) \/ DanglingDestination(i)
    \/ EntryAction(i)
    \/ Finish(i)

Next ==
    \/ \E posted \in PostState : Create(posted)
    \/ Crash \/ Restart \/ RestartRejected
    \/ \E body \in PatchBody : ClientPatch(body)
    \/ \E i \in Op : Dequeue(i) \/ Handle(i) \/ Store(i) \/ Reply(i)
    \/ \E t \in timers : ExpiryPatch(t) \/ ExpiryLost(t)
    \/ \E g \in Guard : FlipGuard(g)

Spec == Init /\ [][Next]_vars

(* While patches wait, handlers run or completed patches are not answered,  *)
(* some thread of the host makes progress, and so does its scheduled        *)
(* executor.  Nothing makes a client send, a guard change or a host crash,  *)
(* nor is a host that went down restarted.                                  *)
Fairness ==
    /\ WF_vars(\E i \in Op : Dequeue(i) \/ Handle(i) \/ Store(i) \/ Reply(i))
    /\ WF_vars(\E t \in timers : ExpiryPatch(t))

FairSpec == Spec /\ Fairness

-----------------------------------------------------------------------------
(* Types of the variables.                                                  *)
TypeOK ==
    /\ svc \in {"absent", "available", "down", "rejected"}
    /\ index \in Seq(Version)
    /\ expireFrom \in StateOrNull
    /\ op \in [Op -> OpRecord]
    /\ sent \in 0 .. MaxOps
    /\ busy \in Op \cup {0}
    /\ timers \subseteq Timer
    /\ open \subseteq Guard
    /\ crashes \in 0 .. MaxCrashes

ExpiryOf(state) == IF state \in DOMAIN Config THEN Config[state].expiry ELSE {}

(* The graph drawn from the versions of a document is part of the graph     *)
(* drawn from its configuration: whatever patches, timers, guard changes    *)
(* and restarts do, no two consecutive versions are joined by a transition  *)
(* nobody configured, and no update is lost between them.                   *)
DocGraphInSvcGraph == DocGraph(index) \subseteq SvcGraph(Config)

(* A client's patch that names a state changes the document only from that  *)
(* state.  An expiry changes it only from the state that was entered when   *)
(* its timer was armed, by a trigger configured to expire that state:       *)
(* however late it comes, and whatever the state the document is in         *)
(* meanwhile would do with the same trigger, it expires no other one.       *)
ConditionalPatch ==
    \A k \in 2 .. Len(index) :
        LET patch == op[index[k].by]
            left == index[k - 1].state
        IN  /\ patch.state \in {None, left}
            /\ patch.trigger = index[k].trigger
            /\ patch.origin = "expiry" =>
                  left = op[patch.armedBy].dst /\ patch.trigger \in ExpiryOf(left)

(* A patch makes at most one version; one that is answered with success     *)
(* made it, and one that is answered with an error made none, whichever     *)
(* step failed and however late: a sender that retries on an error never    *)
(* fires a trigger twice.  A patch lost in a crash may have made one.       *)
AnswersMatchIndex ==
    /\ \A j, k \in 2 .. Len(index) : index[j].by = index[k].by => j = k
    /\ \A i \in Op :
          LET applied == \E k \in 2 .. Len(index) : index[k].by = i IN
          /\ op[i].answer \in {"stored", "ok"} => applied
          /\ op[i].answer \in {"none", "completed", "error"} => ~ applied

(* Patch i is completed by an action of a list when that runs; by one of    *)
(* the exit actions of the state it leaves, so before its timers are armed; *)
(* or by some action on its path.                                           *)
CompletedBy(i, action) == action.does = "complete" /\ Runs(action, i)
ExitCompletes(i) ==
    \E k \in DOMAIN Config[op[i].src].exit : CompletedBy(i, Config[op[i].src].exit[k])
PathCompletes(i) ==
    \/ ExitCompletes(i)
    \/ \E k \in DOMAIN Config[op[i].dst].entry :
          CompletedBy(i, Config[op[i].dst].entry[k])

Running(i) == op[i].pc \in {"validate", "transit", "exit", "entry"}

(* The slot is held by a patch that is running or being stored; a patch     *)
(* whose handler is over keeps it for one reason only, that none of the     *)
(* actions configured on its path completes the operation.                  *)
SlotHeldForAReason ==
    busy # 0 =>
        \/ Running(busy)
        \/ op[busy].answer \in {"completed", "stored"}
        \/ op[busy].pc = "done" /\ ~ PathCompletes(busy)

(* Patch i may still run an action, although one that ran completed it.     *)
Acts(i) ==
    \/ op[i].pc = "exit"
    \/ op[i].pc = "entry" /\ op[i].step \in DOMAIN Config[op[i].dst].entry
CompletedOnTheWay(i) ==
    LET ran(actions) == {k \in DOMAIN actions : k < op[i].step} IN
    \/ /\ op[i].pc = "exit"
       /\ \E k \in ran(Config[op[i].src].exit) : CompletedBy(i, Config[op[i].src].exit[k])
    \/ /\ op[i].pc = "entry"
       /\ \/ ExitCompletes(i)
          \/ \E k \in ran(Config[op[i].dst].entry) :
                CompletedBy(i, Config[op[i].dst].entry[k])

(* The actions of two transitions run at the same time for one reason only, *)
(* that an action configured before others completed one of the patches;    *)
(* and that one is answered, so what the other transition starts from is    *)
(* stored.                                                                  *)
HandlersOverlapForAReason ==
    \A i, j \in Op : Acts(i) /\ Acts(j) /\ i # j =>
        \E first \in {i, j} : op[first].answer = "ok" /\ CompletedOnTheWay(first)

(* nothing runs and nothing holds the document *)
Quiet == svc = "available" /\ busy = 0 /\ \A i \in Op : ~ Running(i)

(* The timer patch "by" armed for this trigger in this state is armed or    *)
(* lost its GET, or its patch was sent.                                     *)
Armed(trigger, state, by, lost) ==
    [trigger |-> trigger, state |-> state, by |-> by, lost |-> lost] \in timers
Sent(trigger, by) ==
    \E i \in Op : /\ op[i].origin = "expiry"
                  /\ op[i].armedBy = by
                  /\ op[i].trigger = trigger

(* Each expiry trigger of the state a document rests in is going to be      *)
(* patched, or has been.  (Of a configuration that completes in the last    *)
(* entry action, without crashes, failed GETs and documents created in an   *)
(* expiring state: the reasons below.)                                      *)
ExpiryIsPending ==
    Quiet =>
        LET rest == index[Len(index)] IN
        \A t \in ExpiryOf(rest.state) :
            Armed(t, rest.state, rest.by, FALSE) \/ Sent(t, rest.by)

(* Whatever is configured and goes wrong, an expiry trigger of the state a  *)
(* document rests in is neither armed nor sent for one of four reasons: the *)
(* document was created in the state, the host died since it was entered,   *)
(* the GET of the timer failed, or the patch was completed by an exit       *)
(* action and failed before it armed the timer.                             *)
ExpiryMissingForAReason ==
    Quiet =>
        LET rest == index[Len(index)] IN
        \A t \in ExpiryOf(rest.state) :
            \/ Armed(t, rest.state, rest.by, FALSE) \/ Sent(t, rest.by)
            \/ rest.by = 0
            \/ op[rest.by].pc = "dead"
            \/ Armed(t, rest.state, rest.by, TRUE)
            \/ op[rest.by].pc = "failed" /\ ExitCompletes(rest.by)

(* A document in an expiring state that a patch brought it into says so in  *)
(* expireFromState, after restarts too, unless an exit action completed the *)
(* patch: then the scheduler writes into a document that is being stored.   *)
ExpiryIsRecorded ==
    Len(index) > 1 /\ ExpiryOf(CurrentState) # {} =>
        expireFrom = CurrentState \/ ExitCompletes(index[Len(index)].by)

(* Every patch that reaches the document is answered.                       *)
EveryPatchAnswered ==
    \A i \in Op : op[i].pc = "queued" ~> op[i].answer \in {"ok", "error"}

(* A document does not rest in an expiring state for ever.                  *)
ExpiringStateIsLeft ==
    \A n \in 1 .. MaxOps + 1 :
        Len(index) = n /\ ExpiryOf(CurrentState) # {} ~> Len(index) > n

-----------------------------------------------------------------------------
(* What the documentation says, and the code does not guarantee             *)

(* "Specify a trigger that will initiate a transition after configured      *)
(* interval": the transition a timer makes ends the very stay in the state  *)
(* that armed it, not a later one that just began.                          *)
ExpiryEndsItsOwnStay ==
    \A k \in 2 .. Len(index) :
        LET patch == op[index[k].by] IN
        patch.origin = "expiry" => index[k - 1].by = patch.armedBy

(* The initial transition "should happen when a new document is created":   *)
(* once, and only to a document that was created in the initial state.      *)
InitialTransitionOnlyAtCreation ==
    LET initial == {k \in 2 .. Len(index) : op[index[k].by].origin = "initial"}
    IN  /\ initial # {} => index[1].state = InitState
        /\ \A j, k \in initial : j = k

-----------------------------------------------------------------------------
(* An FSMService implements the abstract state machine: a version is a step *)
(* along an edge, and the answers are what the senders were told.           *)
AbstractState == IF index = << >> THEN None ELSE CurrentState
Applied == {index[k].by : k \in 2 .. Len(index)}
Granted == {i \in Op : op[i].answer = "ok"}
Refused == {i \in Op : op[i].answer = "error"}

Abstract == INSTANCE AbstractStateMachine WITH
    Request <- Op,
    Edge    <- SvcGraph(Config),
    Start   <- State,
    Nowhere <- None,
    state   <- AbstractState,
    applied <- Applied,
    granted <- Granted,
    refused <- Refused

AbstractSpec == Abstract!ASpec
=============================================================================
