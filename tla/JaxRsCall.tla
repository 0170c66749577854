------------------------------ MODULE JaxRsCall ------------------------------
(***************************************************************************)
(* Calls of a contract interface: from the proxy of JaxRsServiceClient     *)
(* through an operation to a method of a JaxRsBridgeStatelessService, and  *)
(* back.  The first complete() or fail() of an operation answers it, later *)
(* ones have no effect.  Several calls reach one new instance of the       *)
(* service on different threads, so its processing chain may be built more *)
(* than once.                                                              *)
(***************************************************************************)
EXTENDS Naturals

CONSTANTS
    Call,            \* calls
    FutureEnds,      \* how the futures asynchronous methods return may end
    InterceptorMay,  \* what interceptors do: "throw", "change" the result
    HandlerMay,      \* what the error handler makes of a failure
    TimesOut         \* whether the sender of operations gives up

(* A method returns its result, returns a future of it, or is given the     *)
(* operation and answers it itself.                                         *)
Kind == {"sync", "async", "operation"}

(* "unbindable": its value cannot be set as a body; "nocause": it fails     *)
(* with a CompletionException or ExecutionException that wraps nothing.     *)
FutureEnd == {"value", "unbindable", "exception", "nocause"}

ASSUME CallAssumption ==
    /\ FutureEnds \subseteq FutureEnd
    /\ InterceptorMay \subseteq {"throw", "change"}
    /\ HandlerMay \subseteq {"value", "error", "forgotten"}
    /\ TimesOut \in BOOLEAN

VARIABLES
    call,   \* the calls
    chain,  \* the processing chain of the service is set
    ready   \* initializeInstance returned

vars == <<call, chain, ready>>

(* pc: the thread that handles the operation on the server; "aborted": it   *)
(* set the chain, and initializeInstance threw.                             *)
CallRecord ==
    [kind    : Kind,
     caller  : {"idle", "waiting", "value", "error", "forgotten"},
     pc      : {"unsent", "sent", "build", "initialize", "inputs", "invoke",
                "inside", "bind", "over", "aborted"},
     method  : {"none", "running", "answered"} \cup FutureEnd,
     answer  : {"none", "ok", "rejected", "failed"}]

Init ==
    /\ call \in [Call -> {[kind |-> k, caller |-> "idle", pc |-> "unsent",
                           method |-> "none", answer |-> "none"] : k \in Kind}]
    /\ chain = FALSE
    /\ ready = FALSE

Update(c, record) == call' = [call EXCEPT ![c] = record]

Step(c, record) == Update(c, record) /\ UNCHANGED <<chain, ready>>

First(c, answer) == IF call[c].answer = "none" THEN answer ELSE call[c].answer

-----------------------------------------------------------------------------
(* ProxyHandler                                                             *)

(* invoke: builds the operation, runs the interceptors on it and sends it;  *)
(* any of them may throw, at the caller of an asynchronous method too.      *)
Invoke(c) ==
    /\ call[c].caller = "idle"
    /\ \/ Step(c, [call[c] EXCEPT !.caller = "waiting", !.pc = "sent"])
       \/ Step(c, [call[c] EXCEPT !.caller = "error"])

(* Faulty variant of Result: the failure is not looked at. *)
ResultOfAnyAnswer(failed) == {"value", "error"}

(* What the completion of the operation leads to for the caller.  The       *)
(* decoder may throw; an error handler may forget the future.               *)
Result(failed) ==
    LET seen == IF "change" \in InterceptorMay THEN BOOLEAN ELSE {failed} IN
    (IF "throw" \in InterceptorMay THEN {"error"} ELSE {})
    \cup UNION {IF f THEN HandlerMay ELSE {"value", "error"} : f \in seen}

(* Faulty variant of Deliver: the caller is handed the answer itself. *)
DeliverUndecoded(c) ==
    /\ call[c].caller = "waiting"
    /\ call[c].answer # "none"
    /\ Step(c, [call[c] EXCEPT !.caller = call[c].answer])

(* the completion of the operation, which runs once                         *)
Deliver(c) ==
    /\ call[c].caller = "waiting"
    /\ call[c].answer # "none"
    /\ \E result \in Result(call[c].answer # "ok") :
          Step(c, [call[c] EXCEPT !.caller = result])

(* Faulty variant of GiveUp: the operation is sent again. *)
GiveUpAndResend(c) ==
    /\ TimesOut
    /\ call[c].caller = "waiting"
    /\ Step(c, [call[c] EXCEPT !.pc = "sent"])

(* the sender fails the operation, which the server may go on with          *)
GiveUp(c) ==
    /\ TimesOut
    /\ call[c].caller = "waiting"
    /\ \E result \in Result(TRUE) :
          Step(c, [call[c] EXCEPT !.caller = result])

-----------------------------------------------------------------------------
(* JaxRsBridgeStatelessService.getOperationProcessingChain                  *)

LookUpChain(c) ==
    /\ call[c].pc = "sent"
    /\ Step(c, [call[c] EXCEPT !.pc = IF chain THEN "inputs" ELSE "build"])

SetChain(c) ==
    /\ call[c].pc = "build"
    /\ Update(c, [call[c] EXCEPT !.pc = "initialize"])
    /\ chain' = TRUE
    /\ UNCHANGED ready

(* Faulty variant of InitializeInstance: it is not called. *)
SkipInitializeInstance(c) ==
    /\ call[c].pc = "initialize"
    /\ Step(c, [call[c] EXCEPT !.pc = "inputs"])

InitializeInstance(c) ==
    /\ call[c].pc = "initialize"
    /\ Update(c, [call[c] EXCEPT !.pc = "inputs"])
    /\ ready' = TRUE
    /\ UNCHANGED chain

(* Building the chain throws before it is set, or initializeInstance, which *)
(* services override, after that: the chain stays set, and nobody calls     *)
(* initializeInstance again.  The platform fails the operation.             *)
ChainThrows(c) ==
    /\ call[c].pc \in {"build", "initialize"}
    /\ Step(c, [call[c] EXCEPT
                  !.pc = IF @ = "initialize" THEN "aborted" ELSE "over",
                  !.answer = First(c, "failed")])

-----------------------------------------------------------------------------
(* RoutingOperationHandler.accept                                           *)

FindMethodInputs(c) ==
    /\ call[c].pc = "inputs"
    /\ Step(c, [call[c] EXCEPT !.pc = "invoke"])

(* Faulty variant of RejectInputs: the handler goes on. *)
RejectInputsAndGoOn(c) ==
    /\ call[c].pc = "inputs"
    /\ Step(c, [call[c] EXCEPT !.pc = "invoke", !.answer = First(c, "rejected")])

(* the body violates constraints, or is not one                             *)
RejectInputs(c) ==
    /\ call[c].pc = "inputs"
    /\ Step(c, [call[c] EXCEPT !.pc = "over", !.answer = First(c, "rejected")])

InvokeMethod(c) ==
    /\ call[c].pc = "invoke"
    /\ Step(c, [call[c] EXCEPT !.pc = "inside", !.method = "running"])

(* Faulty variant of MethodThrows: the exception is logged. *)
MethodThrowsLogged(c) ==
    /\ call[c].pc = "inside"
    /\ Step(c, [call[c] EXCEPT !.pc = "over",
                   !.method = IF @ = "answered" THEN @ ELSE "exception"])

(* caught in accept, which fails the operation                              *)
MethodThrows(c) ==
    /\ call[c].pc = "inside"
    /\ Step(c, [call[c] EXCEPT !.pc = "over", !.answer = First(c, "failed"),
                   !.method = IF @ = "answered" THEN @ ELSE "exception"])

(* A synchronous method returned; a method that was given the operation may *)
(* have kept it; an asynchronous one returned a future that is or will be   *)
(* completed.  null instead of a future throws in the handler.              *)
MethodReturns(c) ==
    /\ call[c].pc = "inside"
    /\ CASE call[c].kind = "sync" ->
              Step(c, [call[c] EXCEPT !.pc = "bind", !.method = "value"])
         [] call[c].kind = "async" ->
              \/ Step(c, [call[c] EXCEPT !.pc = "over"])
              \/ Step(c, [call[c] EXCEPT !.pc = "over", !.method = "exception",
                                         !.answer = First(c, "failed")])
         [] call[c].kind = "operation" -> Step(c, [call[c] EXCEPT !.pc = "over"])

(* Faulty variant of Complete: a method without result does not complete. *)
CompleteWithBody(c) ==
    /\ call[c].pc = "bind"
    /\ \E answer \in {"none", "ok", "failed"} :
          Step(c, [call[c] EXCEPT !.pc = "over", !.answer = First(c, answer)])

(* setBody, which may throw into the catch of accept, and complete          *)
Complete(c) ==
    /\ call[c].pc = "bind"
    /\ \E answer \in {"ok", "failed"} :
          Step(c, [call[c] EXCEPT !.pc = "over", !.answer = First(c, answer)])

(* The method, or another thread it gave the operation to, answers it.      *)
MethodAnswers(c) ==
    /\ call[c].kind = "operation"
    /\ call[c].method = "running"
    /\ \E answer \in {"ok", "failed"} :
          Step(c, [call[c] EXCEPT !.method = "answered",
                                  !.answer = First(c, answer)])

(* The callbacks on the future.  What they throw ends in a future nobody    *)
(* holds: a null cause in HttpErrorResponse.from, a body that cannot be set.*)
FutureCompletes(c) ==
    /\ call[c].kind = "async"
    /\ call[c].pc = "over"
    /\ call[c].method = "running"
    /\ \E end \in FutureEnds :
          Step(c, [call[c] EXCEPT
                     !.method = end,
                     !.answer = CASE end = "value" -> First(c, "ok")
                                  [] end = "exception" -> First(c, "failed")
                                  [] OTHER -> @])

-----------------------------------------------------------------------------
(* the steps of the server that handles c                                   *)
Serve(c) ==
    \/ LookUpChain(c) \/ SetChain(c) \/ InitializeInstance(c) \/ ChainThrows(c)
    \/ FindMethodInputs(c) \/ RejectInputs(c)
    \/ InvokeMethod(c) \/ MethodThrows(c) \/ MethodReturns(c) \/ Complete(c)

MethodEnds(c) == MethodAnswers(c) \/ FutureCompletes(c)

Next == \E c \in Call : \/ Invoke(c) \/ Deliver(c) \/ GiveUp(c)
                        \/ Serve(c) \/ MethodEnds(c)

Spec == Init /\ [][Next]_vars

(* Threads of the server run, answers arrive, and methods keep their part:  *)
(* futures are completed, and an operation that was given to a method is    *)
(* answered by it.                                                          *)
Fairness == \A c \in Call :
    WF_vars(Serve(c)) /\ WF_vars(MethodEnds(c)) /\ WF_vars(Deliver(c))

FairSpec == Spec /\ Fairness

-----------------------------------------------------------------------------
(* Types of the variables.                                                  *)
TypeOK ==
    /\ call \in [Call -> CallRecord]
    /\ chain \in BOOLEAN
    /\ ready \in BOOLEAN

Invoked(c) == call[c].method # "none"

(* An operation is rejected only if the method is never invoked with it,    *)
(* and succeeds only if the method produced a value or answered by itself,  *)
(* whichever thread was first: an exception after that does not undo it.    *)
AnswerMatchesMethod ==
    \A c \in Call :
        /\ call[c].answer = "rejected" => ~ Invoked(c)
        /\ call[c].answer = "ok" => call[c].method \in {"value", "answered"}

(* Without interceptors or error handlers that make values of failures, a   *)
(* caller gets a value only of a method that was invoked and succeeded;     *)
(* giving up and answering late included.                                   *)
ValueMeansSuccess ==
    "change" \notin InterceptorMay /\ "value" \notin HandlerMay =>
        \A c \in Call : call[c].caller = "value" => call[c].answer = "ok"

(* When the thread that handled an operation is through with it, it is      *)
(* answered; or its method has yet to do its part; or its future ended in   *)
(* one of the two ways the handler is not prepared for.                     *)
UnansweredForAReason ==
    \A c \in Call :
        call[c].pc = "over" /\ call[c].answer = "none" =>
            \/ call[c].method = "running"
            \/ call[c].kind = "async" /\ call[c].method \in {"unbindable", "nocause"}

(* A method gets an instance that is not initialized only while a thread is *)
(* on its way through initializeInstance, or after one threw there: a chain *)
(* set by several threads belongs to an initialized instance once one of    *)
(* them returned, whoever set it last.                                      *)
ChainMeansReady ==
    \/ ready
    \/ \E c \in Call : call[c].pc \in {"initialize", "aborted"}
    \/ \A c \in Call : ~ Invoked(c) /\ call[c].answer # "rejected"

(* RemoteCall, whose caller is told when the future or get() is through.    *)
Seen(r) ==
    [method |-> IF r.method \in {"none", "running"} THEN r.method ELSE "ended",
     reply  |-> r.answer,
     told   |-> IF r.caller \in {"value", "error"} THEN r.caller ELSE "nothing"]

Remote ==
    INSTANCE RemoteCall WITH
        Masked <- "change" \in InterceptorMay \/ "value" \in HandlerMay,
        remote <- [c \in Call |-> Seen(call[c])]

(* Whatever threads, interceptors and error handlers do: a method runs at   *)
(* most once and not after an answer, the first answer stands, the caller   *)
(* is told once, and of a success only if there was one.                    *)
RemoteCallSpec == Remote!RSpec

(* Every call of a proxy returns, its future completed or get() through, in *)
(* all but two cases: the error handler of the client forgot the future, or *)
(* that of the method ended in a way the server has no answer for.          *)
EveryCallReturns ==
    \A c \in Call :
        call[c].caller = "waiting" ~>
            \/ call[c].caller \in {"value", "error"}
            \/ "forgotten" \in HandlerMay /\ call[c].caller = "forgotten"
            \/ call[c].method \in {"unbindable", "nocause"}

-----------------------------------------------------------------------------
(* What the documentation and the tests say, and the code does not guarantee *)

(* "we have to invoke operation.complete() or operation.fail() in all       *)
(* possible scenarios" when the method is not given the operation.          *)
AnsweredInAllScenarios ==
    \A c \in Call : call[c].kind = "async" /\ call[c].method \in FutureEnd
                        => call[c].answer # "none"
=============================================================================
