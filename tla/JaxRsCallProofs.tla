---------------------------- MODULE JaxRsCallProofs ----------------------------
(***************************************************************************)
(* The safety properties of JaxRsCall hold for any number of calls and     *)
(* whatever futures, interceptors and error handlers do.                   *)
(***************************************************************************)
EXTENDS JaxRsCall, TLAPS

-----------------------------------------------------------------------------
(* The inductive invariant: how far the thread of an operation has come     *)
(* says what its method did and whether it is answered.                     *)

Waiting == {"unsent", "sent", "build", "initialize", "inputs", "invoke"}

(* An operation is answered by the thread, by its future or by its method,  *)
(* and each of them leaves its mark on the record r.                        *)
Consistent(r) ==
    /\ r.caller = "idle" => r.pc = "unsent"
    /\ r.pc \in Waiting => r.method = "none" /\ r.answer = "none"
    /\ r.pc = "inside" =>
          \/ r.method = "running" /\ r.answer = "none"
          \/ r.kind = "operation" /\ r.method = "answered" /\ r.answer # "none"
    /\ r.pc = "aborted" => r.method = "none" /\ r.answer = "failed"
    /\ r.pc = "bind" => r.kind = "sync" /\ r.method = "value" /\ r.answer = "none"
    /\ r.pc = "over" /\ r.answer = "none" =>
          \/ r.method = "running"
          \/ r.kind = "async" /\ r.method \in {"unbindable", "nocause"}
    /\ r.method \in {"unbindable", "nocause"} => r.method \in FutureEnds
    /\ r.method = "running" => r.answer = "none"
    /\ r.answer = "rejected" => r.method = "none"
    /\ r.answer = "ok" => r.method \in {"value", "answered"}

(* A value reached the caller only through an answer that was a success.    *)
Truthful(r) ==
    "change" \notin InterceptorMay /\ "value" \notin HandlerMay =>
        (r.caller = "value" => r.answer = "ok")

(* the calls, one by one *)
CallInv == \A c \in Call : Consistent(call[c]) /\ Truthful(call[c])

(* The operation went, or goes, through the chain.                          *)
Through(r) ==
    \/ r.pc \in {"initialize", "inputs", "invoke", "inside", "bind"}
    \/ r.method # "none" \/ r.answer = "rejected"

(* Whoever set the chain is about to initialize the instance, or tried to;  *)
(* nothing goes through a chain that is not set.                            *)
ChainInv ==
    /\ chain => ready \/ \E c \in Call : call[c].pc \in {"initialize", "aborted"}
    /\ \A c \in Call : Through(call[c]) => chain

(* the inductive invariant *)
Inv == TypeOK /\ CallInv /\ ChainInv

-----------------------------------------------------------------------------
(* What a step does to one call, which leaves the others alone.             *)

(* A step that writes a well-formed record for one call preserves the part  *)
(* of the invariant that is about the calls.                                *)
LEMMA StepPreserves ==
    ASSUME TypeOK, CallInv, NEW c \in Call, NEW r \in CallRecord,
           Update(c, r), Consistent(r), Truthful(r)
    PROVE  /\ call' \in [Call -> CallRecord]
           /\ CallInv'
           /\ call'[c] = r
           /\ \A d \in Call : d # c => call'[d] = call[d]
<1>1. /\ call \in [Call -> CallRecord]
      /\ call' = [call EXCEPT ![c] = r]
  BY DEF TypeOK, Update
<1>2. /\ call' \in [Call -> CallRecord]
      /\ call'[c] = r
      /\ \A d \in Call : d # c => call'[d] = call[d]
  BY <1>1
<1>3. ASSUME NEW d \in Call PROVE Consistent(call'[d]) /\ Truthful(call'[d])
  <2>1. CASE d = c
    BY <2>1, <1>2
  <2>2. CASE d # c
    BY <2>2, <1>2 DEF CallInv
  <2> QED BY <2>1, <2>2
<1>4. CallInv'
  BY <1>3 DEF CallInv, Consistent, Truthful
<1> QED BY <1>2, <1>4

(* A step that leaves the service alone preserves the invariant, unless it  *)
(* keeps a thread from calling initializeInstance, or gets around the chain.*)
LEMMA PlainStep ==
    ASSUME Inv, NEW c \in Call, NEW r \in CallRecord, Step(c, r),
           Consistent(r), Truthful(r),
           Through(r) => Through(call[c]) \/ chain,
           call[c].pc \in {"initialize", "aborted"} => r.pc \in {"initialize", "aborted"}
    PROVE  Inv'
<1>1. TypeOK /\ CallInv /\ ChainInv /\ Update(c, r) /\ chain' = chain /\ ready' = ready
  BY DEF Inv, Step
<1>2. /\ call' \in [Call -> CallRecord]
      /\ CallInv'
      /\ call'[c] = r
      /\ \A d \in Call : d # c => call'[d] = call[d]
  BY <1>1, StepPreserves
<1>3. TypeOK'
  BY <1>1, <1>2 DEF TypeOK
<1>4. ASSUME chain, ~ ready
      PROVE  \E d \in Call : call'[d].pc \in {"initialize", "aborted"}
  <2>1. PICK d \in Call : call[d].pc \in {"initialize", "aborted"}
    BY <1>1, <1>4 DEF ChainInv
  <2>2. CASE d = c
    BY <2>1, <2>2, <1>2
  <2>3. CASE d # c
    BY <2>1, <2>3, <1>2
  <2> QED BY <2>2, <2>3
<1>5. ASSUME NEW d \in Call, Through(call[d])' PROVE chain
  <2>1. CASE d = c
    BY <1>1, <1>2, <1>5, <2>1 DEF ChainInv, Through
  <2>2. CASE d # c
    BY <1>1, <1>2, <1>5, <2>2 DEF ChainInv, Through
  <2> QED BY <2>1, <2>2
<1>6. ChainInv'
  BY <1>1, <1>4, <1>5 DEF ChainInv
<1> QED BY <1>2, <1>3, <1>6 DEF Inv

(* what is known of the record of a call before a step *)
LEMMA Before ==
    ASSUME Inv, NEW c \in Call
    PROVE  call[c] \in CallRecord /\ Consistent(call[c]) /\ Truthful(call[c])
BY DEF Inv, TypeOK, CallInv

-----------------------------------------------------------------------------
(* The steps of the client.                                                 *)

(* The values Result may have; without meddling, no value of a failure.     *)
LEMMA ResultType ==
    ASSUME NEW failed \in BOOLEAN
    PROVE  /\ Result(failed) \subseteq {"value", "error", "forgotten"}
           /\ "change" \notin InterceptorMay /\ "value" \notin HandlerMay
                => (failed => "value" \notin Result(failed))
<1>1. /\ InterceptorMay \subseteq {"throw", "change"}
      /\ HandlerMay \subseteq {"value", "error", "forgotten"}
  BY CallAssumption
<1>2. ASSUME NEW x \in Result(failed)
      PROVE  /\ x \in {"value", "error", "forgotten"}
             /\ "change" \notin InterceptorMay /\ "value" \notin HandlerMay
                  => (failed => x # "value")
  BY <1>1, <1>2 DEF Result
<1> QED BY <1>2

(* Calling, being answered and giving up preserve the invariant.            *)
LEMMA ClientStep ==
    ASSUME Inv, NEW c \in Call, Invoke(c) \/ Deliver(c) \/ GiveUp(c)
    PROVE  Inv'
<1>1. call[c] \in CallRecord /\ Consistent(call[c]) /\ Truthful(call[c])
  BY Before
<1>2. CASE Invoke(c)
  <2>1. call[c].caller = "idle" /\ call[c].pc = "unsent"
    BY <1>1, <1>2 DEF Invoke, Consistent
  <2>2. CASE Step(c, [call[c] EXCEPT !.caller = "waiting", !.pc = "sent"])
    <3>1. [call[c] EXCEPT !.caller = "waiting", !.pc = "sent"] \in CallRecord
      BY <1>1 DEF CallRecord
    <3>2. /\ Consistent([call[c] EXCEPT !.caller = "waiting", !.pc = "sent"])
          /\ Truthful([call[c] EXCEPT !.caller = "waiting", !.pc = "sent"])
          /\ ~ Through([call[c] EXCEPT !.caller = "waiting", !.pc = "sent"])
      BY <1>1, <2>1 DEF CallRecord, Consistent, Truthful, Through, Waiting
    <3> QED BY <2>1, <2>2, <3>1, <3>2, PlainStep
  <2>3. CASE Step(c, [call[c] EXCEPT !.caller = "error"])
    <3>1. [call[c] EXCEPT !.caller = "error"] \in CallRecord
      BY <1>1 DEF CallRecord
    <3>2. /\ Consistent([call[c] EXCEPT !.caller = "error"])
          /\ Truthful([call[c] EXCEPT !.caller = "error"])
          /\ ~ Through([call[c] EXCEPT !.caller = "error"])
      BY <1>1, <2>1 DEF CallRecord, Consistent, Truthful, Through, Waiting
    <3> QED BY <2>1, <2>3, <3>1, <3>2, PlainStep
  <2> QED BY <1>2, <2>2, <2>3 DEF Invoke
<1>3. ASSUME Deliver(c) \/ GiveUp(c) PROVE Inv'
  <2>1. PICK failed \in BOOLEAN : /\ failed \/ call[c].answer = "ok"
                                  /\ \E result \in Result(failed) :
                                        Step(c, [call[c] EXCEPT !.caller = result])
                                  /\ call[c].caller = "waiting"
    BY <1>3 DEF Deliver, GiveUp
  <2>2. PICK result \in Result(failed) : Step(c, [call[c] EXCEPT !.caller = result])
    BY <2>1
  <2> DEFINE r == [call[c] EXCEPT !.caller = result]
  <2>3. result \in {"value", "error", "forgotten"}
    BY ResultType
  <2>4. r \in CallRecord
    BY <1>1, <2>3 DEF CallRecord
  <2>5. Consistent(r)
    BY <1>1, <2>1, <2>3 DEF CallRecord, Consistent
  <2>6. Truthful(r)
    BY <1>1, <2>1, ResultType DEF CallRecord, Truthful
  <2>7. r.pc = call[c].pc /\ (Through(r) => Through(call[c]))
    BY <1>1 DEF CallRecord, Through
  <2> QED BY <2>2, <2>4, <2>5, <2>6, <2>7, PlainStep
<1> QED BY <1>2, <1>3

-----------------------------------------------------------------------------
(* The steps of the server.                                                 *)

(* Building the processing chain preserves the invariant: a thread that set *)
(* it is on its way to initializeInstance.                                  *)
LEMMA ChainStep ==
    ASSUME Inv, NEW c \in Call,
           LookUpChain(c) \/ SetChain(c) \/ InitializeInstance(c) \/ ChainThrows(c)
    PROVE  Inv'
<1>1. /\ call[c] \in CallRecord /\ Consistent(call[c]) /\ Truthful(call[c])
      /\ TypeOK /\ CallInv /\ ChainInv
  BY Before DEF Inv
<1>2. CASE LookUpChain(c)
  <2> DEFINE pc == IF chain THEN "inputs" ELSE "build"
             r == [call[c] EXCEPT !.pc = pc]
  <2>1. call[c].pc = "sent" /\ Step(c, r)
    BY <1>2 DEF LookUpChain
  <2>2. r \in CallRecord /\ r.pc = pc
    BY <1>1 DEF CallRecord
  <2>3. Consistent(r) /\ Truthful(r)
    BY <1>1, <2>1 DEF CallRecord, Consistent, Truthful, Waiting
  <2>4. ~ chain => ~ Through(r)
    BY <1>1, <2>1 DEF CallRecord, Consistent, Through, Waiting
  <2> QED BY <2>1, <2>2, <2>3, <2>4, PlainStep
<1>3. CASE SetChain(c)
  <2>1. /\ call[c].pc = "build" /\ chain' = TRUE /\ ready' = ready
        /\ Update(c, [call[c] EXCEPT !.pc = "initialize"])
    BY <1>3 DEF SetChain
  <2>2. [call[c] EXCEPT !.pc = "initialize"] \in CallRecord
    BY <1>1 DEF CallRecord
  <2>3. /\ Consistent([call[c] EXCEPT !.pc = "initialize"])
        /\ Truthful([call[c] EXCEPT !.pc = "initialize"])
    BY <1>1, <2>1 DEF CallRecord, Consistent, Truthful, Waiting
  <2>4. /\ call' \in [Call -> CallRecord] /\ CallInv'
        /\ call'[c] = [call[c] EXCEPT !.pc = "initialize"]
    BY <1>1, <2>1, <2>2, <2>3, StepPreserves
  <2>5. call'[c].pc = "initialize"
    BY <1>1, <2>4 DEF CallRecord
  <2> QED BY <1>1, <2>1, <2>4, <2>5 DEF Inv, TypeOK, ChainInv
<1>4. CASE InitializeInstance(c)
  <2>1. /\ call[c].pc = "initialize" /\ chain' = chain /\ ready' = TRUE
        /\ Update(c, [call[c] EXCEPT !.pc = "inputs"])
    BY <1>4 DEF InitializeInstance
  <2>2. [call[c] EXCEPT !.pc = "inputs"] \in CallRecord
    BY <1>1 DEF CallRecord
  <2>3. /\ Consistent([call[c] EXCEPT !.pc = "inputs"])
        /\ Truthful([call[c] EXCEPT !.pc = "inputs"])
    BY <1>1, <2>1 DEF CallRecord, Consistent, Truthful, Waiting
  <2>4. call' \in [Call -> CallRecord] /\ CallInv'
    BY <1>1, <2>1, <2>2, <2>3, StepPreserves
  <2>5. chain
    BY <1>1, <2>1 DEF ChainInv, Through
  <2> QED BY <1>1, <2>1, <2>4, <2>5 DEF Inv, TypeOK, ChainInv
<1>5. CASE ChainThrows(c)
  <2> DEFINE pc == IF call[c].pc = "initialize" THEN "aborted" ELSE "over"
             r == [call[c] EXCEPT !.pc = pc, !.answer = "failed"]
  <2>1. call[c].pc \in {"build", "initialize"} /\ Step(c, r)
    BY <1>1, <1>5 DEF ChainThrows, First, Consistent, Waiting, CallRecord
  <2>2. r \in CallRecord
    BY <1>1 DEF CallRecord
  <2>3. Consistent(r) /\ Truthful(r) /\ ~ Through(r)
    BY <1>1, <2>1 DEF CallRecord, Consistent, Truthful, Through, Waiting
  <2>4. call[c].pc = "initialize" => r.pc = "aborted"
    BY <1>1 DEF CallRecord
  <2> QED BY <2>1, <2>2, <2>3, <2>4, PlainStep
<1> QED BY <1>2, <1>3, <1>4, <1>5

(* Finding the inputs and invoking the method preserve the invariant.       *)
LEMMA HandlerStep ==
    ASSUME Inv, NEW c \in Call,
           FindMethodInputs(c) \/ RejectInputs(c) \/ InvokeMethod(c)
    PROVE  Inv'
<1>1. /\ call[c] \in CallRecord /\ Consistent(call[c]) /\ Truthful(call[c])
      /\ ready \in BOOLEAN
  BY Before DEF Inv, TypeOK
<1>2. CASE FindMethodInputs(c)
  <2> DEFINE r == [call[c] EXCEPT !.pc = "invoke"]
  <2>1. call[c].pc = "inputs" /\ Step(c, r)
    BY <1>2 DEF FindMethodInputs
  <2>2. r \in CallRecord
    BY <1>1 DEF CallRecord
  <2>3. Consistent(r) /\ Truthful(r) /\ (Through(r) => Through(call[c]))
    BY <1>1, <2>1 DEF CallRecord, Consistent, Truthful, Through, Waiting
  <2> QED BY <2>1, <2>2, <2>3, PlainStep
<1>3. CASE RejectInputs(c)
  <2> DEFINE r == [call[c] EXCEPT !.pc = "over", !.answer = "rejected"]
  <2>1. call[c].pc = "inputs" /\ Step(c, r)
    BY <1>1, <1>3 DEF RejectInputs, First, Consistent, Waiting
  <2>2. r \in CallRecord
    BY <1>1 DEF CallRecord
  <2>3. Consistent(r) /\ Truthful(r) /\ (Through(r) => Through(call[c]))
    BY <1>1, <2>1 DEF CallRecord, Consistent, Truthful, Through, Waiting
  <2> QED BY <2>1, <2>2, <2>3, PlainStep
<1>4. CASE InvokeMethod(c)
  <2> DEFINE r == [call[c] EXCEPT !.pc = "inside", !.method = "running"]
  <2>1. call[c].pc = "invoke" /\ Step(c, r)
    BY <1>4 DEF InvokeMethod
  <2>2. r \in CallRecord
    BY <1>1 DEF CallRecord
  <2>3. Consistent(r) /\ Truthful(r) /\ (Through(r) => Through(call[c]))
    BY <1>1, <2>1 DEF CallRecord, Consistent, Truthful, Through, Waiting
  <2> QED BY <2>1, <2>2, <2>3, PlainStep
<1> QED BY <1>2, <1>3, <1>4

(* The end of a method, by whichever thread, preserves the invariant.       *)
LEMMA MethodStep ==
    ASSUME Inv, NEW c \in Call,
           \/ MethodThrows(c) \/ MethodReturns(c) \/ Complete(c)
           \/ MethodAnswers(c) \/ FutureCompletes(c)
    PROVE  Inv'
<1>1. call[c] \in CallRecord /\ Consistent(call[c]) /\ Truthful(call[c])
  BY Before
<1>2. CASE MethodThrows(c)
  <2> DEFINE method == IF call[c].method = "answered" THEN "answered" ELSE "exception"
             r == [call[c] EXCEPT !.pc = "over", !.answer = First(c, "failed"),
                                  !.method = method]
  <2>1. call[c].pc = "inside" /\ Step(c, r)
    BY <1>1, <1>2 DEF MethodThrows, CallRecord
  <2>2. First(c, "failed") \in {"none", "ok", "rejected", "failed"}
    BY <1>1 DEF First, CallRecord
  <2>3. r \in CallRecord
    BY <1>1, <2>2 DEF CallRecord, FutureEnd
  <2>4. Consistent(r) /\ Truthful(r) /\ (Through(r) => Through(call[c]))
    BY <1>1, <2>1, <2>3 DEF CallRecord, Consistent, Truthful, Through, Waiting, First
  <2> QED BY <2>1, <2>3, <2>4, PlainStep
<1>3. CASE MethodReturns(c)
  <2> DEFINE bound == [call[c] EXCEPT !.pc = "bind", !.method = "value"]
             kept == [call[c] EXCEPT !.pc = "over"]
             null == [call[c] EXCEPT !.pc = "over", !.method = "exception",
                                     !.answer = First(c, "failed")]
  <2>1. /\ call[c].pc = "inside"
        /\ call[c].kind \in Kind
        /\ \/ call[c].kind = "sync" /\ Step(c, bound)
           \/ call[c].kind = "async" /\ (Step(c, kept) \/ Step(c, null))
           \/ call[c].kind = "operation" /\ Step(c, kept)
    BY <1>1, <1>3 DEF MethodReturns, Kind, CallRecord
  <2>2. CASE call[c].kind = "sync" /\ Step(c, bound)
    <3>1. bound \in CallRecord
      BY <1>1 DEF CallRecord, FutureEnd
    <3>2. Consistent(bound) /\ Truthful(bound) /\ (Through(bound) => Through(call[c]))
      BY <1>1, <2>1, <2>2 DEF CallRecord, Consistent, Truthful, Through, Waiting
    <3> QED BY <2>1, <2>2, <3>1, <3>2, PlainStep
  <2>3. CASE call[c].kind # "sync" /\ Step(c, kept)
    <3>1. kept \in CallRecord
      BY <1>1 DEF CallRecord
    <3>2. Consistent(kept) /\ Truthful(kept) /\ (Through(kept) => Through(call[c]))
      BY <1>1, <2>1, <2>3 DEF CallRecord, Consistent, Truthful, Through, Waiting
    <3> QED BY <2>1, <2>3, <3>1, <3>2, PlainStep
  <2>4. CASE call[c].kind = "async" /\ Step(c, null)
    <3>1. First(c, "failed") = "failed"
      BY <1>1, <2>1, <2>4 DEF First, Consistent
    <3>2. null \in CallRecord
      BY <1>1, <3>1 DEF CallRecord, FutureEnd
    <3>3. Consistent(null) /\ Truthful(null) /\ (Through(null) => Through(call[c]))
      BY <1>1, <2>1, <2>4, <3>1 DEF CallRecord, Consistent, Truthful, Through, Waiting
    <3> QED BY <2>1, <2>4, <3>2, <3>3, PlainStep
  <2> QED BY <2>1, <2>2, <2>3, <2>4
<1>4. CASE Complete(c)
  <2>1. PICK answer \in {"ok", "failed"} :
           Step(c, [call[c] EXCEPT !.pc = "over", !.answer = First(c, answer)])
    BY <1>4 DEF Complete
  <2>2. call[c].pc = "bind" /\ call[c].answer = "none" /\ call[c].method = "value"
    BY <1>1, <1>4 DEF Complete, Consistent
  <2> DEFINE r == [call[c] EXCEPT !.pc = "over", !.answer = answer]
  <2>3. Step(c, r)
    BY <2>1, <2>2 DEF First
  <2>4. r \in CallRecord
    BY <1>1 DEF CallRecord
  <2>5. Consistent(r) /\ Truthful(r) /\ (Through(r) => Through(call[c]))
    BY <1>1, <2>2 DEF CallRecord, Consistent, Truthful, Through, Waiting
  <2> QED BY <2>2, <2>3, <2>4, <2>5, PlainStep
<1>5. CASE MethodAnswers(c)
  <2>1. PICK answer \in {"ok", "failed"} :
           Step(c, [call[c] EXCEPT !.method = "answered", !.answer = First(c, answer)])
    BY <1>5 DEF MethodAnswers
  <2>2. /\ call[c].kind = "operation" /\ call[c].method = "running"
        /\ call[c].answer = "none"
    BY <1>1, <1>5 DEF MethodAnswers, Consistent
  <2> DEFINE r == [call[c] EXCEPT !.method = "answered", !.answer = answer]
  <2>3. Step(c, r)
    BY <2>1, <2>2 DEF First
  <2>4. r \in CallRecord
    BY <1>1 DEF CallRecord
  <2>5. Consistent(r) /\ Truthful(r) /\ (Through(r) => Through(call[c]))
    BY <1>1, <2>2 DEF CallRecord, Consistent, Truthful, Through, Waiting
  <2>6. r.pc = call[c].pc /\ Through(call[c])
    BY <1>1, <2>2 DEF CallRecord, Through
  <2> QED BY <2>3, <2>4, <2>5, <2>6, PlainStep
<1>6. CASE FutureCompletes(c)
  <2>1. /\ call[c].kind = "async" /\ call[c].pc = "over"
        /\ call[c].method = "running" /\ call[c].answer = "none"
    BY <1>1, <1>6 DEF FutureCompletes, Consistent
  <2>2. PICK end \in FutureEnds :
           Step(c, [call[c] EXCEPT
                      !.method = end,
                      !.answer = CASE end = "value" -> First(c, "ok")
                                   [] end = "exception" -> First(c, "failed")
                                   [] OTHER -> call[c].answer])
    BY <1>6 DEF FutureCompletes
  <2>3. end \in FutureEnd
    BY CallAssumption
  <2> DEFINE answer == IF end = "value" THEN "ok"
                       ELSE IF end = "exception" THEN "failed" ELSE "none"
             r == [call[c] EXCEPT !.method = end, !.answer = answer]
  <2>4. Step(c, r)
    BY <2>1, <2>2, <2>3 DEF First, FutureEnd
  <2>5. r \in CallRecord
    BY <1>1, <2>3 DEF CallRecord
  <2>6. Consistent(r) /\ Truthful(r) /\ (Through(r) => Through(call[c]))
    BY <1>1, <2>1, <2>3 DEF CallRecord, Consistent, Truthful, Through, Waiting, FutureEnd
  <2> QED BY <2>1, <2>4, <2>5, <2>6, PlainStep
<1> QED BY <1>2, <1>3, <1>4, <1>5, <1>6

-----------------------------------------------------------------------------
(* The theorems                                                             *)

(* The invariant holds of every reachable state.                            *)
THEOREM InvCorrect == Spec => []Inv
<1>1. Init => Inv
  <2> SUFFICES ASSUME Init PROVE Inv
    OBVIOUS
  <2> DEFINE Fresh == {[kind |-> k, caller |-> "idle", pc |-> "unsent",
                        method |-> "none", answer |-> "none"] : k \in Kind}
  <2>1. ASSUME NEW c \in Call
        PROVE  /\ call[c] \in CallRecord
               /\ call[c].caller = "idle" /\ call[c].pc = "unsent"
               /\ call[c].method = "none" /\ call[c].answer = "none"
    <3>1. call[c] \in Fresh
      BY DEF Init
    <3>2. PICK k \in Kind :
             call[c] = [kind |-> k, caller |-> "idle", pc |-> "unsent",
                        method |-> "none", answer |-> "none"]
      BY <3>1
    <3> QED BY <3>2 DEF CallRecord
  <2>2. TypeOK
    <3>1. call = [c \in Call |-> call[c]]
      BY DEF Init
    <3> QED BY <3>1, <2>1 DEF Init, TypeOK
  <2>3. CallInv
    BY <2>1 DEF CallInv, Consistent, Truthful, Waiting
  <2> QED BY <2>1, <2>2, <2>3 DEF Init, Inv, ChainInv, Through
<1>2. Inv /\ [Next]_vars => Inv'
  <2> SUFFICES ASSUME Inv, [Next]_vars PROVE Inv'
    OBVIOUS
  <2>1. CASE Next
    <3>1. PICK c \in Call : \/ Invoke(c) \/ Deliver(c) \/ GiveUp(c)
                            \/ Serve(c) \/ MethodEnds(c)
      BY <2>1 DEF Next
    <3> QED BY <3>1, ClientStep, ChainStep, HandlerStep, MethodStep
            DEF Serve, MethodEnds
  <2>2. CASE UNCHANGED vars
    BY <2>2 DEF vars, Inv, TypeOK, CallInv, ChainInv, Consistent, Truthful, Through
  <2> QED BY <2>1, <2>2
<1> QED BY <1>1, <1>2, PTL DEF Spec

(* The variables have their types.                                          *)
THEOREM TypeCorrect == Spec => []TypeOK
<1>1. Inv => TypeOK
  BY DEF Inv
<1> QED BY <1>1, InvCorrect, PTL

(* The answer to an operation says what became of its method, whatever      *)
(* threads answer it and in which order.                                    *)
THEOREM AnswerMatchesMethodCorrect == Spec => []AnswerMatchesMethod
<1>1. Inv => AnswerMatchesMethod
  BY DEF Inv, CallInv, Consistent, AnswerMatchesMethod, Invoked
<1> QED BY <1>1, InvCorrect, PTL

(* A value at the caller means success at the server.                       *)
THEOREM ValueMeansSuccessCorrect == Spec => []ValueMeansSuccess
<1>1. Inv => ValueMeansSuccess
  BY DEF Inv, CallInv, Truthful, ValueMeansSuccess
<1> QED BY <1>1, InvCorrect, PTL

(* An operation the handler is through with is answered, but for the cases  *)
(* named.                                                                   *)
THEOREM UnansweredForAReasonCorrect == Spec => []UnansweredForAReason
<1>1. Inv => UnansweredForAReason
  BY DEF Inv, CallInv, Consistent, UnansweredForAReason
<1> QED BY <1>1, InvCorrect, PTL

(* Methods get an initialized instance, unless a thread has yet to return   *)
(* from initializeInstance or one threw there.                              *)
THEOREM ChainMeansReadyCorrect == Spec => []ChainMeansReady
<1>1. Inv => ChainMeansReady
  BY DEF Inv, ChainInv, Through, Invoked, ChainMeansReady
<1> QED BY <1>1, InvCorrect, PTL

-----------------------------------------------------------------------------
(* What the documentation says, where it is true                            *)

(* If futures end with a result that can be a body or with an exception     *)
(* that has a cause, "all possible scenarios" are covered: the operation of *)
(* an asynchronous method that ended is answered.                           *)
THEOREM AnsweredIfFuturesBehave ==
    ASSUME FutureEnds \subseteq {"value", "exception"}
    PROVE  Spec => []AnsweredInAllScenarios
<1>1. Inv => AnsweredInAllScenarios
  <2> SUFFICES ASSUME Inv, NEW c \in Call, call[c].kind = "async",
                      call[c].method \in FutureEnd
               PROVE  call[c].answer # "none"
    BY DEF AnsweredInAllScenarios
  <2>1. call[c] \in CallRecord /\ Consistent(call[c])
    BY Before
  <2>2. call[c].method \notin {"none", "running", "unbindable", "nocause"}
    BY <2>1 DEF Consistent, FutureEnd
  <2>3. call[c].pc = "over"
    BY <2>1, <2>2 DEF Consistent, CallRecord, Waiting, FutureEnd
  <2> QED BY <2>1, <2>2, <2>3 DEF Consistent
<1> QED BY <1>1, InvCorrect, PTL

-----------------------------------------------------------------------------
(* JaxRsCall implements RemoteCall                                          *)

Mask == "change" \in InterceptorMay \/ "value" \in HandlerMay

(* what a step of RemoteCall may make of a call, stutters included          *)
Moves(a, b) ==
    \/ b = a
    \/ /\ a.method = "none" /\ a.reply = "none"
       /\ b \in {[a EXCEPT !.method = "running"], [a EXCEPT !.reply = "rejected"],
                 [a EXCEPT !.reply = "failed"]}
    \/ /\ a.method = "running"
       /\ \E reply \in {"none", "ok", "failed"} :
             b = [method |-> "ended", reply |-> reply, told |-> a.told]
    \/ /\ a.method = "ended" /\ a.reply = "none"
       /\ \E reply \in {"ok", "failed"} : b = [a EXCEPT !.reply = reply]
    \/ /\ a.told = "nothing"
       /\ \/ b = [a EXCEPT !.told = "error"]
          \/ (a.reply = "ok" \/ Mask) /\ b = [a EXCEPT !.told = "value"]

RStep == [Remote!RNext]_([c \in Call |-> Seen(call[c])])

(* A step that changes one call in one of these ways is a step of           *)
(* RemoteCall or a stutter.                                                 *)
LEMMA MovesRefine ==
    ASSUME TypeOK, NEW c \in Call, NEW r, Update(c, r),
           Moves(Seen(call[c]), Seen(r))
    PROVE  RStep
<1> DEFINE remote == [d \in Call |-> Seen(call[d])]
           a == remote[c]
           b == Seen(r)
<1>1. call \in [Call -> CallRecord] /\ call' = [call EXCEPT ![c] = r]
  BY DEF TypeOK, Update
<1>2. remote' = [remote EXCEPT ![c] = b]
  BY <1>1
<1>3. CASE b = a
  BY <1>2, <1>3 DEF RStep
<1>4. CASE b # a
  <2>1. a = Seen(call[c])
    OBVIOUS
  <2> HIDE DEF b, remote
  <2>2. \/ Remote!Run(c) \/ Remote!Refuse(c) \/ Remote!End(c)
        \/ Remote!Reply(c) \/ Remote!Tell(c)
    BY <1>2, <1>4, <2>1
       DEF Moves, Mask, remote, b, Remote!Run, Remote!Refuse, Remote!End, Remote!Reply,
           Remote!Tell, Remote!Become
  <2> QED BY <2>2 DEF RStep, Remote!RNext
<1> QED BY <1>3, <1>4

(* What is seen of the end of a method, and of an answer after it.          *)
LEMMA EndMoves ==
    ASSUME NEW s, NEW r,
           s.method = "running", r.method \notin {"none", "running"},
           r.answer \in {"none", "ok", "failed"}, r.caller = s.caller
    PROVE  Moves(Seen(s), Seen(r))
<1>1. Seen(r) = [method |-> "ended", reply |-> r.answer, told |-> Seen(s).told]
  BY DEF Seen
<1>2. Seen(s).method = "running"
  BY DEF Seen
<1> QED BY <1>1, <1>2 DEF Moves

LEMMA ReplyMoves ==
    ASSUME NEW s, NEW r,
           s.method \notin {"none", "running"}, r.method = s.method,
           s.answer = "none", r.answer \in {"ok", "failed"}, r.caller = s.caller
    PROVE  Moves(Seen(s), Seen(r))
<1>1. Seen(r) = [Seen(s) EXCEPT !.reply = r.answer]
  BY DEF Seen
<1>2. Seen(s).method = "ended" /\ Seen(s).reply = "none"
  BY DEF Seen
<1> QED BY <1>1, <1>2 DEF Moves

(* What is seen of the end of a call for its caller.                        *)
LEMMA TellMoves ==
    ASSUME NEW s, NEW r, r.method = s.method, r.answer = s.answer,
           s.caller \notin {"value", "error"},
           r.caller = "value" => s.answer = "ok" \/ Mask
    PROVE  Moves(Seen(s), Seen(r))
<1>1. Seen(s).told = "nothing" /\ Seen(s).reply = s.answer
  BY DEF Seen
<1>2. CASE r.caller = "error"
  <2>1. Seen(r) = [Seen(s) EXCEPT !.told = "error"]
    BY <1>2 DEF Seen
  <2> QED BY <1>1, <2>1 DEF Moves
<1>3. CASE r.caller = "value"
  <2>1. Seen(r) = [Seen(s) EXCEPT !.told = "value"]
    BY <1>3 DEF Seen
  <2> QED BY <1>1, <1>3, <2>1 DEF Moves
<1>4. CASE r.caller \notin {"value", "error"}
  <2>1. Seen(r) = Seen(s)
    BY <1>4 DEF Seen
  <2> QED BY <2>1 DEF Moves
<1> QED BY <1>2, <1>3, <1>4

(* Calling, being answered and giving up tell the caller.                   *)
LEMMA ClientMoves ==
    ASSUME Inv, NEW c \in Call, Invoke(c) \/ Deliver(c) \/ GiveUp(c)
    PROVE  RStep
<1>1. call[c] \in CallRecord /\ TypeOK
  BY Before DEF Inv
<1>2. CASE Invoke(c)
  <2>1. PICK r \in {[call[c] EXCEPT !.caller = "waiting", !.pc = "sent"],
                    [call[c] EXCEPT !.caller = "error"]} : Update(c, r)
    BY <1>2 DEF Invoke, Step
  <2>2. /\ r.method = call[c].method /\ r.answer = call[c].answer
        /\ r.caller \in {"waiting", "error"} /\ call[c].caller = "idle"
    BY <1>1, <1>2, <2>1 DEF Invoke, CallRecord
  <2>3. Moves(Seen(call[c]), Seen(r))
    BY <2>2, TellMoves
  <2> QED BY <1>1, <2>1, <2>3, MovesRefine
<1>3. ASSUME Deliver(c) \/ GiveUp(c) PROVE RStep
  <2>1. PICK failed \in BOOLEAN : /\ failed \/ call[c].answer = "ok"
                                  /\ \E result \in Result(failed) :
                                        Step(c, [call[c] EXCEPT !.caller = result])
                                  /\ call[c].caller = "waiting"
    BY <1>3 DEF Deliver, GiveUp
  <2>2. PICK result \in Result(failed) : Step(c, [call[c] EXCEPT !.caller = result])
    BY <2>1
  <2> DEFINE r == [call[c] EXCEPT !.caller = result]
  <2>3. /\ result \in {"value", "error", "forgotten"}
        /\ result = "value" => call[c].answer = "ok" \/ Mask
    BY <2>1, ResultType DEF Mask
  <2>4. Moves(Seen(call[c]), Seen(r))
    <3>1. r.method = call[c].method /\ r.answer = call[c].answer /\ r.caller = result
      BY <1>1 DEF CallRecord
    <3> HIDE DEF r
    <3> QED BY <2>1, <2>3, <3>1, TellMoves
  <2>5. Update(c, r)
    BY <2>2 DEF Step
  <2> QED BY <1>1, <2>4, <2>5, MovesRefine
<1> QED BY <1>2, <1>3

(* The service runs the method or refuses to, and answers once it ended.    *)
LEMMA ServerMoves ==
    ASSUME Inv, NEW c \in Call,
           \/ LookUpChain(c) \/ SetChain(c) \/ InitializeInstance(c) \/ ChainThrows(c)
           \/ FindMethodInputs(c) \/ RejectInputs(c) \/ InvokeMethod(c)
    PROVE  RStep
<1>1. call[c] \in CallRecord /\ Consistent(call[c]) /\ TypeOK
  BY Before DEF Inv
<1>2. CASE LookUpChain(c) \/ SetChain(c) \/ InitializeInstance(c) \/ FindMethodInputs(c)
  <2>1. PICK pc \in {"inputs", "build", "initialize", "invoke"} :
           Update(c, [call[c] EXCEPT !.pc = pc])
    BY <1>2 DEF LookUpChain, SetChain, InitializeInstance, FindMethodInputs, Step
  <2>2. Seen([call[c] EXCEPT !.pc = pc]) = Seen(call[c])
    BY <1>1 DEF CallRecord, Seen
  <2> QED BY <1>1, <2>1, <2>2, MovesRefine DEF Moves
<1>3. CASE RejectInputs(c)
  <2> DEFINE r == [call[c] EXCEPT !.pc = "over", !.answer = "rejected"]
  <2>1. call[c].pc = "inputs" /\ Update(c, r)
    BY <1>1, <1>3 DEF RejectInputs, First, Consistent, Waiting, Step
  <2>2. Moves(Seen(call[c]), Seen(r))
    BY <1>1, <2>1 DEF CallRecord, Consistent, Waiting, Moves, Seen
  <2> QED BY <1>1, <2>1, <2>2, MovesRefine
<1>4. CASE InvokeMethod(c)
  <2> DEFINE r == [call[c] EXCEPT !.pc = "inside", !.method = "running"]
  <2>1. call[c].pc = "invoke" /\ Update(c, r)
    BY <1>4 DEF InvokeMethod, Step
  <2>2. Moves(Seen(call[c]), Seen(r))
    BY <1>1, <2>1 DEF CallRecord, Consistent, Waiting, Moves, Seen
  <2> QED BY <1>1, <2>1, <2>2, MovesRefine
<1>5. CASE ChainThrows(c)
  <2> DEFINE pc == IF call[c].pc = "initialize" THEN "aborted" ELSE "over"
             r == [call[c] EXCEPT !.pc = pc, !.answer = "failed"]
  <2>1. call[c].pc \in {"build", "initialize"} /\ Update(c, r)
    BY <1>1, <1>5 DEF ChainThrows, First, Consistent, Waiting, Step, CallRecord
  <2>2. Moves(Seen(call[c]), Seen(r))
    BY <1>1, <2>1 DEF CallRecord, Consistent, Waiting, Moves, Seen
  <2> QED BY <1>1, <2>1, <2>2, MovesRefine
<1> QED BY <1>2, <1>3, <1>4, <1>5

(* A method ends at most once, and what answers it is the first to.         *)
LEMMA MethodMoves ==
    ASSUME Inv, NEW c \in Call,
           \/ MethodThrows(c) \/ MethodReturns(c) \/ Complete(c)
           \/ MethodAnswers(c) \/ FutureCompletes(c)
    PROVE  RStep
<1>1. call[c] \in CallRecord /\ Consistent(call[c]) /\ TypeOK
  BY Before DEF Inv
<1>2. CASE MethodThrows(c)
  <2> DEFINE method == IF call[c].method = "answered" THEN "answered" ELSE "exception"
             r == [call[c] EXCEPT !.pc = "over", !.answer = First(c, "failed"),
                                  !.method = method]
  <2>1. call[c].pc = "inside" /\ Update(c, r)
    BY <1>1, <1>2 DEF MethodThrows, CallRecord, Step
  <2>2. Moves(Seen(call[c]), Seen(r))
    <3>1. CASE call[c].method = "running"
      <4>1. /\ r.method = "exception" /\ r.answer = "failed" /\ r.caller = call[c].caller
        BY <1>1, <2>1, <3>1 DEF CallRecord, Consistent, First
      <4> HIDE DEF r
      <4> QED BY <3>1, <4>1, EndMoves
    <3>2. CASE call[c].method # "running"
      <4>1. Seen(r) = Seen(call[c])
        BY <1>1, <2>1, <3>2 DEF CallRecord, Consistent, First, Seen
      <4> HIDE DEF r
      <4> QED BY <4>1 DEF Moves
    <3> QED BY <3>1, <3>2
  <2> QED BY <1>1, <2>1, <2>2, MovesRefine
<1>3. CASE MethodReturns(c)
  <2> DEFINE bound == [call[c] EXCEPT !.pc = "bind", !.method = "value"]
             kept == [call[c] EXCEPT !.pc = "over"]
             null == [call[c] EXCEPT !.pc = "over", !.method = "exception",
                                     !.answer = First(c, "failed")]
  <2>1. /\ call[c].pc = "inside"
        /\ call[c].kind \in Kind
        /\ \/ call[c].kind = "sync" /\ Update(c, bound)
           \/ call[c].kind = "async" /\ (Update(c, kept) \/ Update(c, null))
           \/ call[c].kind = "operation" /\ Update(c, kept)
    BY <1>1, <1>3 DEF MethodReturns, Kind, CallRecord, Step
  <2>2. CASE call[c].kind = "sync" /\ Update(c, bound)
    <3>1. /\ call[c].method = "running"
          /\ bound.method = "value" /\ bound.answer = "none"
          /\ bound.caller = call[c].caller
      BY <1>1, <2>1, <2>2 DEF CallRecord, Consistent
    <3> HIDE DEF bound
    <3>2. Moves(Seen(call[c]), Seen(bound))
      BY <3>1, EndMoves
    <3> QED BY <1>1, <2>2, <3>2, MovesRefine
  <2>3. CASE Update(c, kept)
    <3>1. Moves(Seen(call[c]), Seen(kept))
      BY <1>1 DEF CallRecord, Moves, Seen
    <3> QED BY <1>1, <2>3, <3>1, MovesRefine
  <2>4. CASE call[c].kind = "async" /\ Update(c, null)
    <3>1. /\ call[c].method = "running"
          /\ null.method = "exception" /\ null.answer = "failed"
          /\ null.caller = call[c].caller
      BY <1>1, <2>1, <2>4 DEF CallRecord, Consistent, First
    <3> HIDE DEF null
    <3>2. Moves(Seen(call[c]), Seen(null))
      BY <3>1, EndMoves
    <3> QED BY <1>1, <2>4, <3>2, MovesRefine
  <2> QED BY <2>1, <2>2, <2>3, <2>4
<1>4. CASE Complete(c)
  <2>1. PICK answer \in {"ok", "failed"} :
           Update(c, [call[c] EXCEPT !.pc = "over", !.answer = First(c, answer)])
    BY <1>4 DEF Complete, Step
  <2> DEFINE r == [call[c] EXCEPT !.pc = "over", !.answer = First(c, answer)]
  <2>2. Moves(Seen(call[c]), Seen(r))
    <3>1. /\ call[c].method = "value" /\ call[c].answer = "none"
          /\ r.method = "value" /\ r.answer = answer /\ r.caller = call[c].caller
      BY <1>1, <1>4 DEF Complete, CallRecord, Consistent, First
    <3> HIDE DEF r
    <3> QED BY <3>1, ReplyMoves
  <2> QED BY <1>1, <2>1, <2>2, MovesRefine
<1>5. CASE MethodAnswers(c)
  <2>1. PICK answer \in {"ok", "failed"} :
           Update(c, [call[c] EXCEPT !.method = "answered", !.answer = First(c, answer)])
    BY <1>5 DEF MethodAnswers, Step
  <2> DEFINE r == [call[c] EXCEPT !.method = "answered", !.answer = First(c, answer)]
  <2>2. Moves(Seen(call[c]), Seen(r))
    <3>1. /\ call[c].method = "running" /\ r.method = "answered"
          /\ r.answer = answer /\ r.caller = call[c].caller
      BY <1>1, <1>5 DEF MethodAnswers, CallRecord, Consistent, First
    <3> HIDE DEF r
    <3> QED BY <3>1, EndMoves
  <2> QED BY <1>1, <2>1, <2>2, MovesRefine
<1>6. CASE FutureCompletes(c)
  <2>1. call[c].method = "running" /\ call[c].answer = "none"
    BY <1>1, <1>6 DEF FutureCompletes, Consistent
  <2>2. PICK end \in FutureEnds :
           Update(c, [call[c] EXCEPT
                        !.method = end,
                        !.answer = CASE end = "value" -> First(c, "ok")
                                     [] end = "exception" -> First(c, "failed")
                                     [] OTHER -> call[c].answer])
    BY <1>6 DEF FutureCompletes, Step
  <2>3. end \in FutureEnd
    BY CallAssumption
  <2> DEFINE answer == IF end = "value" THEN "ok"
                       ELSE IF end = "exception" THEN "failed" ELSE "none"
             r == [call[c] EXCEPT !.method = end, !.answer = answer]
  <2>4. Update(c, r)
    BY <2>1, <2>2, <2>3 DEF First, FutureEnd
  <2>5. Moves(Seen(call[c]), Seen(r))
    <3>1. /\ r.method \notin {"none", "running"} /\ r.answer \in {"none", "ok", "failed"}
          /\ r.caller = call[c].caller
      BY <1>1, <2>3 DEF CallRecord, FutureEnd
    <3> HIDE DEF r
    <3> QED BY <2>1, <3>1, EndMoves
  <2> QED BY <1>1, <2>4, <2>5, MovesRefine
<1> QED BY <1>2, <1>3, <1>4, <1>5, <1>6

(* Whatever threads, futures, interceptors and error handlers do, a call is *)
(* a RemoteCall: its method runs at most once and not after an answer, the  *)
(* first answer stands, the caller is told once, of a success only if there *)
(* was one or failures are masked.                                          *)
THEOREM Refinement == Spec => RemoteCallSpec
<1>1. Init => Remote!RInit
  BY DEF Init, Remote!RInit, Remote!Untouched, Seen
<1>2. Inv /\ [Next]_vars => [Remote!RNext]_([c \in Call |-> Seen(call[c])])
  <2> SUFFICES ASSUME Inv, [Next]_vars PROVE RStep
    BY DEF RStep
  <2>1. CASE Next
    <3>1. PICK c \in Call : \/ Invoke(c) \/ Deliver(c) \/ GiveUp(c)
                            \/ Serve(c) \/ MethodEnds(c)
      BY <2>1 DEF Next
    <3> QED BY <3>1, ClientMoves, ServerMoves, MethodMoves DEF Serve, MethodEnds
  <2>2. CASE UNCHANGED vars
    BY <2>2 DEF vars, RStep
  <2> QED BY <2>1, <2>2
<1> QED BY <1>1, <1>2, InvCorrect, PTL DEF Spec, RemoteCallSpec, Remote!RSpec
=============================================================================
