----------------------------- MODULE RemoteCall -----------------------------
(***************************************************************************)
(* What a call of a contract interface promises, without the threads, the  *)
(* futures and the chain that bring it about: the method runs at most once *)
(* and only while nobody has answered; the first answer is the only one,   *)
(* and none succeeds before the method ended; the caller is told once, and *)
(* is handed a value only after a success.                                 *)
(***************************************************************************)
CONSTANTS
    Call,
    Masked  \* whether the client makes values of failures

VARIABLE remote  \* of each call: its method, the answer to it, what was told

Untouched == [method |-> "none", reply |-> "none", told |-> "nothing"]

RInit == remote = [c \in Call |-> Untouched]

Become(c, r) == remote' = [remote EXCEPT ![c] = r]

(* The call reaches its method, or is refused before it does.               *)
Run(c) ==
    /\ remote[c].method = "none" /\ remote[c].reply = "none"
    /\ Become(c, [remote[c] EXCEPT !.method = "running"])

Refuse(c) ==
    /\ remote[c].method = "none" /\ remote[c].reply = "none"
    /\ \E reply \in {"rejected", "failed"} :
          Become(c, [remote[c] EXCEPT !.reply = reply])

(* The method ends with or without an answer; one may follow.               *)
End(c) ==
    /\ remote[c].method = "running"
    /\ \E reply \in {"none", "ok", "failed"} :
          Become(c, [method |-> "ended", reply |-> reply, told |-> remote[c].told])

Reply(c) ==
    /\ remote[c].method = "ended" /\ remote[c].reply = "none"
    /\ \E reply \in {"ok", "failed"} :
          Become(c, [remote[c] EXCEPT !.reply = reply])

(* The caller may be told of a failure at any time.                         *)
Tell(c) ==
    /\ remote[c].told = "nothing"
    /\ \/ Become(c, [remote[c] EXCEPT !.told = "error"])
       \/ /\ remote[c].reply = "ok" \/ Masked
          /\ Become(c, [remote[c] EXCEPT !.told = "value"])

RNext == \E c \in Call : Run(c) \/ Refuse(c) \/ End(c) \/ Reply(c) \/ Tell(c)

RSpec == RInit /\ [][RNext]_remote
=============================================================================
