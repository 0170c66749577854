---------------------------- MODULE MCFSMMonitor ----------------------------
(* Two services; one has two documents.  The id of the document of the      *)
(* other is the beginning of another segment of its link: "/fsmask" is what *)
(* is left.                                                                 *)
EXTENDS FSMMonitor

Phone == <<"/", "fsm", "/", "phone">>
Task == <<"/", "fsm", "/", "t", "ask">>
Factories == {Phone, Task}
Documents == {Phone \o <<"/", "1">>, Phone \o <<"/", "2">>, Task \o <<"/", "t">>}
Services == Factories \cup {<<"/", "fsm", "ask">>}
AtStart == {Task}

(* Links of up to three segments over a few pieces of text: what is cut     *)
(* leaves the factory unless the id matches elsewhere.                      *)
Segments == {<<a>> : a \in {"t", "ask", "."}}
            \cup {<<a, b>> : a, b \in {"t", "ask", "."}}
Links == {<<"/">> \o a \o <<"/">> \o b : a, b \in Segments}
         \cup {<<"/">> \o a \o <<"/">> \o b \o <<"/">> \o c : a, b, c \in Segments}

ASSUME CutLeavesFactory ==
    \A link \in Links : Cut(link) = Factory(link) <=> ~ RepeatsId(link)
=============================================================================
