------------------------------- MODULE FSMStats -------------------------------
(***************************************************************************)
(* The monitoring service of a host: the map in which FSM services register*)
(* when one of their documents is created, and its answers to the requests *)
(* of the monitoring page.                                                 *)
(*                                                                         *)
(* The map is a HashMap that requests on many threads put into and read.   *)
(* A put that adds a key while another one does may lose either entry, a   *)
(* read beside it may fail.                                                *)
(***************************************************************************)
EXTENDS Naturals, SequencesExt

CONSTANTS
    Service,       \* links that may come to stand in the map
    Started,       \* those of them that are factories of FSM services
    Document,      \* links of their documents; a link is its pieces of text
    Manual,        \* services the host registers itself when it starts
    Failures,      \* how requests may fail on the way: pairs of status and error
    MaxDocuments,  \* bound: documents created
    MaxLosses      \* bound: crashes of the host and deletions together

(* where the last "/" of a link stands *)
LastSlash(link) ==
    CHOOSE i \in DOMAIN link :
        link[i] = "/" /\ \A j \in DOMAIN link : j > i => link[j] # "/"

(* docGraphson: the link up to the last "/" *)
Factory(document) == SubSeq(document, 1, LastSlash(document) - 1)

(* "/" + getSelfId(), read as a regular expression: "." stands for any text *)
Pattern(document) == SubSeq(document, LastSlash(document), Len(document))

Matches(pattern, text, i) ==
    /\ i + Len(pattern) - 1 <= Len(text)
    /\ \A k \in DOMAIN pattern : pattern[k] \in {".", text[i + k - 1]}

(* handleCreate: replaceAll cuts the pattern wherever it matches, also as   *)
(* the beginning of a longer segment, looking from left to right.           *)
Cut(document) ==
    LET pattern == Pattern(document)
        rest[i \in 1 .. Len(document) + 1] ==
            CASE i > Len(document)        -> << >>
              [] i <= Len(document) /\ Matches(pattern, document, i)
                                          -> rest[i + Len(pattern)]
              [] OTHER                    -> <<document[i]>> \o rest[i + 1]
    IN  rest[1]

(* the link a document registers *)
svcUri == [document \in Document |-> Cut(document)]

(* the id of the document matches elsewhere in its link *)
RepeatsId(document) ==
    \E i \in 1 .. LastSlash(document) - 1 : Matches(Pattern(document), document, i)

ASSUME StatsAssumption ==
    /\ \A d \in Document : d \in Seq(STRING) /\ \E i \in DOMAIN d : d[i] = "/"
    /\ \A d \in Document : Factory(d) \in Started /\ svcUri[d] \in Service
    /\ Started \subseteq Service
    /\ Manual \subseteq Service
    /\ Failures \subseteq ({0, 404, 500, 503} \X {"error"}) \cup {<<200, "parsererror">>}
    /\ MaxDocuments \in Nat /\ MaxLosses \in Nat

VARIABLES
    up,          \* the host runs
    documents,   \* documents that exist
    fsmSvcs,     \* keys of the map
    create,      \* progress of handleCreate for each document
    seen,        \* keys a put found when it began
    overlapped,  \* history: documents whose put ran beside the put of
                 \* another key
    crashes      \* number of crashes

statsVars == <<up, documents, fsmSvcs, create, seen, overlapped, crashes>>

StatsInit ==
    /\ up = TRUE
    /\ documents = {}
    /\ fsmSvcs = Manual
    /\ create = [d \in Document |-> "none"]
    /\ seen = [d \in Document |-> {}]
    /\ overlapped = {}
    /\ crashes = 0

(* puts under way of another key than the document's *)
PuttingBeside(d) ==
    {e \in Document : create[e] = "putting" /\ svcUri[e] # svcUri[d]}

Putting == {d \in Document : create[d] = "putting"}

Created == {d \in Document : create[d] # "none"}

MayLose == crashes + Cardinality(Created \ documents) < MaxLosses

(* a put that adds a key is under way: what reads the map may trip over it  *)
Disturbed == \E d \in Putting : svcUri[d] \notin seen[d]

-----------------------------------------------------------------------------
(* handleCreate completes the POST, then registers the service by a call it *)
(* waits for.                                                               *)
HandleCreate(d) ==
    /\ up
    /\ create[d] = "none" /\ Cardinality(Created) < MaxDocuments
    /\ documents' = documents \cup {d}
    /\ create' = [create EXCEPT ![d] = "registering"]
    /\ UNCHANGED <<up, fsmSvcs, seen, overlapped, crashes>>

BeginPut(d) ==
    /\ up
    /\ create[d] = "registering"
    /\ create' = [create EXCEPT ![d] = "putting"]
    /\ seen' = [seen EXCEPT ![d] = fsmSvcs]
    /\ overlapped' = IF PuttingBeside(d) = {} THEN overlapped
                     ELSE overlapped \cup PuttingBeside(d) \cup {d}
    /\ UNCHANGED <<up, documents, fsmSvcs, crashes>>

(* Faulty variant of EndPut: the map is replaced by a map of the one key. *)
EndPutReplaces(d) ==
    /\ create[d] = "putting"
    /\ fsmSvcs' = {svcUri[d]}
    /\ create' = [create EXCEPT ![d] = "registered"]
    /\ seen' = [seen EXCEPT ![d] = {}]
    /\ UNCHANGED <<up, documents, overlapped, crashes>>

(* A key that is there gets a new value.  A new one goes to the table the   *)
(* put began with, which drops what was added to another since, or to the   *)
(* current one.                                                             *)
EndPut(d) ==
    /\ create[d] = "putting"
    /\ IF svcUri[d] \in seen[d] THEN UNCHANGED fsmSvcs
       ELSE \E table \in {fsmSvcs, seen[d]} : fsmSvcs' = table \cup {svcUri[d]}
    /\ create' = [create EXCEPT ![d] = "registered"]
    /\ seen' = [seen EXCEPT ![d] = {}]
    /\ UNCHANGED <<up, documents, overlapped, crashes>>

(* Faulty variant of RegistrationFails: the exception is swallowed. *)
RegistrationFailsUnnoticed(d) ==
    /\ create[d] = "registering"
    /\ create' = [create EXCEPT ![d] = "registered"]
    /\ UNCHANGED <<up, documents, fsmSvcs, seen, overlapped, crashes>>

(* The stats service is not started, the class cannot be instantiated, or   *)
(* the id is no regular expression: handleCreate throws, after the POST was *)
(* answered.                                                                *)
RegistrationFails(d) ==
    /\ create[d] = "registering"
    /\ create' = [create EXCEPT ![d] = "failed"]
    /\ UNCHANGED <<up, documents, fsmSvcs, seen, overlapped, crashes>>

DeleteDocument(d) ==
    /\ up
    /\ d \in documents /\ MayLose
    /\ documents' = documents \ {d}
    /\ UNCHANGED <<up, fsmSvcs, create, seen, overlapped, crashes>>

(* The map is memory, the documents are not.                                *)
HostCrash ==
    /\ up
    /\ MayLose
    /\ up' = FALSE
    /\ fsmSvcs' = {}
    /\ create' = [d \in Document |-> IF create[d] = "none" THEN "none" ELSE "lost"]
    /\ seen' = [d \in Document |-> {}]
    /\ overlapped' = {}
    /\ crashes' = crashes + 1
    /\ UNCHANGED documents

(* handleCreate does not run again for the documents there are.             *)
HostStart ==
    /\ ~ up
    /\ up' = TRUE
    /\ fsmSvcs' = Manual
    /\ UNCHANGED <<documents, create, seen, overlapped, crashes>>

-----------------------------------------------------------------------------
(* Answers.  status and error are what the browser makes of them; links are *)
(* the services or the documents listed.                                    *)
Ok(links) == [status |-> 200, error |-> "", links |-> links]
Failed(status, error) == [status |-> status, error |-> error, links |-> {}]

ServerError == Failed(500, "error")

(* fsmSvcs.get(service) of a missing key is null, and dereferenced          *)
Graph(service) ==
    (IF service \in fsmSvcs THEN {Ok({})} ELSE {ServerError})
    \cup (IF Disturbed THEN {ServerError} ELSE {})

allServices == {Ok(fsmSvcs)} \cup (IF Disturbed THEN {ServerError} ELSE {})

svcGraphson(service) == Graph(service)

docGraphson(document) == Graph(Factory(document))

(* GET on the factory: the links of its documents *)
documentLinks(service) ==
    {IF service \in Started THEN Ok({d \in documents : Factory(d) = service})
     ELSE Failed(404, "error")}

NetworkFailures == {Failed(f[1], f[2]) : f \in Failures}

StatsNext ==
    \/ \E d \in Document : \/ HandleCreate(d) \/ BeginPut(d) \/ EndPut(d)
                           \/ RegistrationFails(d) \/ DeleteDocument(d)
    \/ HostCrash \/ HostStart

-----------------------------------------------------------------------------
(* "For UI to show data, at least a single instance needs to be created     *)
(* after server start up": once handleCreate is over for a document, its    *)
(* service is in the map, however many documents of the service are created *)
(* at the same time.  Two things may prevent it: a put of another service   *)
(* ran beside this one, or the id of the document, read as a regular        *)
(* expression, matches elsewhere in its link.                               *)
ServiceIsListed ==
    \A d \in Document :
        create[d] = "registered" =>
            \/ Factory(d) \in fsmSvcs
            \/ d \in overlapped
            \/ RepeatsId(d)
=============================================================================
