------------------------------ MODULE FSMMonitor ------------------------------
(***************************************************************************)
(* The monitoring page (app.js) together with the service it asks.         *)
(*                                                                         *)
(* The callbacks of the page run one at a time; the requests they send are *)
(* answered, and the answers handled, in any order.                        *)
(***************************************************************************)
EXTENDS FSMStats

CONSTANTS
    None,        \* nothing shown; the option "--"
    MaxClicks,   \* bound: changes of the selection and clicks
    MaxLoads     \* bound: loads of the page

Alert == {"offline", "not found", "server error", "no JSON", "timeout",
          "unknown", "no documents"}

ASSUME MonitorAssumption ==
    /\ None \notin Service \cup Document \cup Alert
    /\ MaxClicks \in Nat /\ MaxLoads \in Nat

VARIABLES
    requests,   \* requests of the page, oldest first, until they are handled
    options,    \* services in the drop-down list
    selected,   \* its value
    svcView,    \* service whose graph is shown
    listed,     \* documents in the list
    docView,    \* document whose graph is shown
    alert,      \* the last alert since a service was selected
    overtaken,  \* history: kinds of request whose answer for the selected
                \* service came before the answer for an earlier one
    clicks, loads

pageVars == <<requests, options, selected, svcView, listed, docView, alert,
              overtaken, clicks, loads>>
vars == <<statsVars, pageVars>>

Pending == [status |-> -1, error |-> "", links |-> {}]

Request(kind, uri) == [kind |-> kind, uri |-> uri, answer |-> Pending]

(* a request of this kind is under way *)
Waits(kind) == \E k \in DOMAIN requests : requests[k].kind = kind

Init ==
    /\ StatsInit
    /\ requests = << >>
    /\ options = {}
    /\ selected = None
    /\ svcView = None
    /\ listed = {}
    /\ docView = None
    /\ alert = None
    /\ overtaken = {}
    /\ clicks = 0
    /\ loads = 0

-----------------------------------------------------------------------------
(* What the user does                                                       *)

(* the page is loaded or loaded again: it asks for the services, once *)
Load ==
    /\ loads < MaxLoads
    /\ loads' = loads + 1
    /\ requests' = <<Request("list", None)>>
    /\ options' = {} /\ selected' = None
    /\ svcView' = None /\ listed' = {} /\ docView' = None /\ alert' = None
    /\ overtaken' = {}
    /\ UNCHANGED <<statsVars, clicks>>

(* Faulty variant of ChangeSelection: only the documents are asked for. *)
ChangeSelectionOfList(service) ==
    /\ clicks < MaxClicks /\ clicks' = clicks + 1
    /\ service \in options \cup {None}
    /\ service # selected
    /\ selected' = service
    /\ requests' = Append(requests, Request("docs", service))
    /\ alert' = None /\ overtaken' = {}
    /\ UNCHANGED <<statsVars, options, svcView, listed, docView, loads>>

(* change of #svcSelect: nothing for "--", otherwise two requests.  The     *)
(* assignment to .html of a jQuery object does not clear the view.          *)
ChangeSelection(service) ==
    /\ clicks < MaxClicks /\ clicks' = clicks + 1
    /\ service \in options \cup {None}
    /\ service # selected
    /\ selected' = service
    /\ IF service = None THEN UNCHANGED <<requests, alert, overtaken>>
       ELSE /\ requests' = requests \o <<Request("svc", service),
                                         Request("docs", service)>>
            /\ alert' = None /\ overtaken' = {}
    /\ UNCHANGED <<statsVars, options, svcView, listed, docView, loads>>

ClickDocument(document) ==
    /\ clicks < MaxClicks /\ clicks' = clicks + 1
    /\ document \in listed
    /\ requests' = Append(requests, Request("doc", document))
    /\ UNCHANGED <<statsVars, options, selected, svcView, listed, docView,
                   alert, overtaken, loads>>

-----------------------------------------------------------------------------
(* The k-th request is answered by the host, or fails on the way.           *)
Answers(request) ==
    IF ~ up THEN {Failed(0, "error")}
    ELSE CASE request.kind = "list" -> allServices
           [] request.kind = "svc"  -> svcGraphson(request.uri)
           [] request.kind = "docs" -> documentLinks(request.uri)
           [] request.kind = "doc"  -> docGraphson(request.uri)

Serve(k) ==
    /\ requests[k].answer = Pending
    /\ \E answer \in Answers(requests[k])
                     \cup NetworkFailures :
          requests' = [requests EXCEPT ![k].answer = answer]
    /\ UNCHANGED <<statsVars, options, selected, svcView, listed, docView,
                   alert, overtaken, clicks, loads>>

-----------------------------------------------------------------------------
(* The callbacks.  Each handles one answer.                                 *)

(* the answer to the newest request of a kind, while older ones wait *)
Overtaken(k) ==
    LET alike == {j \in DOMAIN requests : requests[j].kind = requests[k].kind} IN
    {kind \in {requests[k].kind} \cap {"svc", "docs"} :
        alike # {k} /\ \A j \in alike : j <= k}

Arrives(k) ==
    /\ requests[k].answer # Pending
    /\ requests' = RemoveAt(requests, k)
    /\ overtaken' = overtaken \cup Overtaken(k)
    /\ UNCHANGED <<statsVars, selected, clicks, loads>>

Succeeds(k, kind) ==
    /\ requests[k].kind = kind
    /\ requests[k].answer.status = 200
    /\ requests[k].answer.error = ""

(* the error function of ajaxSetup, tests in this order *)
ErrorAlert(status, error) ==
    CASE status = 0                                -> "offline"
      [] status = 404                              -> "not found"
      [] status = 500                              -> "server error"
      [] status \notin {0, 404, 500} /\ error = "parsererror" -> "no JSON"
      [] status \notin {0, 404, 500} /\ error = "timeout"     -> "timeout"
      [] OTHER                                     -> "unknown"

Alerted(k) ==
    LET answer == requests[k].answer IN
    /\ Arrives(k)
    /\ answer.status # 200 \/ answer.error # ""
    /\ alert' = ErrorAlert(answer.status, answer.error)
    /\ UNCHANGED <<options, svcView, listed, docView>>

ListServices(k) ==
    /\ Arrives(k) /\ Succeeds(k, "list")
    /\ options' = requests[k].answer.links
    /\ UNCHANGED <<svcView, listed, docView, alert>>

ShowService(k) ==
    /\ Arrives(k) /\ Succeeds(k, "svc")
    /\ svcView' = requests[k].uri
    /\ UNCHANGED <<options, listed, docView, alert>>

(* Faulty variants of ListDocuments: the list is not emptied; an empty      *)
(* answer is not reported.                                                  *)
ListDocumentsToo(k) ==
    /\ Arrives(k) /\ Succeeds(k, "docs")
    /\ IF requests[k].answer.links # {}
       THEN /\ listed' = listed \cup requests[k].answer.links
            /\ docView' = None
            /\ UNCHANGED alert
       ELSE /\ alert' = "no documents"
            /\ UNCHANGED <<listed, docView>>
    /\ UNCHANGED <<options, svcView>>
ListDocumentsSilently(k) ==
    /\ Arrives(k) /\ Succeeds(k, "docs")
    /\ IF requests[k].answer.links # {}
       THEN listed' = requests[k].answer.links /\ docView' = None
       ELSE UNCHANGED <<listed, docView>>
    /\ UNCHANGED <<options, svcView, alert>>

(* the list and the graph beside it are replaced, or left as they were *)
ListDocuments(k) ==
    /\ Arrives(k) /\ Succeeds(k, "docs")
    /\ IF requests[k].answer.links # {}
       THEN /\ listed' = requests[k].answer.links
            /\ docView' = None
            /\ UNCHANGED alert
       ELSE /\ alert' = "no documents"
            /\ UNCHANGED <<listed, docView>>
    /\ UNCHANGED <<options, svcView>>

(* Faulty variant of ShowDocument: the graph is that of the factory. *)
ShowDocumentOfSelected(k) ==
    /\ Arrives(k) /\ Succeeds(k, "doc")
    /\ docView' = selected
    /\ UNCHANGED <<options, svcView, listed, alert>>

ShowDocument(k) ==
    /\ Arrives(k) /\ Succeeds(k, "doc")
    /\ docView' = requests[k].uri
    /\ UNCHANGED <<options, svcView, listed, alert>>

-----------------------------------------------------------------------------
Handle(k) ==
    \/ Alerted(k) \/ ListServices(k)
    \/ ShowService(k) \/ ListDocuments(k) \/ ShowDocument(k)

Next ==
    \/ Load
    \/ \E service \in options \cup {None} : ChangeSelection(service)
    \/ \E document \in listed : ClickDocument(document)
    \/ \E k \in DOMAIN requests : Serve(k) \/ Handle(k)
    \/ StatsNext /\ UNCHANGED pageVars

Spec == Init /\ [][Next]_vars

(* Requests are answered or fail, and the browser calls back.               *)
Fairness ==
    /\ WF_vars(\E k \in DOMAIN requests : Serve(k))
    /\ WF_vars(\E k \in DOMAIN requests : Handle(k))

FairSpec == Spec /\ Fairness

-----------------------------------------------------------------------------
AnswerType == [status : {-1, 0, 200, 404, 500, 503},
               error  : {"", "error", "parsererror"},
               links  : SUBSET (Service \cup Document)]

RequestRecord == [kind : {"list", "svc", "docs", "doc"},
                  uri : Service \cup Document \cup {None},
                  answer : AnswerType]

(* Types of the variables.                                                  *)
TypeOK ==
    /\ up \in BOOLEAN
    /\ documents \subseteq Document
    /\ fsmSvcs \subseteq Service
    /\ create \in [Document -> {"none", "registering", "putting", "registered",
                                "failed", "lost"}]
    /\ seen \in [Document -> SUBSET Service]
    /\ overlapped \subseteq Document
    /\ crashes \in Nat
    /\ requests \in Seq(RequestRecord)
    /\ options \subseteq Service
    /\ selected \in Service \cup {None}
    /\ svcView \in Service \cup {None}
    /\ listed \subseteq Document
    /\ docView \in Document \cup {None}
    /\ alert \in Alert \cup {None}
    /\ overtaken \subseteq {"svc", "docs"}
    /\ clicks \in 0 .. MaxClicks
    /\ loads \in 0 .. MaxLoads

(* The list never mixes the documents of two services, however selections,  *)
(* answers, failures and restarts of the host interleave.                   *)
ListIsOfOneService == \A d, e \in listed : Factory(d) = Factory(e)

(* When no request for a graph is under way and nothing was alerted since   *)
(* the service was selected, the graph is that of the selected service, and *)
(* when none for documents is, so is the list: unless the answer for an     *)
(* earlier selection was handled after the answer for this one, which no    *)
(* callback notices.                                                        *)
PageAgreesWithSelection ==
    selected # None /\ alert = None =>
        /\ Waits("svc") \/ "svc" \in overtaken \/ svcView = selected
        /\ \/ Waits("docs") \/ "docs" \in overtaken
           \/ \A d \in listed : Factory(d) = selected

(* As long as the host runs and no puts overlap, what the page offers is    *)
(* registered, however old the lists it shows, so that graphs can be had.   *)
OfferedHasGraphs ==
    crashes = 0 /\ overlapped = {} =>
        /\ options \subseteq fsmSvcs
        /\ \A d \in listed : Factory(d) \in fsmSvcs

(* No selection stays for ever without its graph or an alert, also if the   *)
(* selection was changed before, unless the answer for an earlier selection *)
(* was handled last.                                                        *)
SelectionIsShown ==
    []<>(\/ selected = None
         \/ svcView = selected
         \/ alert # None
         \/ "svc" \in overtaken)

-----------------------------------------------------------------------------
(* What the page says, and does not guarantee                               *)

(* "Select a service to view the configured state machines": when all       *)
(* requests were handled without an alert, that is what is shown.           *)
SelectedIsShown ==
    requests = << >> /\ selected # None /\ alert = None => svcView = selected
=============================================================================
