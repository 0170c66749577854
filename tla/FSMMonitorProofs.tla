--------------------------- MODULE FSMMonitorProofs ---------------------------
(***************************************************************************)
(* What the registry and the page keep to for any services, documents and  *)
(* failures, however many puts overlap and requests are under way.         *)
(***************************************************************************)
EXTENDS FSMMonitor, SequenceTheorems, WellFoundedInduction, TLAPS

-----------------------------------------------------------------------------
(* Requests                                                                 *)

(* A request names what its kind is about, and its answer lists services,   *)
(* or documents of the service that was asked for.                          *)
Sound(r) ==
    /\ r.kind \in {"svc", "docs"} => r.uri \in Service
    /\ r.kind = "doc" => r.uri \in Document
    /\ r.kind = "list" => r.answer.links \subseteq Service
    /\ r.kind = "docs" =>
          \A d \in r.answer.links : d \in Document /\ Factory(d) = r.uri

SoundRequest == {r \in RequestRecord : Sound(r)}

(* the inductive invariant of the page *)
Inv == /\ TypeOK
       /\ requests \in Seq(SoundRequest)
       /\ ListIsOfOneService

(* what is known of a request under way *)
LEMMA RequestIsSound ==
    ASSUME Inv, NEW k \in DOMAIN requests
    PROVE  requests[k] \in RequestRecord /\ Sound(requests[k])
BY DEF Inv, SoundRequest

(* a sequence of sound requests is one of well-typed requests *)
LEMMA SoundIsTyped ==
    ASSUME NEW s \in Seq(SoundRequest)
    PROVE  s \in Seq(RequestRecord)
<1>1. SoundRequest \subseteq RequestRecord
  BY DEF SoundRequest
<1> QED BY <1>1, SeqMonotonic

LEMMA RemoveAtType ==
    ASSUME NEW S, NEW s \in Seq(S), NEW k \in DOMAIN s
    PROVE  RemoveAt(s, k) \in Seq(S)
BY DEF RemoveAt

(* a request that was just sent *)
LEMMA RequestType ==
    /\ Request("list", None) \in SoundRequest
    /\ \A s \in Service : /\ Request("svc", s) \in SoundRequest
                          /\ Request("docs", s) \in SoundRequest
    /\ \A d \in Document : Request("doc", d) \in SoundRequest
<1>1. Pending \in AnswerType /\ Pending.links = {}
  BY DEF Pending, AnswerType
<1>2. Request("list", None) \in SoundRequest
  BY <1>1 DEF Request, SoundRequest, RequestRecord, Sound
<1>3. ASSUME NEW s \in Service
      PROVE  Request("svc", s) \in SoundRequest /\ Request("docs", s) \in SoundRequest
  BY <1>1 DEF Request, SoundRequest, RequestRecord, Sound
<1>4. ASSUME NEW d \in Document PROVE Request("doc", d) \in SoundRequest
  BY <1>1 DEF Request, SoundRequest, RequestRecord, Sound
<1> QED BY <1>2, <1>3, <1>4

(* Every answer to a request is one its kind may have.                      *)
LEMMA AnswerSound ==
    ASSUME Inv, NEW k \in DOMAIN requests,
           NEW a \in Answers(requests[k]) \cup NetworkFailures
    PROVE  [requests[k] EXCEPT !.answer = a] \in SoundRequest
<1> DEFINE r == requests[k]
<1>1. r \in RequestRecord /\ Sound(r)
  BY RequestIsSound
<1>2. /\ Failed(0, "error") \in AnswerType /\ Failed(0, "error").links = {}
      /\ ServerError \in AnswerType /\ ServerError.links = {}
      /\ Ok({}) \in AnswerType /\ Ok({}).links = {}
  BY DEF Failed, ServerError, Ok, AnswerType
<1>3. a \in AnswerType
      /\ (r.kind = "list" => a.links \subseteq Service)
      /\ (r.kind = "docs" => \A d \in a.links : d \in Document /\ Factory(d) = r.uri)
  <2>1. CASE a \in NetworkFailures
    <3>1. PICK f \in Failures : a = Failed(f[1], f[2])
      BY <2>1 DEF NetworkFailures
    <3>2. f[1] \in {0, 200, 404, 500, 503} /\ f[2] \in {"error", "parsererror"}
      BY StatsAssumption
    <3>3. a.links = {} /\ a \in AnswerType
      BY <3>1, <3>2 DEF Failed, AnswerType
    <3> QED BY <3>3
  <2>2. CASE ~ up /\ a \in Answers(r)
    <3>1. a = Failed(0, "error")
      BY <2>2 DEF Answers
    <3>2. a \in AnswerType /\ a.links = {}
      BY <3>1, <1>2
    <3> QED BY <3>2
  <2>3. CASE up /\ a \in Answers(r) /\ r.kind = "list"
    <3>1. a = Ok(fsmSvcs) \/ a = ServerError
      BY <2>3 DEF Answers, allServices
    <3>2. Ok(fsmSvcs) \in AnswerType /\ Ok(fsmSvcs).links = fsmSvcs /\ fsmSvcs \subseteq Service
      BY DEF Inv, TypeOK, Ok, AnswerType
    <3> QED BY <2>3, <3>1, <3>2, <1>2
  <2>4. CASE up /\ a \in Answers(r) /\ r.kind \in {"svc", "doc"}
    <3>1. a = Ok({}) \/ a = ServerError
      BY <2>4 DEF Answers, svcGraphson, docGraphson, Graph
    <3> QED BY <3>1, <2>4, <1>2
  <2>5. CASE up /\ a \in Answers(r) /\ r.kind = "docs"
    <3> DEFINE D == {d \in documents : Factory(d) = r.uri}
    <3>1. a = Ok(D) \/ a = Failed(404, "error")
      BY <2>5 DEF Answers, documentLinks
    <3>2. D \subseteq Document
      BY DEF Inv, TypeOK
    <3>3. Ok(D) \in AnswerType /\ Ok(D).links = D
      BY <3>2 DEF Ok, AnswerType
    <3>4. Failed(404, "error") \in AnswerType /\ Failed(404, "error").links = {}
      BY DEF Failed, AnswerType
    <3> QED BY <2>5, <3>1, <3>2, <3>3, <3>4
  <2>6. r.kind \in {"list", "svc", "docs", "doc"}
    BY <1>1 DEF RequestRecord
  <2> QED BY <2>1, <2>2, <2>3, <2>4, <2>5, <2>6
<1> QED BY <1>1, <1>3 DEF RequestRecord, SoundRequest, Sound

-----------------------------------------------------------------------------
(* The steps of the page                                                    *)

(* taking an answer off the queue *)
LEMMA ArrivesInv ==
    ASSUME Inv, NEW k \in DOMAIN requests, Arrives(k)
    PROVE  /\ requests' \in Seq(SoundRequest)
           /\ overtaken' \subseteq {"svc", "docs"}
           /\ UNCHANGED <<statsVars, selected, clicks, loads>>
<1>1. requests \in Seq(SoundRequest) /\ requests' = RemoveAt(requests, k)
  BY DEF Inv, Arrives
<1>2. RemoveAt(requests, k) \in Seq(SoundRequest)
  BY <1>1, RemoveAtType
<1>3. overtaken' \subseteq {"svc", "docs"}
  BY DEF Inv, TypeOK, Arrives, Overtaken
<1> QED BY <1>1, <1>2, <1>3 DEF Arrives

LEMMA ErrorAlertType ==
    ASSUME NEW status, NEW error
    PROVE  ErrorAlert(status, error) \in Alert
BY DEF ErrorAlert, Alert

(* Each callback preserves the invariant.                                   *)
LEMMA HandleInv == ASSUME Inv, NEW k \in DOMAIN requests, Handle(k) PROVE Inv'
<1> DEFINE r == requests[k]
<1>1. r \in RequestRecord /\ Sound(r)
  BY RequestIsSound
<1>2. Arrives(k)
  BY DEF Handle, Alerted, ListServices, ShowService, ListDocuments, ShowDocument
<1>3. /\ requests' \in Seq(SoundRequest)
      /\ overtaken' \subseteq {"svc", "docs"}
      /\ UNCHANGED <<statsVars, selected, clicks, loads>>
  BY <1>2, ArrivesInv
<1>4. requests' \in Seq(RequestRecord)
  BY <1>3, SoundIsTyped
<1>5. CASE Alerted(k)
  <2>1. alert' \in Alert /\ UNCHANGED <<options, svcView, listed, docView>>
    BY <1>5, ErrorAlertType DEF Alerted
  <2> QED BY <2>1, <1>3, <1>4 DEF Inv, TypeOK, ListIsOfOneService, statsVars
<1>6. CASE ListServices(k)
  <2>1. options' = r.answer.links /\ UNCHANGED <<svcView, listed, docView, alert>>
    BY <1>6 DEF ListServices
  <2>2. options' \subseteq Service
    BY <1>1, <1>6, <2>1 DEF ListServices, Succeeds, Sound
  <2> QED BY <2>1, <2>2, <1>3, <1>4 DEF Inv, TypeOK, ListIsOfOneService, statsVars
<1>7. CASE ShowService(k)
  <2>1. svcView' \in Service /\ UNCHANGED <<options, listed, docView, alert>>
    BY <1>1, <1>7 DEF ShowService, Succeeds, Sound
  <2> QED BY <2>1, <1>3, <1>4 DEF Inv, TypeOK, ListIsOfOneService, statsVars
<1>8. CASE ListDocuments(k)
  <2>1. \A d \in r.answer.links : d \in Document /\ Factory(d) = r.uri
    BY <1>1, <1>8 DEF ListDocuments, Succeeds, Sound
  <2>2. UNCHANGED <<options, svcView>>
    BY <1>8 DEF ListDocuments
  <2>3. CASE r.answer.links # {}
    <3>1. listed' = r.answer.links /\ docView' = None /\ alert' = alert
      BY <1>8, <2>3 DEF ListDocuments
    <3>2. ListIsOfOneService' /\ listed' \subseteq Document
      BY <2>1, <3>1 DEF ListIsOfOneService
    <3> QED BY <2>2, <3>1, <3>2, <1>3, <1>4 DEF Inv, TypeOK, statsVars
  <2>4. CASE r.answer.links = {}
    <3>1. alert' = "no documents" /\ UNCHANGED <<listed, docView>>
      BY <1>8, <2>4 DEF ListDocuments
    <3>2. alert' \in Alert
      BY <3>1 DEF Alert
    <3> QED BY <2>2, <3>1, <3>2, <1>3, <1>4 DEF Inv, TypeOK, ListIsOfOneService, statsVars
  <2> QED BY <2>3, <2>4
<1>9. CASE ShowDocument(k)
  <2>1. docView' \in Document /\ UNCHANGED <<options, svcView, listed, alert>>
    BY <1>1, <1>9 DEF ShowDocument, Succeeds, Sound
  <2> QED BY <2>1, <1>3, <1>4 DEF Inv, TypeOK, ListIsOfOneService, statsVars
<1> QED BY <1>5, <1>6, <1>7, <1>8, <1>9 DEF Handle

(* So do the steps of the user and of the host on a request.                *)
LEMMA PageStepInv ==
    ASSUME Inv,
           \/ Load
           \/ \E s \in options \cup {None} : ChangeSelection(s)
           \/ \E d \in listed : ClickDocument(d)
           \/ \E k \in DOMAIN requests : Serve(k)
    PROVE  Inv'
<1>1. requests' \in Seq(SoundRequest) =>
        requests' \in Seq(RequestRecord)
  BY SoundIsTyped
<1>2. CASE Load
  <2>1. requests' \in Seq(SoundRequest)
    BY <1>2, RequestType DEF Load
  <2>2. loads' \in 0 .. MaxLoads
    BY <1>2, MonitorAssumption DEF Load, Inv, TypeOK
  <2>3. /\ options' = {} /\ selected' = None /\ svcView' = None
        /\ listed' = {} /\ docView' = None /\ alert' = None
        /\ overtaken' = {}
        /\ UNCHANGED <<statsVars, clicks>>
    BY <1>2 DEF Load
  <2> QED BY <1>1, <2>1, <2>2, <2>3 DEF Inv, TypeOK, ListIsOfOneService, statsVars
<1>3. ASSUME NEW s \in options \cup {None}, ChangeSelection(s) PROVE Inv'
  <2>1. requests' \in Seq(SoundRequest)
    <3>1. CASE s = None
      BY <1>3, <3>1 DEF ChangeSelection, Inv
    <3>2. CASE s # None
      <4>1. s \in Service /\ requests \in Seq(SoundRequest)
        BY <3>2 DEF Inv, TypeOK
      <4>2. requests' = requests \o <<Request("svc", s), Request("docs", s)>>
        BY <1>3, <3>2 DEF ChangeSelection
      <4>3. <<Request("svc", s), Request("docs", s)>> \in Seq(SoundRequest)
        BY <4>1, RequestType
      <4> HIDE DEF SoundRequest
      <4> QED BY <4>1, <4>2, <4>3
    <3> QED BY <3>1, <3>2
  <2>2. clicks' \in 0 .. MaxClicks
    BY <1>3, MonitorAssumption DEF ChangeSelection, Inv, TypeOK
  <2>3. /\ selected' = s /\ alert' \in {alert, None}
        /\ overtaken' \in {overtaken, {}}
        /\ UNCHANGED <<statsVars, options, svcView, listed, docView, loads>>
    BY <1>3 DEF ChangeSelection
  <2> QED BY <1>1, <2>1, <2>2, <2>3 DEF Inv, TypeOK, ListIsOfOneService, statsVars
<1>4. ASSUME NEW d \in listed, ClickDocument(d) PROVE Inv'
  <2>1. requests' \in Seq(SoundRequest)
    <3>1. d \in Document /\ requests \in Seq(SoundRequest)
      BY DEF Inv, TypeOK
    <3> QED BY <1>4, <3>1, RequestType DEF ClickDocument
  <2>2. clicks' \in 0 .. MaxClicks
    BY <1>4, MonitorAssumption DEF ClickDocument, Inv, TypeOK
  <2>3. UNCHANGED <<statsVars, options, selected, svcView, listed, docView, alert, overtaken,
                    loads>>
    BY <1>4 DEF ClickDocument
  <2> QED BY <1>1, <2>1, <2>2, <2>3 DEF Inv, TypeOK, ListIsOfOneService, statsVars
<1>5. ASSUME NEW k \in DOMAIN requests, Serve(k) PROVE Inv'
  <2>1. PICK a \in Answers(requests[k]) \cup NetworkFailures :
          requests' = [requests EXCEPT ![k].answer = a]
    BY <1>5 DEF Serve
  <2>2. requests' = [requests EXCEPT ![k] = [requests[k] EXCEPT !.answer = a]]
    BY <2>1
  <2>3. [requests[k] EXCEPT !.answer = a] \in SoundRequest
    BY AnswerSound
  <2>4. requests' \in Seq(SoundRequest)
    BY <2>2, <2>3 DEF Inv
  <2>5. UNCHANGED <<statsVars, options, selected, svcView, listed, docView, alert,
                    overtaken, clicks, loads>>
    BY <1>5 DEF Serve
  <2> QED BY <1>1, <2>4, <2>5 DEF Inv, TypeOK, ListIsOfOneService, statsVars
<1> QED BY <1>2, <1>3, <1>4, <1>5

-----------------------------------------------------------------------------
(* The registry                                                             *)

(* Types of the variables of the service.                                   *)
StatsType ==
    /\ up \in BOOLEAN
    /\ documents \subseteq Document
    /\ fsmSvcs \subseteq Service
    /\ create \in [Document -> {"none", "registering", "putting", "registered",
                                "failed", "lost"}]
    /\ seen \in [Document -> SUBSET Service]
    /\ overlapped \subseteq Document
    /\ crashes \in Nat

LEMMA StatsTypeStep == ASSUME StatsType, StatsNext PROVE StatsType'
<1>1. ASSUME NEW d \in Document, HandleCreate(d) PROVE StatsType'
  BY <1>1 DEF HandleCreate, StatsType
<1>2. ASSUME NEW d \in Document, BeginPut(d) PROVE StatsType'
  BY <1>2 DEF BeginPut, StatsType, PuttingBeside
<1>3. ASSUME NEW d \in Document, EndPut(d) PROVE StatsType'
  <2>1. svcUri[d] \in Service
    BY StatsAssumption
  <2>2. fsmSvcs' \subseteq Service
    BY <1>3, <2>1 DEF EndPut, StatsType
  <2> QED BY <1>3, <2>2 DEF EndPut, StatsType
<1>4. ASSUME NEW d \in Document, RegistrationFails(d) \/ DeleteDocument(d)
      PROVE  StatsType'
  BY <1>4 DEF RegistrationFails, DeleteDocument, StatsType
<1>5. CASE HostCrash
  <2>1. crashes' \in Nat
    BY <1>5 DEF HostCrash, StatsType
  <2>2. create' \in [Document -> {"none", "lost"}]
    BY <1>5 DEF HostCrash
  <2>3. up' = FALSE /\ fsmSvcs' = {} /\ overlapped' = {} /\ documents' = documents
        /\ seen' \in [Document -> SUBSET Service]
    BY <1>5 DEF HostCrash
  <2> QED BY <2>1, <2>2, <2>3 DEF StatsType
<1>6. CASE HostStart
  BY <1>6, StatsAssumption DEF HostStart, StatsType
<1> QED BY <1>1, <1>2, <1>3, <1>4, <1>5, <1>6 DEF StatsNext

LEMMA InvInit == Init => Inv
<1> SUFFICES ASSUME Init PROVE Inv
  OBVIOUS
<1>1. requests \in Seq(SoundRequest) /\ requests \in Seq(RequestRecord)
  BY DEF Init
<1>2. StatsType
  BY StatsAssumption DEF Init, StatsInit, StatsType
<1> QED BY <1>1, <1>2, MonitorAssumption DEF Init, Inv, TypeOK, StatsType, ListIsOfOneService

LEMMA InvNext == Inv /\ [Next]_vars => Inv'
<1> SUFFICES ASSUME Inv, [Next]_vars PROVE Inv'
  OBVIOUS
<1>1. CASE StatsNext /\ UNCHANGED pageVars
  <2>1. StatsType'
    BY <1>1, StatsTypeStep DEF Inv, TypeOK, StatsType
  <2> QED BY <1>1, <2>1 DEF pageVars, Inv, TypeOK, StatsType, ListIsOfOneService
<1>2. CASE UNCHANGED vars
  BY <1>2 DEF vars, statsVars, pageVars, Inv, TypeOK, ListIsOfOneService
<1>3. ASSUME NEW k \in DOMAIN requests, Handle(k) PROVE Inv'
  BY <1>3, HandleInv
<1> QED BY <1>1, <1>2, <1>3, PageStepInv DEF Next

LEMMA InvCorrect == Spec => []Inv
BY InvInit, InvNext, PTL DEF Spec

(* Types hold in every order of answers, with any failures and restarts.    *)
THEOREM TypeCorrect == Spec => []TypeOK
<1>1. Inv => TypeOK
  BY DEF Inv
<1> QED BY <1>1, InvCorrect, PTL

(* The list of documents is of one service, in every order of answers.      *)
THEOREM ListIsOfOneServiceCorrect == Spec => []ListIsOfOneService
<1>1. Inv => ListIsOfOneService
  BY DEF Inv
<1> QED BY <1>1, InvCorrect, PTL

(* What puts under way know of the map.  Two that put different keys are    *)
(* both marked.  An unmarked one that found its key will leave it there, and*)
(* whoever puts has seen the keys that unmarked puts left, or puts the same.*)
(* While no put is marked, a put knows the whole map but for its own key.   *)
Alone(d) == d \notin overlapped

LinkIsListed ==
    \A d \in Document :
        create[d] = "registered" /\ Alone(d) => svcUri[d] \in fsmSvcs

PutInv ==
    /\ LinkIsListed
    /\ \A d, e \in Putting : svcUri[d] # svcUri[e] => ~ Alone(d) /\ ~ Alone(e)
    /\ \A d \in Putting : Alone(d) /\ svcUri[d] \in seen[d] => svcUri[d] \in fsmSvcs
    /\ \A d \in Document, e \in Putting :
          create[d] = "registered" /\ Alone(d) => svcUri[d] \in seen[e] \cup {svcUri[e]}
    /\ overlapped = {} =>
          \A d \in Putting : /\ seen[d] \subseteq fsmSvcs
                              /\ fsmSvcs \subseteq seen[d] \cup {svcUri[d]}
    /\ ~ up => \A d \in Document : create[d] \in {"none", "lost"}

LEMMA PutStep == ASSUME StatsType, PutInv, StatsNext PROVE PutInv'
<1>0. svcUri' = svcUri
  BY DEF svcUri
<1>1. ASSUME NEW d \in Document,
             HandleCreate(d) \/ RegistrationFails(d) \/ DeleteDocument(d)
      PROVE  PutInv'
  BY <1>0, <1>1 DEF HandleCreate, RegistrationFails, DeleteDocument, StatsType,
              PutInv, LinkIsListed, Putting, Alone
<1>2. ASSUME NEW d \in Document, BeginPut(d) PROVE PutInv'
  <2>1. /\ create' = [create EXCEPT ![d] = "putting"]
        /\ seen' = [seen EXCEPT ![d] = fsmSvcs]
        /\ UNCHANGED <<up, fsmSvcs>> /\ up
        /\ create[d] = "registering"
        /\ overlapped \subseteq overlapped'
    BY <1>2 DEF BeginPut
  <2>2. /\ create'[d] = "putting" /\ seen'[d] = fsmSvcs
        /\ \A e \in Document \ {d} : create'[e] = create[e] /\ seen'[e] = seen[e]
    BY <2>1 DEF StatsType
  <2>3. Putting' = Putting \cup {d} /\ d \notin Putting /\ Putting \subseteq Document
    BY <2>1, <2>2 DEF Putting
  <2>4. \A e \in Putting : svcUri[e] # svcUri[d] => e \in overlapped' /\ d \in overlapped'
    BY <1>2 DEF BeginPut, PuttingBeside, Putting
  <2>5. \A e \in Document : Alone(e)' => Alone(e)
    BY <2>1 DEF Alone
  <2>6. LinkIsListed'
    BY <1>0, <2>1, <2>2, <2>5 DEF PutInv, LinkIsListed
  <2>7. \A e, f \in Putting' :
          svcUri[e] # svcUri[f] => ~ Alone(e)' /\ ~ Alone(f)'
    BY <2>3, <2>4, <2>5 DEF PutInv, Alone
  <2>8. \A e \in Putting' :
          Alone(e)' /\ svcUri[e] \in seen'[e] => svcUri[e] \in fsmSvcs'
    BY <2>1, <2>2, <2>3, <2>5 DEF PutInv
  <2>9. \A e \in Document, f \in Putting' :
          create'[e] = "registered" /\ Alone(e)' =>
              svcUri[e] \in seen'[f] \cup {svcUri[f]}
    <3> SUFFICES ASSUME NEW e \in Document, NEW f \in Putting',
                        create'[e] = "registered", Alone(e)'
                 PROVE  svcUri[e] \in seen'[f] \cup {svcUri[f]}
      OBVIOUS
    <3>1. create[e] = "registered" /\ Alone(e)
      BY <2>1, <2>2, <2>5
    <3>2. CASE f = d
      BY <3>1, <3>2, <2>2 DEF PutInv, LinkIsListed
    <3>3. CASE f # d
      <4>1. f \in Putting /\ seen'[f] = seen[f]
        BY <3>3, <2>2, <2>3
      <4> QED BY <4>1, <3>1 DEF PutInv
    <3> QED BY <3>2, <3>3
  <2>10. overlapped' = {} =>
           \A e \in Putting' : /\ seen'[e] \subseteq fsmSvcs'
                                /\ fsmSvcs' \subseteq seen'[e] \cup {svcUri[e]}
    BY <2>1, <2>2, <2>3 DEF PutInv
  <2> QED BY <1>0, <2>1, <2>6, <2>7, <2>8, <2>9, <2>10 DEF PutInv
<1>3. ASSUME NEW d \in Document, EndPut(d) PROVE PutInv'
  <2>1. /\ create' = [create EXCEPT ![d] = "registered"]
        /\ seen' = [seen EXCEPT ![d] = {}]
        /\ UNCHANGED <<up, overlapped>>
        /\ create[d] = "putting"
    BY <1>3 DEF EndPut
  <2>2. /\ create'[d] = "registered"
        /\ \A e \in Document \ {d} : create'[e] = create[e] /\ seen'[e] = seen[e]
    BY <2>1 DEF StatsType
  <2>3. Putting' = Putting \ {d} /\ d \in Putting /\ Putting \subseteq Document
    BY <2>1, <2>2 DEF Putting
  <2>4. \A e \in Document : Alone(e)' <=> Alone(e)
    BY <2>1 DEF Alone
  <2>5. \/ fsmSvcs' = fsmSvcs /\ svcUri[d] \in seen[d]
        \/ fsmSvcs' = fsmSvcs \cup {svcUri[d]}
        \/ fsmSvcs' = seen[d] \cup {svcUri[d]}
    BY <1>3 DEF EndPut
  <2>6. \A key \in fsmSvcs : key \in seen[d] \cup {svcUri[d]} => key \in fsmSvcs'
    BY <2>5
  <2>7. Alone(d) => svcUri[d] \in fsmSvcs'
    BY <2>3, <2>5 DEF PutInv
  <2>8. LinkIsListed'
    <3> SUFFICES ASSUME NEW e \in Document, create'[e] = "registered", Alone(e)
                 PROVE  svcUri[e] \in fsmSvcs'
      BY <1>0, <2>4 DEF LinkIsListed
    <3>1. CASE e = d
      BY <3>1, <2>7
    <3>2. CASE e # d
      <4>1. create[e] = "registered"
        BY <3>2, <2>2
      <4>2. svcUri[e] \in fsmSvcs /\ svcUri[e] \in seen[d] \cup {svcUri[d]}
        BY <4>1, <2>3 DEF PutInv, LinkIsListed
      <4> QED BY <4>2, <2>6
    <3> QED BY <3>1, <3>2
  <2>9. \A e, f \in Putting' :
          svcUri[e] # svcUri[f] => ~ Alone(e)' /\ ~ Alone(f)'
    BY <2>3, <2>4 DEF PutInv
  <2>10. \A e \in Putting' :
           Alone(e)' /\ svcUri[e] \in seen'[e] => svcUri[e] \in fsmSvcs'
    <3> SUFFICES ASSUME NEW e \in Putting', Alone(e), svcUri[e] \in seen'[e]
                 PROVE  svcUri[e] \in fsmSvcs'
      BY <2>3, <2>4
    <3>1. e \in Putting /\ seen'[e] = seen[e]
      BY <2>2, <2>3
    <3>2. svcUri[e] = svcUri[d]
      BY <3>1, <2>3 DEF PutInv
    <3>3. svcUri[e] \in fsmSvcs
      BY <3>1 DEF PutInv
    <3> QED BY <3>2, <3>3, <2>6
  <2>11. \A e \in Document, f \in Putting' :
           create'[e] = "registered" /\ Alone(e)' =>
               svcUri[e] \in seen'[f] \cup {svcUri[f]}
    <3> SUFFICES ASSUME NEW e \in Document, NEW f \in Putting',
                        create'[e] = "registered", Alone(e)
                 PROVE  svcUri[e] \in seen'[f] \cup {svcUri[f]}
      BY <2>4
    <3>1. f \in Putting /\ f # d /\ seen'[f] = seen[f]
      BY <2>2, <2>3
    <3>2. CASE e = d
      <4>1. svcUri[f] = svcUri[d]
        BY <3>1, <3>2, <2>3 DEF PutInv
      <4> QED BY <4>1, <3>2
    <3>3. CASE e # d
      <4>1. create[e] = "registered"
        BY <3>3, <2>2
      <4> QED BY <3>1, <4>1 DEF PutInv
    <3> QED BY <3>2, <3>3
  <2>12. overlapped' = {} =>
           \A e \in Putting' : /\ seen'[e] \subseteq fsmSvcs'
                                /\ fsmSvcs' \subseteq seen'[e] \cup {svcUri[e]}
    <3> SUFFICES ASSUME overlapped = {}, NEW e \in Putting'
                 PROVE  /\ seen'[e] \subseteq fsmSvcs'
                        /\ fsmSvcs' \subseteq seen'[e] \cup {svcUri[e]}
      BY <2>1
    <3>1. e \in Putting /\ seen'[e] = seen[e]
      BY <2>2, <2>3
    <3>2. svcUri[e] = svcUri[d]
      BY <3>1, <2>3 DEF PutInv, Alone
    <3>3. /\ seen[d] \subseteq fsmSvcs /\ fsmSvcs \subseteq seen[d] \cup {svcUri[d]}
          /\ seen[e] \subseteq fsmSvcs /\ fsmSvcs \subseteq seen[e] \cup {svcUri[e]}
      BY <3>1, <2>3 DEF PutInv
    <3>4. fsmSvcs \subseteq fsmSvcs' /\ fsmSvcs' \subseteq fsmSvcs \cup {svcUri[d]}
      BY <3>3, <2>5
    <3> QED BY <3>1, <3>2, <3>3, <3>4
  <2>13. up
    BY <2>1 DEF PutInv
  <2> QED BY <1>0, <2>1, <2>8, <2>9, <2>10, <2>11, <2>12, <2>13 DEF PutInv
<1>4. CASE HostCrash
  <2>1. \A d \in Document : create'[d] \in {"none", "lost"}
    BY <1>4 DEF HostCrash
  <2>2. Putting' = {}
    BY <2>1 DEF Putting
  <2> QED BY <2>1, <2>2 DEF PutInv, LinkIsListed
<1>5. CASE HostStart
  <2>1. \A d \in Document : create'[d] \in {"none", "lost"}
    BY <1>5 DEF HostStart, PutInv
  <2>2. Putting' = {}
    BY <2>1 DEF Putting
  <2> QED BY <2>1, <2>2 DEF PutInv, LinkIsListed
<1> QED BY <1>1, <1>2, <1>3, <1>4, <1>5 DEF StatsNext

LEMMA PutInvCorrect == Spec => []PutInv
<1>1. Init => PutInv
  BY DEF Init, StatsInit, PutInv, LinkIsListed, Putting
<1>2. Inv /\ PutInv /\ [Next]_vars => PutInv'
  <2> SUFFICES ASSUME Inv, PutInv, [Next]_vars PROVE PutInv'
    OBVIOUS
  <2>1. CASE StatsNext
    BY <2>1, PutStep DEF Inv, TypeOK, StatsType
  <2>2. CASE UNCHANGED statsVars
    <3>1. svcUri' = svcUri
      BY DEF svcUri
    <3> QED BY <2>2, <3>1 DEF statsVars, PutInv, LinkIsListed, Putting, Alone
  <2>3. StatsNext \/ UNCHANGED statsVars
    BY DEF Next, vars, Load, ChangeSelection, ClickDocument, Serve, Handle,
           Alerted, ListServices, ShowService, ListDocuments, ShowDocument, Arrives
  <2> QED BY <2>1, <2>2, <2>3
<1> QED BY <1>1, <1>2, InvCorrect, PTL DEF Spec

-----------------------------------------------------------------------------
(* What replaceAll leaves of a link                                         *)

(* A set of places has a greatest one.                                      *)
LEMMA GreatestPlace ==
    ASSUME NEW n \in Nat, NEW S \in SUBSET (1 .. n), S # {}
    PROVE  \E i \in S : \A j \in S : j <= i
<1> DEFINE T == {n - i : i \in S}
<1>1. T \in SUBSET Nat /\ T # {}
  <2>1. ASSUME NEW i \in S PROVE n - i \in Nat
    OBVIOUS
  <2> QED BY <2>1
<1>2. PICK t \in T : \A u \in T : ~ (<<u, t>> \in OpToRel(<, Nat))
  <2> HIDE DEF T
  <2> QED BY <1>1, NatLessThanWellFounded, WFMin
<1>3. PICK i \in S : t = n - i
  OBVIOUS
<1>4. ASSUME NEW j \in S PROVE j <= i
  <2>1. n - j \in T /\ n - j \in Nat /\ t \in Nat
    BY <1>1
  <2>2. ~ (n - j < t)
    <3> HIDE DEF T
    <3> QED BY <1>2, <2>1 DEF OpToRel
  <2>3. i \in 1 .. n /\ j \in 1 .. n
    OBVIOUS
  <2> QED BY <1>3, <2>2, <2>3
<1> QED BY <1>4

(* The pattern is the part of the link from its last slash to its end.      *)
LEMMA LinkFacts ==
    ASSUME NEW d \in Document
    PROVE  /\ d \in Seq(STRING) /\ Len(d) \in Nat /\ DOMAIN d = 1 .. Len(d)
           /\ LastSlash(d) \in 1 .. Len(d)
           /\ Pattern(d) \in Seq(STRING)
           /\ Len(Pattern(d)) = Len(d) - LastSlash(d) + 1
           /\ \A k \in DOMAIN Pattern(d) : Pattern(d)[k] = d[LastSlash(d) + k - 1]
<1>1. d \in Seq(STRING) /\ \E i \in DOMAIN d : d[i] = "/"
  BY StatsAssumption
<1>2. Len(d) \in Nat /\ DOMAIN d = 1 .. Len(d)
  BY <1>1, LenProperties
<1>3. LastSlash(d) \in 1 .. Len(d)
  <2> DEFINE slashes == {i \in 1 .. Len(d) : d[i] = "/"}
  <2>1. slashes \in SUBSET (1 .. Len(d)) /\ slashes # {}
    BY <1>1, <1>2
  <2>2. PICK i \in slashes : \A j \in slashes : j <= i
    <3> HIDE DEF slashes
    <3> QED BY <1>2, <2>1, GreatestPlace
  <2>3. i \in DOMAIN d /\ d[i] = "/" /\ \A j \in DOMAIN d : j > i => d[j] # "/"
    <3>1. ASSUME NEW j \in 1 .. Len(d), j > i, d[j] = "/" PROVE FALSE
      <4>1. j \in slashes
        BY <3>1
      <4>2. j <= i /\ i \in 1 .. Len(d)
        BY <2>2, <4>1
      <4> QED BY <3>1, <4>2
    <3> QED BY <1>2, <3>1
  <2> HIDE DEF slashes
  <2> QED BY <1>2, <2>3 DEF LastSlash
<1>4. PICK n \in Nat : n = Len(d)
  BY <1>2
<1>5. PICK l \in 1 .. n : l = LastSlash(d)
  BY <1>3, <1>4
<1>6. /\ SubSeq(d, l, n) \in Seq(STRING) /\ Len(SubSeq(d, l, n)) = n - l + 1
      /\ \A k \in 1 .. n - l + 1 : SubSeq(d, l, n)[k] = d[l + k - 1]
  <2>1. \A k \in l .. n : d[k] \in STRING
    BY <1>1, <1>2, <1>4
  <2> QED BY <1>1, <1>2, <1>4, <2>1, SubSeqProperties
<1>7. DOMAIN SubSeq(d, l, n) = 1 .. n - l + 1
  BY <1>6, LenProperties
<1> QED BY <1>1, <1>2, <1>3, <1>4, <1>5, <1>6, <1>7 DEF Pattern

(* Where the pattern matches, its length is left of the link: not after the *)
(* last slash, and at it.                                                   *)
LEMMA MatchFacts ==
    ASSUME NEW d \in Document, NEW i \in 1 .. Len(d), ~ RepeatsId(d)
    PROVE  Matches(Pattern(d), d, i) <=> i = LastSlash(d)
<1>1. PICK n, l : n \in Nat /\ l \in 1 .. n /\ n = Len(d) /\ l = LastSlash(d)
  BY LinkFacts
<1>2. Len(Pattern(d)) = n - l + 1 /\ DOMAIN Pattern(d) = 1 .. n - l + 1
  BY <1>1, LinkFacts, LenProperties
<1>3. CASE i < l
  <2>1. i \in 1 .. l - 1
    BY <1>1, <1>3
  <2> QED BY <1>1, <1>3, <2>1 DEF RepeatsId
<1>4. CASE i > l
  <2>1. ~ (i + (n - l + 1) - 1 <= n)
    BY <1>1, <1>4
  <2> QED BY <1>1, <1>2, <1>4, <2>1 DEF Matches
<1>5. CASE i = l
  <2>1. i + (n - l + 1) - 1 <= n
    BY <1>1, <1>5
  <2>2. \A k \in DOMAIN Pattern(d) : Pattern(d)[k] = d[i + k - 1]
    BY <1>1, <1>5, LinkFacts
  <2> QED BY <1>1, <1>2, <1>5, <2>1, <2>2 DEF Matches
<1> QED BY <1>1, <1>3, <1>4, <1>5

(* what the recursion of Cut computes *)
Cuts(f, d) ==
    f = [i \in 1 .. Len(d) + 1 |->
            CASE i > Len(d) -> << >>
              [] i <= Len(d) /\ Matches(Pattern(d), d, i) -> f[i + Len(Pattern(d))]
              [] OTHER -> <<d[i]>> \o f[i + 1]]

(* a link from place i on, without the pattern at its end *)
Rest(d, i) == IF i < LastSlash(d) THEN SubSeq(d, i, LastSlash(d) - 1)
              ELSE IF i = LastSlash(d) THEN << >> ELSE SubSeq(d, i, Len(d))

(* Rest is what the recursion asks for, and nothing else is: the cut leaves *)
(* the factory if the id matches nowhere else.                              *)
LEMMA RestStep ==
    ASSUME NEW d \in Document, ~ RepeatsId(d), NEW i \in 1 .. Len(d) + 1
    PROVE  Rest(d, i) =
              CASE i > Len(d) -> << >>
                [] i <= Len(d) /\ Matches(Pattern(d), d, i) -> Rest(d, i + Len(Pattern(d)))
                [] OTHER -> <<d[i]>> \o Rest(d, i + 1)
<1>1. PICK n, l : n \in Nat /\ l \in 1 .. n /\ n = Len(d) /\ l = LastSlash(d)
  BY LinkFacts
<1>2. d \in Seq(STRING) /\ Len(Pattern(d)) = n - l + 1 /\ DOMAIN d = 1 .. n
  BY <1>1, LinkFacts
<1>3. ASSUME NEW a \in 1 .. n, NEW b \in 1 .. n, a <= b
      PROVE  /\ SubSeq(d, a, b) = <<d[a]>> \o SubSeq(d, a + 1, b)
             /\ a = b => SubSeq(d, a, b) = <<d[a]>>
  <2>1. SubSeq(d, a, b) = [k \in 1 .. (b - a + 1) |-> d[a + k - 1]]
    BY <1>1, <1>2, <1>3
  <2>2. SubSeq(d, a + 1, b) = [k \in 1 .. (b - a) |-> d[a + k]]
    BY <1>1, <1>2, <1>3
  <2>3. SubSeq(d, a + 1, b) \in Seq(STRING) /\ Len(SubSeq(d, a + 1, b)) = b - a
    BY <1>1, <1>2, <1>3, <2>2
  <2>4. <<d[a]>> \in Seq(STRING) /\ Len(<<d[a]>>) = 1
    <3>1. a \in 1 .. Len(d)
      BY <1>1, <1>3
    <3>2. d[a] \in STRING
      BY <1>2, <3>1, ElementOfSeq
    <3> QED BY <3>2
  <2> DEFINE s == SubSeq(d, a + 1, b)
             t == <<d[a]>>
  <2>5. t \o s = [k \in 1 .. (b - a + 1) |-> d[a + k - 1]]
    <3>1. ASSUME NEW k \in 1 .. (b - a + 1)
          PROVE  (IF k <= 1 THEN t[k] ELSE s[k - 1]) = d[a + k - 1]
      <4>1. CASE k = 1
        BY <4>1
      <4>2. CASE k # 1
        <5>1. k - 1 \in 1 .. (b - a) /\ a + (k - 1) = a + k - 1 /\ ~ (k <= 1)
          BY <4>2
        <5> QED BY <2>2, <5>1
      <4> QED BY <4>1, <4>2
    <3>2. 1 + (b - a) = b - a + 1
      BY <1>1
    <3>3. t \o s = [k \in 1 .. 1 + (b - a) |-> IF k <= 1 THEN t[k] ELSE s[k - 1]]
      <4> HIDE DEF s, t
      <4>1. t \in Seq(STRING) /\ s \in Seq(STRING) /\ Len(t) = 1 /\ Len(s) = b - a
        BY <2>3, <2>4 DEF s, t
      <4>2. PICK g, h \in Seq(STRING) : g = t /\ h = s
        BY <4>1
      <4>3. /\ g \o h \in Seq(STRING) /\ Len(g \o h) = Len(g) + Len(h)
            /\ \A k \in 1 .. Len(g) + Len(h) :
                  (g \o h)[k] = IF k <= Len(g) THEN g[k] ELSE h[k - Len(g)]
        BY ConcatProperties
      <4>4. PICK w \in Seq(STRING) : w = g \o h
        BY <4>3
      <4>5. PICK m \in Int : m = 1 + (b - a)
        BY <1>1, <1>3
      <4>6. /\ Len(w) = m
            /\ \A k \in 1 .. m : w[k] = IF k <= 1 THEN t[k] ELSE s[k - 1]
        BY <4>1, <4>2, <4>3, <4>4, <4>5
      <4>7. w = [k \in 1 .. m |-> w[k]]
        <5>1. w \in [1 .. Len(w) -> STRING]
          BY <4>4, LenProperties
        <5>2. w = [k \in 1 .. Len(w) |-> w[k]]
          BY <5>1
        <5> QED BY <4>6, <5>2
      <4>8. w = [k \in 1 .. m |-> IF k <= 1 THEN t[k] ELSE s[k - 1]]
        BY <4>6, <4>7
      <4> QED BY <4>2, <4>4, <4>5, <4>8
    <3> HIDE DEF s, t
    <3> QED BY <3>1, <3>2, <3>3
  <2>6. a = b => SubSeq(d, a, b) = <<d[a]>>
    BY <1>1, <2>1
  <2> QED BY <2>1, <2>5, <2>6
<1>4. CASE i = n + 1
  <2>1. Rest(d, i) = << >>
    BY <1>1, <1>2, <1>4 DEF Rest
  <2> QED BY <1>1, <1>4, <2>1
<1>5. CASE i \in 1 .. n /\ i = l
  <2>1. Matches(Pattern(d), d, i)
    BY <1>1, <1>5, MatchFacts
  <2>2. i + Len(Pattern(d)) = n + 1
    BY <1>1, <1>2, <1>5
  <2>3. Rest(d, n + 1) = << >>
    BY <1>1, <1>2 DEF Rest
  <2>4. Rest(d, i) = << >>
    BY <1>1, <1>5 DEF Rest
  <2> QED BY <1>1, <1>5, <2>1, <2>2, <2>3, <2>4
<1>6. CASE i \in 1 .. n /\ i # l
  <2>1. ~ Matches(Pattern(d), d, i)
    BY <1>1, <1>6, MatchFacts
  <2>2. Rest(d, i) = <<d[i]>> \o Rest(d, i + 1)
    <3>1. CASE i < l - 1
      <4>1. i + 1 < l /\ i < l /\ l - 1 \in 1 .. n /\ i <= l - 1
        BY <1>1, <1>6, <3>1
      <4> QED BY <1>1, <1>3, <1>6, <4>1 DEF Rest
    <3>2. CASE i = l - 1
      <4>1. i + 1 = l /\ i < l /\ ~ (i + 1 < l)
        BY <1>1, <1>6, <3>2
      <4>2. SubSeq(d, i, l - 1) = <<d[i]>>
        <5>1. PICK k : k = l - 1 /\ i = k /\ k \in 1 .. n
          BY <1>6, <3>2
        <5>2. k \in 1 .. n /\ k <= k
          BY <1>1, <5>1
        <5>3. SubSeq(d, k, k) = <<d[k]>>
          BY <1>3, <5>2
        <5> QED BY <5>1, <5>3
      <4>3. <<d[i]>> \o << >> = <<d[i]>>
        <5>1. <<d[i]>> \in Seq(STRING)
          BY <1>1, <1>2, <1>6
        <5> QED BY <5>1, ConcatEmptySeq
      <4> QED BY <1>1, <4>1, <4>2, <4>3 DEF Rest
    <3>3. CASE i > l
      <4>1. ~ (i < l) /\ i # l /\ ~ (i + 1 < l) /\ i + 1 # l /\ i <= n
        BY <1>1, <1>6, <3>3
      <4>2. SubSeq(d, i, n) = <<d[i]>> \o SubSeq(d, i + 1, n)
        BY <1>1, <1>3, <1>6
      <4> QED BY <1>1, <4>1, <4>2 DEF Rest
    <3> QED BY <1>1, <1>6, <3>1, <3>2, <3>3
  <2>3. i <= Len(d) /\ ~ (i > Len(d))
    BY <1>1, <1>6
  <2> QED BY <2>1, <2>2, <2>3
<1> QED BY <1>1, <1>4, <1>5, <1>6

LEMMA CutLeavesFactory ==
    ASSUME NEW d \in Document, ~ RepeatsId(d)
    PROVE  svcUri[d] = Factory(d)
<1>1. Len(d) \in Nat /\ LastSlash(d) \in 1 .. Len(d) /\ d \in Seq(STRING)
  BY LinkFacts
<1> DEFINE f == CHOOSE g : Cuts(g, d)
           rest == [i \in 1 .. Len(d) + 1 |-> Rest(d, i)]
<1>2. Cuts(rest, d)
  <2>1. ASSUME NEW i \in 1 .. Len(d) + 1
        PROVE  Rest(d, i) =
                  CASE i > Len(d) -> << >>
                    [] i <= Len(d) /\ Matches(Pattern(d), d, i) -> rest[i + Len(Pattern(d))]
                    [] OTHER -> <<d[i]>> \o rest[i + 1]
    <3>1. CASE i = Len(d) + 1
      <4>1. i > Len(d)
        BY <1>1, <3>1
      <4> QED BY <4>1, RestStep
    <3>2. CASE i \in 1 .. Len(d)
      <4>1. /\ i + 1 \in 1 .. Len(d) + 1 /\ ~ (i > Len(d))
            /\ Matches(Pattern(d), d, i) => i + Len(Pattern(d)) \in 1 .. Len(d) + 1
        <5>1. Matches(Pattern(d), d, i) => i = LastSlash(d)
          BY <3>2, MatchFacts
        <5>2. i = LastSlash(d) => i + Len(Pattern(d)) = Len(d) + 1
          BY <1>1, LinkFacts
        <5> QED BY <1>1, <3>2, <5>1, <5>2
      <4>2. /\ rest[i + 1] = Rest(d, i + 1)
            /\ Matches(Pattern(d), d, i) =>
                  rest[i + Len(Pattern(d))] = Rest(d, i + Len(Pattern(d)))
        BY <4>1
      <4> HIDE DEF rest
      <4> QED BY <3>2, <4>1, <4>2, RestStep
    <3> QED BY <1>1, <3>1, <3>2
  <2>2. rest = [i \in 1 .. Len(d) + 1 |-> Rest(d, i)]
    OBVIOUS
  <2> HIDE DEF rest
  <2> QED BY <2>1, <2>2 DEF Cuts
<1>3. Cuts(f, d)
  <2> HIDE DEF rest
  <2> QED BY <1>2
<1>4. svcUri[d] = f[1]
  BY DEF svcUri, Cut, Cuts
<1> HIDE DEF f, rest
<1> DEFINE Bad == {i \in 1 .. Len(d) + 1 : f[i] # Rest(d, i)}
<1>5. ASSUME Bad # {} PROVE FALSE
  <2>1. PICK i \in Bad : \A j \in Bad : j <= i
    <3>1. Bad \in SUBSET (1 .. Len(d) + 1) /\ Len(d) + 1 \in Nat
      BY <1>1
    <3> HIDE DEF Bad
    <3> QED BY <1>5, <3>1, GreatestPlace
  <2>2. i \in 1 .. Len(d) + 1 /\ f[i] # Rest(d, i)
    BY <2>1
  <2>3. \A j \in 1 .. Len(d) + 1 : j > i => f[j] = Rest(d, j)
    <3>1. ASSUME NEW j \in 1 .. Len(d) + 1, j > i, f[j] # Rest(d, j) PROVE FALSE
      <4>1. j <= i
        BY <2>1, <3>1
      <4> QED BY <1>1, <2>2, <3>1, <4>1
    <3> QED BY <3>1
  <2>4. f[i] = CASE i > Len(d) -> << >>
                 [] i <= Len(d) /\ Matches(Pattern(d), d, i) -> f[i + Len(Pattern(d))]
                 [] OTHER -> <<d[i]>> \o f[i + 1]
    BY <1>3, <2>2 DEF Cuts
  <2> HIDE DEF Bad
  <2>5. CASE i = Len(d) + 1
    <3>1. i > Len(d)
      BY <1>1, <2>5
    <3> QED BY <2>2, <2>4, <3>1, RestStep
  <2>6. CASE i \in 1 .. Len(d)
    <3>1. /\ i + 1 \in 1 .. Len(d) + 1 /\ i + 1 > i /\ ~ (i > Len(d)) /\ i <= Len(d)
          /\ Matches(Pattern(d), d, i) =>
                i + Len(Pattern(d)) \in 1 .. Len(d) + 1 /\ i + Len(Pattern(d)) > i
      <4>1. Matches(Pattern(d), d, i) => i = LastSlash(d)
        BY <2>6, MatchFacts
      <4>2. i = LastSlash(d) => i + Len(Pattern(d)) = Len(d) + 1
        BY <1>1, LinkFacts
      <4> QED BY <1>1, <2>6, <4>1, <4>2
    <3>2. /\ f[i + 1] = Rest(d, i + 1)
          /\ Matches(Pattern(d), d, i) =>
                f[i + Len(Pattern(d))] = Rest(d, i + Len(Pattern(d)))
      BY <2>3, <3>1
    <3> QED BY <2>2, <2>4, <3>1, <3>2, RestStep
  <2> QED BY <1>1, <2>2, <2>5, <2>6
<1>6. svcUri[d] = Rest(d, 1)
  <2>1. 1 \in 1 .. Len(d) + 1
    BY <1>1
  <2> QED BY <1>4, <1>5, <2>1
<1>7. Rest(d, 1) = Factory(d)
  <2>1. CASE LastSlash(d) = 1
    BY <1>1, <2>1 DEF Rest, Factory
  <2>2. CASE LastSlash(d) # 1
    <3>1. 1 < LastSlash(d)
      BY <1>1, <2>2
    <3> QED BY <3>1 DEF Rest, Factory
  <2> QED BY <2>1, <2>2
<1> QED BY <1>6, <1>7

(* However many documents of a service are created at the same time, it is  *)
(* listed, unless the put of another service ran beside or the id matches   *)
(* elsewhere in the link.                                                   *)
THEOREM ServiceIsListedCorrect == Spec => []ServiceIsListed
<1>1. PutInv => ServiceIsListed
  BY CutLeavesFactory DEF PutInv, LinkIsListed, Alone, ServiceIsListed
<1> QED BY <1>1, PutInvCorrect, PTL

-----------------------------------------------------------------------------
(* What the page offers                                                     *)

(* what is left of a sequence *)
LEMMA RemoveAtIs ==
    ASSUME NEW S, NEW s \in Seq(S), NEW k \in DOMAIN s
    PROVE  /\ DOMAIN RemoveAt(s, k) = 1 .. Len(s) - 1
           /\ \A j \in 1 .. Len(s) - 1 :
                 RemoveAt(s, k)[j] = s[IF j < k THEN j ELSE j + 1]
<1>1. k \in 1 .. Len(s) /\ Len(s) \in Nat
  OBVIOUS
<1>2. /\ Len(SubSeq(s, 1, k - 1)) = k - 1
      /\ Len(SubSeq(s, k + 1, Len(s))) = Len(s) - k
      /\ SubSeq(s, 1, k - 1) \in Seq(S) /\ SubSeq(s, k + 1, Len(s)) \in Seq(S)
  BY <1>1
<1> DEFINE a == SubSeq(s, 1, k - 1)
           b == SubSeq(s, k + 1, Len(s))
<1>3. /\ \A i \in 1 .. k - 1 : a[i] = s[i]
      /\ \A i \in 1 .. Len(s) - k : b[i] = s[k + i]
  BY <1>1
<1>4. RemoveAt(s, k) = a \o b
  BY DEF RemoveAt
<1> HIDE DEF a, b
<1>5. /\ \A i \in 1 .. Len(a) + Len(b) :
            (a \o b)[i] = IF i <= Len(a) THEN a[i] ELSE b[i - Len(a)]
      /\ DOMAIN (a \o b) = 1 .. Len(a) + Len(b)
  BY <1>2 DEF a, b
<1>6. Len(a) = k - 1 /\ Len(b) = Len(s) - k
  BY <1>2 DEF a, b
<1>7. DOMAIN RemoveAt(s, k) = 1 .. Len(s) - 1
  BY <1>1, <1>4, <1>5, <1>6
<1>8. ASSUME NEW j \in 1 .. Len(s) - 1
      PROVE  RemoveAt(s, k)[j] = s[IF j < k THEN j ELSE j + 1]
  <2>1. CASE j < k
    BY <1>1, <2>1, <1>3, <1>4, <1>5, <1>6
  <2>2. CASE j >= k
    <3>1. j - (k - 1) \in 1 .. Len(s) - k /\ k + (j - (k - 1)) = j + 1
          /\ j \in 1 .. (k - 1) + (Len(s) - k) /\ ~ (j <= k - 1) /\ ~ (j < k)
      BY <1>1, <2>2
    <3>2. RemoveAt(s, k)[j] = b[j - (k - 1)]
      BY <3>1, <1>4, <1>5, <1>6
    <3>3. b[j - (k - 1)] = s[j + 1]
      BY <3>1, <1>3
    <3> QED BY <3>1, <3>2, <3>3
  <2> QED BY <2>1, <2>2, <1>1
<1> QED BY <1>7, <1>8

LEMMA RemoveAtElement ==
    ASSUME NEW S, NEW s \in Seq(S), NEW k \in DOMAIN s,
           NEW j \in DOMAIN RemoveAt(s, k)
    PROVE  \E i \in DOMAIN s : RemoveAt(s, k)[j] = s[i]
<1>1. j \in 1 .. Len(s) - 1 /\ k \in 1 .. Len(s) /\ Len(s) \in Nat
  BY RemoveAtIs
<1>2. RemoveAt(s, k)[j] = s[IF j < k THEN j ELSE j + 1]
  BY <1>1, RemoveAtIs
<1>3. (IF j < k THEN j ELSE j + 1) \in DOMAIN s
  BY <1>1
<1> QED BY <1>2, <1>3

Quiet == crashes = 0 /\ overlapped = {}

(* a request whose answer offers only what is registered *)
Backed(r, svcs) ==
    /\ r.kind = "list" => r.answer.links \subseteq svcs
    /\ r.kind = "docs" => r.uri \in svcs

OfferInv ==
    /\ ~ up => crashes # 0
    /\ Quiet => /\ options \subseteq fsmSvcs
                /\ selected \in fsmSvcs \cup {None}
                /\ \A k \in DOMAIN requests : Backed(requests[k], fsmSvcs)
                /\ \A d \in listed : Factory(d) \in fsmSvcs

(* While nothing crashes or overlaps, the map only grows.                   *)
LEMMA QuietStep ==
    ASSUME StatsType, PutInv, ~ up => crashes # 0, StatsNext
    PROVE  /\ ~ up' => crashes' # 0
           /\ Quiet' => Quiet /\ fsmSvcs \subseteq fsmSvcs'
<1>1. ASSUME NEW d \in Document,
             \/ HandleCreate(d) \/ RegistrationFails(d) \/ DeleteDocument(d)
             \/ BeginPut(d)
      PROVE  /\ ~ up' => crashes' # 0
             /\ Quiet' => Quiet /\ fsmSvcs \subseteq fsmSvcs'
  BY <1>1 DEF HandleCreate, RegistrationFails, DeleteDocument, BeginPut, Quiet
<1>2. ASSUME NEW d \in Document, EndPut(d)
      PROVE  /\ ~ up' => crashes' # 0
             /\ Quiet' => Quiet /\ fsmSvcs \subseteq fsmSvcs'
  <2>1. UNCHANGED <<up, overlapped, crashes>> /\ d \in Putting
    BY <1>2 DEF EndPut, Putting
  <2>2. Quiet => fsmSvcs \subseteq seen[d] \cup {svcUri[d]}
    BY <2>1 DEF PutInv, Quiet
  <2>3. Quiet => fsmSvcs \subseteq fsmSvcs'
    BY <1>2, <2>2 DEF EndPut
  <2> QED BY <2>1, <2>3 DEF Quiet
<1>3. CASE HostCrash
  BY <1>3 DEF HostCrash, Quiet, StatsType
<1>4. CASE HostStart
  BY <1>4 DEF HostStart, Quiet
<1> QED BY <1>1, <1>2, <1>3, <1>4 DEF StatsNext

(* the callbacks *)
LEMMA HandleOffer ==
    ASSUME Inv, OfferInv, NEW k \in DOMAIN requests, Handle(k)
    PROVE  OfferInv'
<1> DEFINE r == requests[k]
<1>1. r \in RequestRecord /\ Sound(r)
  BY RequestIsSound
<1>2. Arrives(k)
  BY DEF Handle, Alerted, ListServices, ShowService, ListDocuments, ShowDocument
<1>3. requests' = RemoveAt(requests, k) /\ UNCHANGED <<statsVars, selected>>
  BY <1>2 DEF Arrives
<1>4. \A j \in DOMAIN requests' : \E i \in DOMAIN requests : requests'[j] = requests[i]
  BY <1>3, RemoveAtElement DEF Inv
<1>5. UNCHANGED <<up, crashes, overlapped, fsmSvcs>>
  BY <1>3 DEF statsVars
<1>6. Quiet => options' \subseteq fsmSvcs
  <2>1. CASE ListServices(k)
    <3>1. options' = r.answer.links /\ r.kind = "list"
      BY <2>1 DEF ListServices, Succeeds
    <3>2. Quiet => Backed(r, fsmSvcs)
      BY DEF OfferInv
    <3> QED BY <3>1, <3>2 DEF Backed
  <2>2. CASE ~ ListServices(k)
    <3>1. options' = options
      BY <2>2 DEF Handle, Alerted, ShowService, ListDocuments, ShowDocument
    <3> QED BY <3>1 DEF OfferInv
  <2> QED BY <2>1, <2>2
<1>7. Quiet => \A d \in listed' : Factory(d) \in fsmSvcs
  <2>1. CASE ListDocuments(k)
    <3>1. listed' = listed \/ listed' = r.answer.links
      BY <2>1 DEF ListDocuments
    <3>2. r.kind = "docs"
      BY <2>1 DEF ListDocuments, Succeeds
    <3>3. \A d \in r.answer.links : Factory(d) = r.uri
      BY <1>1, <3>2 DEF Sound
    <3>4. Quiet => r.uri \in fsmSvcs
      BY <3>2 DEF OfferInv, Backed
    <3> QED BY <3>1, <3>3, <3>4 DEF OfferInv
  <2>2. CASE ~ ListDocuments(k)
    <3>1. listed' = listed
      BY <2>2 DEF Handle, Alerted, ShowService, ListServices, ShowDocument
    <3> QED BY <3>1 DEF OfferInv
  <2> QED BY <2>1, <2>2
<1>8. Quiet => \A j \in DOMAIN requests' : Backed(requests'[j], fsmSvcs)
  BY <1>4, <1>5 DEF OfferInv, Backed
<1> QED BY <1>3, <1>5, <1>6, <1>7, <1>8 DEF OfferInv, Quiet

(* the steps of the user, and answers *)
LEMMA PageStepOffer ==
    ASSUME Inv, OfferInv,
           \/ Load
           \/ \E s \in options \cup {None} : ChangeSelection(s)
           \/ \E d \in listed : ClickDocument(d)
           \/ \E k \in DOMAIN requests : Serve(k)
    PROVE  OfferInv'
<1>1. UNCHANGED <<up, crashes, overlapped, fsmSvcs>>
  BY DEF Load, ChangeSelection, ClickDocument, Serve, statsVars
<1>2. \A s \in Service : Request("svc", s).kind = "svc" /\ Request("docs", s).kind = "docs"
                         /\ Request("docs", s).uri = s
  BY DEF Request
<1>3. CASE Load
  <2>1. requests' = <<Request("list", None)>> /\ options' = {} /\ selected' = None
        /\ listed' = {}
    BY <1>3 DEF Load
  <2>2. Request("list", None).answer.links = {} /\ Request("list", None).kind = "list"
    BY DEF Request, Pending
  <2>3. \A k \in DOMAIN requests' : Backed(requests'[k], fsmSvcs)
    BY <2>1, <2>2 DEF Backed
  <2> QED BY <1>1, <2>1, <2>3 DEF OfferInv, Quiet
<1>4. ASSUME NEW s \in options \cup {None}, ChangeSelection(s) PROVE OfferInv'
  <2>1. selected' = s /\ UNCHANGED <<options, listed>>
    BY <1>4 DEF ChangeSelection
  <2>2. CASE s = None
    <3>1. requests' = requests
      BY <1>4, <2>2 DEF ChangeSelection
    <3> QED BY <1>1, <2>1, <2>2, <3>1 DEF OfferInv, Quiet, Backed
  <2>3. CASE s # None
    <3>1. requests' = requests \o <<Request("svc", s), Request("docs", s)>>
      BY <1>4, <2>3 DEF ChangeSelection
    <3>2. s \in Service /\ requests \in Seq(RequestRecord)
      BY <2>3 DEF Inv, TypeOK
    <3>3. \A k \in DOMAIN requests' :
             \/ k \in DOMAIN requests /\ requests'[k] = requests[k]
             \/ requests'[k] \in {Request("svc", s), Request("docs", s)}
      BY <3>1, <3>2
    <3>4. Quiet => s \in fsmSvcs
      BY <2>3 DEF OfferInv
    <3>5. Quiet => \A k \in DOMAIN requests' : Backed(requests'[k], fsmSvcs)
      BY <1>1, <1>2, <3>2, <3>3, <3>4 DEF OfferInv, Backed
    <3> QED BY <1>1, <2>1, <3>4, <3>5 DEF OfferInv, Quiet
  <2> QED BY <2>2, <2>3
<1>5. ASSUME NEW d \in listed, ClickDocument(d) PROVE OfferInv'
  <2>1. requests' = Append(requests, Request("doc", d))
        /\ UNCHANGED <<options, selected, listed>>
    BY <1>5 DEF ClickDocument
  <2>2. requests \in Seq(RequestRecord)
    BY DEF Inv, TypeOK
  <2>3. \A k \in DOMAIN requests' :
           \/ k \in DOMAIN requests /\ requests'[k] = requests[k]
           \/ requests'[k] = Request("doc", d)
    BY <2>1, <2>2
  <2>4. Request("doc", d).kind = "doc"
    BY DEF Request
  <2>5. Quiet => \A k \in DOMAIN requests' : Backed(requests'[k], fsmSvcs)
    BY <1>1, <2>3, <2>4 DEF OfferInv, Backed
  <2> QED BY <1>1, <2>1, <2>5 DEF OfferInv, Quiet
<1>6. ASSUME NEW k \in DOMAIN requests, Serve(k) PROVE OfferInv'
  <2>1. PICK a \in Answers(requests[k]) \cup NetworkFailures :
          requests' = [requests EXCEPT ![k].answer = a]
    BY <1>6 DEF Serve
  <2>2. UNCHANGED <<options, selected, listed>>
    BY <1>6 DEF Serve
  <2>3. requests[k].kind = "list" => a.links \subseteq fsmSvcs
    <3>1. CASE a \in NetworkFailures
      BY <3>1 DEF NetworkFailures, Failed
    <3>2. CASE ~ up /\ a \in Answers(requests[k])
      BY <3>2 DEF Answers, Failed
    <3>3. CASE up /\ a \in Answers(requests[k]) /\ requests[k].kind = "list"
      <4>1. a = Ok(fsmSvcs) \/ a = ServerError
        BY <3>3 DEF Answers, allServices
      <4>2. Ok(fsmSvcs).links = fsmSvcs
        BY DEF Ok
      <4>3. ServerError.links = {}
        BY DEF ServerError, Failed
      <4> QED BY <4>1, <4>2, <4>3
    <3> QED BY <3>1, <3>2, <3>3
  <2>4. requests \in Seq(RequestRecord)
    BY DEF Inv, TypeOK
  <2>5. \A j \in DOMAIN requests :
           requests'[j] = IF j = k THEN [requests[k] EXCEPT !.answer = a] ELSE requests[j]
    BY <2>1, <2>4
  <2>6. \A j \in DOMAIN requests' : j \in DOMAIN requests
    BY <2>1
  <2>7. requests[k] \in RequestRecord
    BY <2>4
  <2>8. [requests[k] EXCEPT !.answer = a].kind = requests[k].kind
        /\ [requests[k] EXCEPT !.answer = a].uri = requests[k].uri
        /\ [requests[k] EXCEPT !.answer = a].answer = a
    BY <2>7 DEF RequestRecord
  <2>9. Quiet => \A j \in DOMAIN requests' : Backed(requests'[j], fsmSvcs)
    BY <1>1, <2>3, <2>5, <2>6, <2>8 DEF OfferInv, Backed
  <2> QED BY <1>1, <2>2, <2>9 DEF OfferInv, Quiet
<1> QED BY <1>3, <1>4, <1>5, <1>6

(* What the page offers stays registered, as long as the host runs and puts *)
(* do not overlap, however old the answers it was made from.                *)
THEOREM OfferedHasGraphsCorrect == Spec => []OfferedHasGraphs
<1>1. Init => OfferInv
  BY DEF Init, StatsInit, OfferInv, Quiet
<1>2. Inv /\ PutInv /\ OfferInv /\ [Next]_vars => OfferInv'
  <2> SUFFICES ASSUME Inv, PutInv, OfferInv, [Next]_vars PROVE OfferInv'
    OBVIOUS
  <2>1. CASE StatsNext /\ UNCHANGED pageVars
    <3>1. /\ ~ up' => crashes' # 0
          /\ Quiet' => Quiet /\ fsmSvcs \subseteq fsmSvcs'
      BY <2>1, QuietStep DEF Inv, TypeOK, StatsType, OfferInv
    <3>2. UNCHANGED <<options, selected, listed, requests>>
      BY <2>1 DEF pageVars
    <3> QED BY <3>1, <3>2 DEF OfferInv, Backed
  <2>2. CASE UNCHANGED vars
    BY <2>2 DEF vars, statsVars, pageVars, OfferInv, Quiet, Backed
  <2>3. ASSUME NEW k \in DOMAIN requests, Handle(k) PROVE OfferInv'
    BY <2>3, HandleOffer
  <2> QED BY <2>1, <2>2, <2>3, PageStepOffer DEF Next
<1>3. OfferInv => OfferedHasGraphs
  BY DEF OfferInv, OfferedHasGraphs, Quiet
<1> QED BY <1>1, <1>2, <1>3, InvCorrect, PutInvCorrect, PTL DEF Spec

-----------------------------------------------------------------------------
(* What the page shows                                                      *)

Has(kind, queue) == \E k \in DOMAIN queue : queue[k].kind = kind

(* the last request of this kind, if there is one, is for the service *)
EndsWith(kind, service, queue) ==
    \A k \in DOMAIN queue :
        /\ queue[k].kind = kind
        /\ \A j \in DOMAIN queue : j > k => queue[j].kind # kind
        => queue[k].uri = service

(* the k-th request is the newest of its kind, and not the only one *)
Overtakes(k, queue) ==
    /\ \E j \in DOMAIN queue : j # k /\ queue[j].kind = queue[k].kind
    /\ \A j \in DOMAIN queue : queue[j].kind = queue[k].kind => j <= k

(* Unless overtaken, the requests under way will bring what belongs to the  *)
(* selection, and when none is left of a kind, the view has it or an alert  *)
(* said why not.                                                            *)
FollowsSvc ==
    \/ "svc" \in overtaken
    \/ /\ EndsWith("svc", selected, requests)
       /\ ~ Has("svc", requests) /\ alert = None => svcView = selected

FollowsDocs ==
    \/ "docs" \in overtaken
    \/ /\ EndsWith("docs", selected, requests)
       /\ ~ Has("docs", requests) /\ alert = None =>
             \A d \in listed : Factory(d) = selected

FollowInv == selected # None => FollowsSvc /\ FollowsDocs

(* A request leaves the queue: the last one of a kind stays the last, or it *)
(* was the only one, or it overtook another.                                *)
LEMMA RemovedKind ==
    ASSUME NEW S, NEW s \in Seq(S), NEW k \in DOMAIN s,
           NEW kind, NEW service, EndsWith(kind, service, s)
    PROVE  /\ \/ EndsWith(kind, service, RemoveAt(s, k))
              \/ s[k].kind = kind /\ Overtakes(k, s)
           /\ ~ Has(kind, RemoveAt(s, k)) /\ s[k].kind # kind => ~ Has(kind, s)
           /\ ~ Has(kind, RemoveAt(s, k)) /\ s[k].kind = kind => s[k].uri = service
<1> DEFINE t == RemoveAt(s, k)
           above(j) == IF j < k THEN j ELSE j + 1
           below(j) == IF j < k THEN j ELSE j - 1
<1>1. DOMAIN s = 1 .. Len(s) /\ Len(s) \in Nat /\ k \in 1 .. Len(s)
  OBVIOUS
<1>2. DOMAIN t = 1 .. Len(s) - 1 /\ \A j \in DOMAIN t : t[j] = s[above(j)]
  BY RemoveAtIs
<1> HIDE DEF t
<1>3. \A j \in DOMAIN t : above(j) \in DOMAIN s /\ above(j) # k
  BY <1>1, <1>2
<1>4. ASSUME NEW j \in DOMAIN s, j # k
      PROVE  below(j) \in DOMAIN t /\ t[below(j)] = s[j]
  <2>1. below(j) \in DOMAIN t /\ above(below(j)) = j
    BY <1>1, <1>2, <1>4
  <2> QED BY <2>1, <1>2
<1>5. ~ Has(kind, t) => \A j \in DOMAIN s : j # k => s[j].kind # kind
  BY <1>4 DEF Has
<1>6. ~ Has(kind, t) /\ s[k].kind # kind => ~ Has(kind, s)
  BY <1>5 DEF Has
<1>7. ~ Has(kind, t) /\ s[k].kind = kind => s[k].uri = service
  <2>1. \A j \in DOMAIN s : j > k => j # k
    BY <1>1
  <2> QED BY <1>5, <2>1 DEF EndsWith
<1>8. ASSUME ~ (s[k].kind = kind /\ Overtakes(k, s)) PROVE EndsWith(kind, service, t)
  <2> SUFFICES ASSUME NEW i \in DOMAIN t, t[i].kind = kind,
                      \A j \in DOMAIN t : j > i => t[j].kind # kind
               PROVE  t[i].uri = service
    BY DEF EndsWith
  <2>1. above(i) \in DOMAIN s /\ s[above(i)] = t[i] /\ above(i) # k
    BY <1>2, <1>3
  <2>2. \A j \in DOMAIN s : j # k /\ j > above(i) => s[j].kind # kind
    <3> SUFFICES ASSUME NEW j \in DOMAIN s, j # k, j > above(i) PROVE s[j].kind # kind
      OBVIOUS
    <3>1. below(j) \in DOMAIN t /\ t[below(j)] = s[j]
      BY <1>4
    <3>2. below(j) > i
      BY <1>1, <1>2
    <3> QED BY <3>1, <3>2
  <2>3. ~ (k > above(i) /\ s[k].kind = kind)
    <3> SUFFICES ASSUME k > above(i), s[k].kind = kind PROVE FALSE
      OBVIOUS
    <3>1. \E j \in DOMAIN s : j # k /\ s[j].kind = s[k].kind
      BY <2>1
    <3>2. \A j \in DOMAIN s : s[j].kind = kind => j <= k
      <4> SUFFICES ASSUME NEW j \in DOMAIN s, s[j].kind = kind PROVE j <= k
        OBVIOUS
      <4>1. j = k \/ ~ (j > above(i))
        BY <2>2
      <4>2. above(i) \in Int /\ j \in Int /\ k \in Int
        BY <1>1, <2>1
      <4> HIDE DEF above
      <4> QED BY <4>1, <4>2
    <3> QED BY <1>8, <3>1, <3>2 DEF Overtakes
  <2>4. \A j \in DOMAIN s : j > above(i) => s[j].kind # kind
    BY <2>2, <2>3
  <2> HIDE DEF above
  <2> QED BY <2>1, <2>4 DEF EndsWith
<1>9. EndsWith(kind, service, t) \/ (s[k].kind = kind /\ Overtakes(k, s))
  BY <1>8
<1> QED BY <1>6, <1>7, <1>9 DEF t

(* the history notices what overtakes *)
LEMMA OvertakesIsMarked ==
    ASSUME NEW k \in DOMAIN requests, Arrives(k), Overtakes(k, requests),
           requests[k].kind \in {"svc", "docs"}
    PROVE  requests[k].kind \in overtaken'
<1> DEFINE alike == {j \in DOMAIN requests : requests[j].kind = requests[k].kind}
<1>1. alike # {k} /\ \A j \in alike : j <= k
  BY DEF Overtakes
<1>2. Overtaken(k) = {kind \in {requests[k].kind} \cap {"svc", "docs"} :
                        alike # {k} /\ \A j \in alike : j <= k}
  BY DEF Overtaken
<1> HIDE DEF alike
<1>3. requests[k].kind \in Overtaken(k)
  BY <1>1, <1>2
<1> QED BY <1>3 DEF Arrives

(* the callbacks *)
LEMMA HandleFollow ==
    ASSUME Inv, FollowInv, NEW k \in DOMAIN requests, Handle(k)
    PROVE  FollowInv'
<1> DEFINE r == requests[k]
<1>1. Arrives(k)
  BY DEF Handle, Alerted, ListServices, ShowService, ListDocuments, ShowDocument
<1>2. /\ requests' = RemoveAt(requests, k) /\ selected' = selected
      /\ overtaken \subseteq overtaken'
  BY <1>1 DEF Arrives
<1>3. requests \in Seq(SoundRequest)
  BY DEF Inv
<1>4. r \in RequestRecord /\ Sound(r)
  BY RequestIsSound
<1>5. None \notin Alert
  BY MonitorAssumption
<1> SUFFICES ASSUME selected # None PROVE FollowsSvc' /\ FollowsDocs'
  BY <1>2 DEF FollowInv
<1>6. ASSUME "svc" \notin overtaken'
      PROVE  /\ EndsWith("svc", selected, requests')
             /\ ~ Has("svc", requests') /\ r.kind # "svc" /\ alert = None =>
                   svcView = selected
             /\ ~ Has("svc", requests') /\ r.kind = "svc" => r.uri = selected
  <2>1. EndsWith("svc", selected, requests)
        /\ (~ Has("svc", requests) /\ alert = None => svcView = selected)
    BY <1>2, <1>6 DEF FollowInv, FollowsSvc
  <2>2. ~ (r.kind = "svc" /\ Overtakes(k, requests))
    BY <1>1, <1>6, OvertakesIsMarked
  <2> HIDE DEF r
  <2>3. /\ EndsWith("svc", selected, requests') \/ (r.kind = "svc" /\ Overtakes(k, requests))
        /\ ~ Has("svc", requests') /\ r.kind # "svc" => ~ Has("svc", requests)
        /\ ~ Has("svc", requests') /\ r.kind = "svc" => r.uri = selected
    BY <1>2, <1>3, <2>1, RemovedKind DEF r
  <2> QED BY <2>1, <2>2, <2>3
<1>7. ASSUME "docs" \notin overtaken'
      PROVE  /\ EndsWith("docs", selected, requests')
             /\ ~ Has("docs", requests') /\ r.kind # "docs" /\ alert = None =>
                   \A d \in listed : Factory(d) = selected
             /\ ~ Has("docs", requests') /\ r.kind = "docs" => r.uri = selected
  <2>1. EndsWith("docs", selected, requests)
        /\ (~ Has("docs", requests) /\ alert = None =>
               \A d \in listed : Factory(d) = selected)
    BY <1>2, <1>7 DEF FollowInv, FollowsDocs
  <2>2. ~ (r.kind = "docs" /\ Overtakes(k, requests))
    BY <1>1, <1>7, OvertakesIsMarked
  <2> HIDE DEF r
  <2>3. /\ EndsWith("docs", selected, requests') \/ (r.kind = "docs" /\ Overtakes(k, requests))
        /\ ~ Has("docs", requests') /\ r.kind # "docs" => ~ Has("docs", requests)
        /\ ~ Has("docs", requests') /\ r.kind = "docs" => r.uri = selected
    BY <1>2, <1>3, <2>1, RemovedKind DEF r
  <2> QED BY <2>1, <2>2, <2>3
<1>8. FollowsSvc'
  <2> SUFFICES ASSUME "svc" \notin overtaken', ~ Has("svc", requests'), alert' = None
               PROVE  svcView' = selected
    BY <1>2, <1>6 DEF FollowsSvc
  <2>1. CASE ShowService(k)
    BY <1>6, <2>1 DEF ShowService, Succeeds
  <2>2. CASE Alerted(k)
    BY <1>5, <2>2, ErrorAlertType DEF Alerted
  <2>3. CASE ListServices(k) \/ ShowDocument(k)
    BY <1>6, <2>3 DEF ListServices, ShowDocument, Succeeds
  <2>4. CASE ListDocuments(k)
    <3>1. r.kind = "docs" /\ svcView' = svcView
      BY <2>4 DEF ListDocuments, Succeeds
    <3>2. alert = None
      BY <2>4, <1>5 DEF ListDocuments, Alert
    <3> QED BY <1>6, <3>1, <3>2
  <2> QED BY <2>1, <2>2, <2>3, <2>4 DEF Handle
<1>9. FollowsDocs'
  <2> SUFFICES ASSUME "docs" \notin overtaken', ~ Has("docs", requests'), alert' = None
               PROVE  \A d \in listed' : Factory(d) = selected
    BY <1>2, <1>7 DEF FollowsDocs
  <2>1. CASE ShowService(k) \/ ListServices(k) \/ ShowDocument(k)
    BY <1>7, <2>1 DEF ShowService, ListServices, ShowDocument, Succeeds
  <2>2. CASE Alerted(k)
    BY <1>5, <2>2, ErrorAlertType DEF Alerted
  <2>3. CASE ListDocuments(k)
    <3>1. r.kind = "docs"
      BY <2>3 DEF ListDocuments, Succeeds
    <3>2. listed' = r.answer.links
      BY <2>3, <1>5 DEF ListDocuments, Alert
    <3>3. \A d \in r.answer.links : Factory(d) = r.uri
      BY <1>4, <3>1 DEF Sound
    <3> QED BY <1>7, <3>1, <3>2, <3>3
  <2> QED BY <2>1, <2>2, <2>3 DEF Handle
<1> QED BY <1>8, <1>9

(* A selection sends the requests that belong to it; no other step sends    *)
(* one of their kinds.                                                      *)
LEMMA PageStepFollow ==
    ASSUME Inv, FollowInv,
           \/ Load
           \/ \E s \in options \cup {None} : ChangeSelection(s)
           \/ \E d \in listed : ClickDocument(d)
           \/ \E k \in DOMAIN requests : Serve(k)
    PROVE  FollowInv'
<1>0. requests \in Seq(RequestRecord) /\ Len(requests) \in Nat
  BY DEF Inv, TypeOK
<1>1. CASE Load
  BY <1>1 DEF Load, FollowInv
<1>2. ASSUME NEW s \in options \cup {None}, ChangeSelection(s) PROVE FollowInv'
  <2>1. CASE s = None
    BY <1>2, <2>1 DEF ChangeSelection, FollowInv
  <2>2. CASE s # None
    <3> DEFINE n == Len(requests)
    <3>1. selected' = s
          /\ requests' = requests \o <<Request("svc", s), Request("docs", s)>>
      BY <1>2, <2>2 DEF ChangeSelection
    <3>2. /\ Request("svc", s).kind = "svc" /\ Request("svc", s).uri = s
          /\ Request("docs", s).kind = "docs" /\ Request("docs", s).uri = s
      BY DEF Request
    <3>3. DOMAIN requests' = 1 .. n + 2
          /\ requests'[n + 1] = Request("svc", s)
          /\ requests'[n + 2] = Request("docs", s)
      BY <1>0, <3>1
    <3>4. n + 1 \in 1 .. n + 2 /\ n + 2 \in 1 .. n + 2 /\ n \in Nat
      BY <1>0
    <3> HIDE DEF n
    <3>5. Has("svc", requests') /\ Has("docs", requests')
      BY <3>2, <3>3, <3>4 DEF Has
    <3>6. EndsWith("svc", s, requests')
      <4> SUFFICES ASSUME NEW k \in 1 .. n + 2, requests'[k].kind = "svc",
                          \A j \in 1 .. n + 2 : j > k => requests'[j].kind # "svc"
                   PROVE  requests'[k].uri = s
        BY <3>3 DEF EndsWith
      <4>1. ~ (n + 1 > k)
        BY <3>2, <3>3, <3>4
      <4>2. k # n + 2
        BY <3>2, <3>3
      <4>3. k = n + 1
        BY <4>1, <4>2, <3>4
      <4> QED BY <4>3, <3>2, <3>3
    <3>7. EndsWith("docs", s, requests')
      <4> SUFFICES ASSUME NEW k \in 1 .. n + 2, requests'[k].kind = "docs",
                          \A j \in 1 .. n + 2 : j > k => requests'[j].kind # "docs"
                   PROVE  requests'[k].uri = s
        BY <3>3 DEF EndsWith
      <4>1. ~ (n + 2 > k)
        BY <3>2, <3>3, <3>4
      <4>2. k = n + 2
        BY <4>1, <3>4
      <4> QED BY <4>2, <3>2, <3>3
    <3> QED BY <3>1, <3>5, <3>6, <3>7 DEF FollowInv, FollowsSvc, FollowsDocs
  <2> QED BY <2>1, <2>2
<1>3. ASSUME NEW d \in listed, ClickDocument(d) PROVE FollowInv'
  <2> DEFINE n == Len(requests)
  <2>1. requests' = Append(requests, Request("doc", d))
        /\ UNCHANGED <<selected, svcView, listed, alert, overtaken>>
    BY <1>3 DEF ClickDocument
  <2>2. Request("doc", d).kind \notin {"svc", "docs"}
    BY DEF Request
  <2>3. /\ DOMAIN requests' = 1 .. n + 1 /\ DOMAIN requests = 1 .. n
        /\ requests'[n + 1] = Request("doc", d)
        /\ \A j \in 1 .. n : requests'[j] = requests[j]
        /\ \A j \in 1 .. n + 1 : j \in 1 .. n \/ j = n + 1
        /\ \A j \in 1 .. n : j \in 1 .. n + 1
    BY <1>0, <2>1
  <2> HIDE DEF n
  <2>4. ASSUME NEW kind \in {"svc", "docs"}
        PROVE  /\ Has(kind, requests) => Has(kind, requests')
               /\ EndsWith(kind, selected, requests) => EndsWith(kind, selected, requests')
    BY <2>2, <2>3 DEF Has, EndsWith
  <2> QED BY <2>1, <2>4 DEF FollowInv, FollowsSvc, FollowsDocs
<1>4. ASSUME NEW k \in DOMAIN requests, Serve(k) PROVE FollowInv'
  <2>1. PICK a \in Answers(requests[k]) \cup NetworkFailures :
          requests' = [requests EXCEPT ![k].answer = a]
    BY <1>4 DEF Serve
  <2>2. UNCHANGED <<selected, svcView, listed, alert, overtaken>>
    BY <1>4 DEF Serve
  <2>3. requests[k] \in RequestRecord
    BY <1>0
  <2>4. [requests[k] EXCEPT !.answer = a].kind = requests[k].kind
        /\ [requests[k] EXCEPT !.answer = a].uri = requests[k].uri
    BY <2>3 DEF RequestRecord
  <2>5. /\ DOMAIN requests' = DOMAIN requests
        /\ \A j \in DOMAIN requests :
              requests'[j] = IF j = k THEN [requests[k] EXCEPT !.answer = a]
                             ELSE requests[j]
    BY <1>0, <2>1
  <2>6. \A j \in DOMAIN requests : /\ requests'[j].kind = requests[j].kind
                                   /\ requests'[j].uri = requests[j].uri
    BY <2>4, <2>5
  <2>7. ASSUME NEW kind \in {"svc", "docs"}
        PROVE  /\ Has(kind, requests) => Has(kind, requests')
               /\ EndsWith(kind, selected, requests) => EndsWith(kind, selected, requests')
    BY <2>5, <2>6 DEF Has, EndsWith
  <2> QED BY <2>2, <2>7 DEF FollowInv, FollowsSvc, FollowsDocs
<1> QED BY <1>1, <1>2, <1>3, <1>4

(* In every order of answers, the page ends up with what belongs to the     *)
(* selection or with an alert, whatever was selected before, unless the     *)
(* answer for an earlier selection was handled after the answer for this.   *)
THEOREM PageAgreesWithSelectionCorrect == Spec => []PageAgreesWithSelection
<1>1. Init => FollowInv
  BY DEF Init, FollowInv
<1>2. Inv /\ FollowInv /\ [Next]_vars => FollowInv'
  <2> SUFFICES ASSUME Inv, FollowInv, [Next]_vars PROVE FollowInv'
    OBVIOUS
  <2>1. CASE StatsNext /\ UNCHANGED pageVars
    BY <2>1 DEF pageVars, FollowInv, FollowsSvc, FollowsDocs
  <2>2. CASE UNCHANGED vars
    BY <2>2 DEF vars, pageVars, FollowInv, FollowsSvc, FollowsDocs
  <2>3. ASSUME NEW k \in DOMAIN requests, Handle(k) PROVE FollowInv'
    BY <2>3, HandleFollow
  <2> QED BY <2>1, <2>2, <2>3, PageStepFollow DEF Next
<1>3. FollowInv => PageAgreesWithSelection
  BY DEF FollowInv, FollowsSvc, FollowsDocs, PageAgreesWithSelection, Has, Waits
<1> QED BY <1>1, <1>2, <1>3, InvCorrect, PTL DEF Spec
=============================================================================
