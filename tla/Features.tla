------------------------------ MODULE Features ------------------------------
(***************************************************************************)
(* Feature flags: the documents FeatureDao keeps, the operations           *)
(* FeatureService offers on them, and FeaturesCache, the copy of them a    *)
(* host keeps in memory and updates from the notifications of a continuous *)
(* query.                                                                  *)
(*                                                                         *)
(* A feature is a pair of a group and a name.  Both are sequences of       *)
(* tokens, one of which is the separator formId puts between them.         *)
(***************************************************************************)
EXTENDS Naturals, Sequences, FiniteSets

CONSTANTS
    Token,         \* what groups and names are made of
    Group,         \* groups of features
    Name,          \* names of features
    Separator,     \* the token "::"
    Absent,        \* null
    SetupMayFail,  \* the query task or the subscription may be refused
    MaxVersions,   \* bound: versions of a document
    MaxUpdates,    \* bound: versions of all documents together
    MaxCrashes     \* bound: crashes of the host

Feature == Group \X Name

formId(feature) == feature[1] \o <<Separator>> \o feature[2]

Id == {formId(f) : f \in Feature}

Strategy == {"DEFAULT"}

(* A version of a document.  version is its position in the index.          *)
Document == [feature : Feature, enable : BOOLEAN, strategy : Strategy,
             version : Nat \ {0}, action : {"POST", "PATCH", "DELETE"}]

(* What findFeature puts in the cache when it finds nothing.                *)
Unknown(feature) == [feature |-> feature, enable |-> FALSE, strategy |-> Absent,
                     version |-> 0, action |-> Absent]

ASSUME FeatureAssumption ==
    /\ Separator \in Token
    /\ Group \subseteq Seq(Token)
    /\ Name \subseteq Seq(Token)
    /\ Absent \notin Document
    /\ \A f \in Feature : Absent # Unknown(f)
    /\ Absent \notin Strategy
    /\ SetupMayFail \in BOOLEAN
    /\ MaxVersions \in Nat /\ MaxUpdates \in Nat /\ MaxCrashes \in Nat

VARIABLES
    index,      \* versions of each document, oldest first
    cache,      \* FeaturesCache.cache: an entry or Absent
    phase,      \* how far start() of the cache has come
    inflight,   \* versions that notifications under way carry
    crashes,    \* number of crashes
    heard,      \* history: places of the versions whose notification was
                \* handled since the host was started
    overtaken   \* history: documents of which the last notification handled
                \* came after that of a later version

hearing == <<heard, overtaken>>

vars == <<index, cache, phase, inflight, crashes, hearing>>

Entry == Document \cup {Unknown(f) : f \in Feature}

Init ==
    /\ index = [id \in Id |-> << >>]
    /\ cache = [id \in Id |-> Absent]
    /\ phase = "off"
    /\ inflight = {}
    /\ crashes = 0
    /\ heard = [id \in Id |-> {}]
    /\ overtaken = {}

Last(id) == index[id][Len(index[id])]

Deleted(id) == index[id] # << >> /\ Last(id).action = "DELETE"

Alive(id) == index[id] # << >> /\ ~ Deleted(id)

-----------------------------------------------------------------------------
(* Updates of documents.  The update slot of a document makes each of them  *)
(* one step; the continuous query sees it once it is subscribed to.         *)

(* The bounds let another version be written. *)
WithinBounds(id) ==
    /\ Len(index[id]) < MaxVersions
    /\ Cardinality({v \in Id \X (1 .. MaxVersions) : v[2] <= Len(index[v[1]])}) < MaxUpdates

Write(id, document) ==
    /\ WithinBounds(id)
    /\ index' = [index EXCEPT ![id] = Append(@, document)]
    /\ inflight' = IF phase = "on" THEN inflight \cup {document} ELSE inflight
    /\ UNCHANGED <<cache, phase, crashes, hearing>>

(* Faulty variant of NewFeature: a missing strategy is stored. *)
NewFeatureWithoutStrategy(feature, enable, strategy) ==
    LET id == formId(feature) IN
    /\ index[id] = << >>
    /\ Write(id, [feature |-> feature, enable |-> enable, strategy |-> strategy,
                  version |-> 1, action |-> "POST"])

(* newFeature: POST to the factory under the link formId makes; the factory *)
(* refuses a link that is in use, or was.  handleStart adds the strategy.   *)
NewFeature(feature, enable, strategy) ==
    LET id == formId(feature)
        default == IF strategy = Absent THEN "DEFAULT" ELSE strategy
    IN  /\ index[id] = << >>
        /\ Write(id, [feature |-> feature, enable |-> enable, strategy |-> default,
                      version |-> 1, action |-> "POST"])

(* Faulty variant of PatchFeature: the patched copy is not a new version. *)
PatchWithoutNotice(feature, enable, strategy) ==
    LET id == formId(feature) IN
    /\ Alive(id)
    /\ WithinBounds(id)
    /\ index' = [index EXCEPT ![id] = Append(@, [Last(id) EXCEPT
                     !.enable = enable, !.version = @ + 1, !.action = "PATCH"])]
    /\ UNCHANGED <<cache, phase, inflight, crashes, hearing>>

(* enableFeature and disableFeature patch enable alone; a client of the     *)
(* document service may patch the strategy, and sets enable whether it      *)
(* names it in the body or not.  The group and the name are those of the    *)
(* document, which the link found.                                          *)
PatchFeature(feature, enable, strategy) ==
    LET id == formId(feature) IN
    /\ Alive(id)
    /\ Write(id, [Last(id) EXCEPT
                    !.enable = enable,
                    !.strategy = IF strategy = Absent THEN @ ELSE strategy,
                    !.version = @ + 1,
                    !.action = "PATCH"])

DeleteFeature(feature) ==
    LET id == formId(feature) IN
    /\ Alive(id)
    /\ Write(id, [Last(id) EXCEPT !.version = @ + 1, !.action = "DELETE"])

-----------------------------------------------------------------------------
(* FeaturesCache                                                            *)

(* Faulty variant of FindFeature: the entry is looked up and then put. *)
FindFeatureOverwrites(feature) ==
    /\ cache' = [cache EXCEPT ![formId(feature)] = Unknown(feature)]
    /\ UNCHANGED <<index, phase, inflight, crashes, hearing>>

(* computeIfAbsent *)
FindFeature(feature) ==
    LET id == formId(feature) IN
    /\ cache' = [cache EXCEPT ![id] = IF @ = Absent THEN Unknown(feature) ELSE @]
    /\ UNCHANGED <<index, phase, inflight, crashes, hearing>>

(* initialize: start() posts the task of a continuous query                 *)
Initialize ==
    /\ phase = "off"
    /\ phase' = "querying"
    /\ UNCHANGED <<index, cache, inflight, crashes, hearing>>

(* the task was created: createSubscription asks for its notifications      *)
CreateSubscription ==
    /\ phase = "querying"
    /\ phase' = "subscribing"
    /\ UNCHANGED <<index, cache, inflight, crashes, hearing>>

(* Faulty variant of Subscribed: replay of the state is not asked for. *)
SubscribedWithoutReplay ==
    /\ phase = "subscribing"
    /\ phase' = "on"
    /\ UNCHANGED <<index, cache, inflight, crashes, hearing>>

(* The subscription starts, and replays the documents there are.            *)
Subscribed ==
    /\ phase = "subscribing"
    /\ phase' = "on"
    /\ inflight' = inflight \cup {Last(id) : id \in {i \in Id : index[i] # << >>}}
    /\ UNCHANGED <<index, cache, crashes, hearing>>

(* either completion is called with a failure: it logs it and that is all   *)
SetupFails ==
    /\ SetupMayFail
    /\ phase \in {"querying", "subscribing"}
    /\ phase' = "failed"
    /\ UNCHANGED <<index, cache, inflight, crashes, hearing>>

(* A notification is handled: nothing keeps those of a document in order.   *)
Handle(document) ==
    LET id == formId(document.feature) IN
    /\ inflight' = inflight \ {document}
    /\ heard' = [heard EXCEPT ![id] = @ \cup {document.version}]
    /\ overtaken' = IF \E k \in heard[id] : k > document.version
                    THEN overtaken \cup {id} ELSE overtaken \ {id}

(* Faulty variant of HandleFeatureUpdate: a deleted feature is put. *)
HandleFeatureUpdatePuts(document) ==
    /\ Handle(document)
    /\ cache' = [cache EXCEPT ![formId(document.feature)] = document]
    /\ UNCHANGED <<index, phase, crashes>>

(* One entry of the results of a notification.  Nothing compares its        *)
(* version with the one in the cache.                                       *)
HandleFeatureUpdate(document) ==
    /\ Handle(document)
    /\ cache' = [cache EXCEPT ![formId(document.feature)] =
                    IF document.action = "DELETE" THEN Absent ELSE document]
    /\ UNCHANGED <<index, phase, crashes>>

(* The host dies and is started again: the documents are durable, and       *)
(* handleStart finds nothing to add to them; the cache is a static field.   *)
Crash ==
    /\ crashes < MaxCrashes
    /\ crashes' = crashes + 1
    /\ cache' = [id \in Id |-> Absent]
    /\ phase' = "off"
    /\ inflight' = {}
    /\ heard' = [id \in Id |-> {}]
    /\ overtaken' = {}
    /\ UNCHANGED index

-----------------------------------------------------------------------------
Update(feature) ==
    \/ \E enable \in BOOLEAN, strategy \in Strategy \cup {Absent} :
          \/ NewFeature(feature, enable, strategy)
          \/ PatchFeature(feature, enable, strategy)
    \/ DeleteFeature(feature)

Next ==
    \/ \E f \in Feature : Update(f) \/ FindFeature(f)
    \/ Initialize \/ CreateSubscription \/ Subscribed \/ SetupFails
    \/ \E d \in inflight : HandleFeatureUpdate(d)
    \/ Crash

Spec == Init /\ [][Next]_vars

(* The answers to the requests of start() arrive, and so do notifications.  *)
Fairness ==
    /\ WF_vars(CreateSubscription)
    /\ WF_vars(Subscribed)
    /\ WF_vars(\E d \in inflight : HandleFeatureUpdate(d))

FairSpec == Spec /\ Fairness

-----------------------------------------------------------------------------
(* Types of the variables; no document lacks a strategy.                    *)
TypeOK ==
    /\ index \in [Id -> Seq(Document)]
    /\ cache \in [Id -> Entry \cup {Absent}]
    /\ phase \in {"off", "querying", "subscribing", "on", "failed"}
    /\ inflight \subseteq Document
    /\ crashes \in 0 .. MaxCrashes
    /\ heard \in [Id -> SUBSET Nat]
    /\ overtaken \subseteq Id

(* The cache invents nothing: an entry is a version the document really had *)
(* and that was not its deletion, or says that nothing is known; in         *)
(* whatever order notifications, look-ups and crashes come.                 *)
CacheHoldsAVersion ==
    \A id \in Id :
        cache[id] # Absent /\ cache[id].version # 0
            => /\ \E k \in DOMAIN index[id] : cache[id] = index[id][k]
               /\ cache[id].action # "DELETE"

(* With every notification handled, a subscribed host has heard of the last *)
(* version of every document, those written before it subscribed included,  *)
(* and the cache agrees with it, unless a notification handled after that   *)
(* of a later version put back what was overtaken.                          *)
CacheUpToDate ==
    phase = "on" /\ inflight = {} =>
        \A id \in Id : index[id] # << >> =>
            /\ Len(index[id]) \in heard[id]
            /\ \/ id \in overtaken
               \/ Alive(id) /\ cache[id] = Last(id)
               \/ Deleted(id) /\ (cache[id] = Absent \/ cache[id].version = 0)

(* What a version says of its feature.                                      *)
FlagOf(document) ==
    IF document.action = "DELETE" THEN "gone"
    ELSE IF document.enable THEN "enabled" ELSE "disabled"

(* An entry tells the version it is; no entry after the deletion was heard  *)
(* of tells the deletion.                                                   *)
Told(id) ==
    IF cache[id] # Absent /\ cache[id].version # 0
    THEN [place |-> cache[id].version, flag |-> FlagOf(cache[id])]
    ELSE IF Deleted(id) /\ Len(index[id]) \in heard[id]
    THEN [place |-> Len(index[id]), flag |-> "gone"]
    ELSE [place |-> 0, flag |-> "unknown"]

Flags ==
    INSTANCE FeatureFlags WITH
        history <- [id \in Id |-> [k \in DOMAIN index[id] |-> FlagOf(index[id][k])]],
        told <- [id \in Id |-> Told(id)],
        heard <- heard

(* What the cache tells of a feature changes only with a notification, each *)
(* of which counts once, and with a crash, which forgets every feature: a   *)
(* look-up, the replay or the end of a feature neither take back what was   *)
(* heard nor tell what was not.  In whatever order notifications come.      *)
FlagsSpec == Flags!FSpec

(* Every version of a document, or a later one or its deletion, reaches the *)
(* cache of a host whose setup does not fail and that hears of the versions *)
(* in the order in which they were written.                                 *)
CacheCatchesUp ==
    \A id \in Id, n \in 1 .. MaxVersions :
        phase \in {"querying", "subscribing", "on"} /\ Len(index[id]) = n
            ~> \/ phase \in {"off", "failed"}
               \/ Deleted(id) \/ id \in overtaken
               \/ cache[id] # Absent /\ cache[id].version >= n
=============================================================================
