--------------------------- MODULE FeaturesProofs ---------------------------
(***************************************************************************)
(* Proofs about Features, for any groups and names and any number of       *)
(* versions and crashes.                                                   *)
(***************************************************************************)
EXTENDS Features, TLAPS

(* Two features have the same link only if they are the same, provided that *)
(* no group contains the separator formId puts after it; names may.         *)
THEOREM FormIdInjective ==
    ASSUME \A g \in Group : \A k \in 1 .. Len(g) : g[k] # Separator,
           NEW f \in Feature, NEW h \in Feature,
           formId(f) = formId(h)
    PROVE  f = h
  <1> DEFINE a == f[1]  b == f[2]  c == h[1]  d == h[2]
             s == a \o <<Separator>> \o b
             t == c \o <<Separator>> \o d
  <1>1. /\ a \in Seq(Token) /\ b \in Seq(Token) /\ c \in Seq(Token) /\ d \in Seq(Token)
        /\ <<Separator>> \in Seq(Token)
        /\ f = <<a, b>> /\ h = <<c, d>>
    BY FeatureAssumption DEF Feature
  <1>2. /\ \A k \in 1 .. Len(a) : a[k] # Separator
        /\ \A k \in 1 .. Len(c) : c[k] # Separator
    BY DEF Feature
  <1>3. s = t
    BY DEF formId
  <1> HIDE DEF a, b, c, d
  <1>4. /\ Len(s) = Len(a) + 1 + Len(b)
        /\ s[Len(a) + 1] = Separator
        /\ \A k \in 1 .. Len(a) : s[k] = a[k]
        /\ \A k \in 1 .. Len(b) : s[Len(a) + 1 + k] = b[k]
    BY <1>1
  <1>5. /\ Len(t) = Len(c) + 1 + Len(d)
        /\ t[Len(c) + 1] = Separator
        /\ \A k \in 1 .. Len(c) : t[k] = c[k]
        /\ \A k \in 1 .. Len(d) : t[Len(c) + 1 + k] = d[k]
    BY <1>1
  <1>6. Len(a) \in Nat /\ Len(b) \in Nat /\ Len(c) \in Nat /\ Len(d) \in Nat
    BY <1>1
  <1> HIDE DEF s, t
  <1>7. ~ (Len(a) < Len(c))
    <2> SUFFICES ASSUME Len(a) < Len(c) PROVE FALSE
      OBVIOUS
    <2> DEFINE m == Len(a) + 1
    <2>1. m \in 1 .. Len(c)
      BY <1>6
    <2>2. t[m] = c[m]
      BY <1>5, <2>1
    <2>3. s[m] = Separator
      BY <1>4
    <2>4. c[m] # Separator
      BY <1>2, <2>1
    <2> HIDE DEF m
    <2> QED
      BY <1>3, <2>2, <2>3, <2>4
  <1>8. ~ (Len(c) < Len(a))
    <2> SUFFICES ASSUME Len(c) < Len(a) PROVE FALSE
      OBVIOUS
    <2> DEFINE m == Len(c) + 1
    <2>1. m \in 1 .. Len(a)
      BY <1>6
    <2>2. s[m] = a[m]
      BY <1>4, <2>1
    <2>3. t[m] = Separator
      BY <1>5
    <2>4. a[m] # Separator
      BY <1>2, <2>1
    <2> HIDE DEF m
    <2> QED
      BY <1>3, <2>2, <2>3, <2>4
  <1>9. Len(a) = Len(c) /\ Len(b) = Len(d)
    BY <1>3, <1>4, <1>5, <1>6, <1>7, <1>8
  <1>10. a = c
    BY <1>1, <1>3, <1>4, <1>5, <1>9
  <1>11. b = d
    <2>1. ASSUME NEW k \in 1 .. Len(b) PROVE b[k] = d[k]
      <3>1. b[k] = s[Len(a) + 1 + k]
        BY <1>4
      <3>2. d[k] = t[Len(c) + 1 + k]
        BY <1>5, <1>9
      <3> QED
        BY <1>3, <1>9, <3>1, <3>2
    <2>2. /\ b = [k \in 1 .. Len(b) |-> b[k]]
          /\ d = [k \in 1 .. Len(d) |-> d[k]]
      BY <1>1
    <2> QED
      BY <1>9, <2>1, <2>2, Zenon
  <1> QED
    BY <1>1, <1>10, <1>11

-----------------------------------------------------------------------------
(* The k-th version of a document is numbered k and is found under its id.  *)
VersionInv ==
    \A id \in Id : \A k \in 1 .. Len(index[id]) :
        index[id][k].version = k /\ formId(index[id][k].feature) = id

IsVersion(id, d) == /\ d.version \in 1 .. Len(index[id])
                    /\ index[id][d.version] = d

(* A notification carries a version of the document it names.               *)
FlightInv ==
    \A d \in inflight : formId(d.feature) \in Id /\ IsVersion(formId(d.feature), d)

CacheInv ==
    \A id \in Id :
        cache[id] # Absent /\ cache[id].version # 0
            => IsVersion(id, cache[id]) /\ cache[id].action # "DELETE"

(* What there is, what is cached and what is under way fit together.         *)
Inv ==
    /\ TypeOK
    /\ phase # "on" => inflight = {}
    /\ VersionInv
    /\ FlightInv
    /\ CacheInv

(* A deletion is the last version of its document.                          *)
GoneIsLast ==
    \A id \in Id : \A k \in 1 .. Len(index[id]) :
        index[id][k].action = "DELETE" => k = Len(index[id])

Cached(id) == cache[id] # Absent /\ cache[id].version # 0

(* Notifications are handled once, and only by a subscribed host.           *)
HeardOnce ==
    /\ phase # "on" => \A id \in Id : heard[id] = {}
    /\ \A id \in Id : heard[id] \subseteq 1 .. Len(index[id])
    /\ \A d \in inflight : d.version \notin heard[formId(d.feature)]

(* The last version of a document was heard of or is on its way.            *)
LatestComes ==
    phase = "on" =>
        \A id \in Id : index[id] # << >>
            => Len(index[id]) \in heard[id] \/ Last(id) \in inflight

(* The entry of a document that was not overtaken is the latest that was    *)
(* heard of; there is none when that is the deletion.                       *)
CacheFollows ==
    \A id \in Id \ overtaken : \A k \in heard[id] :
        IF Cached(id) THEN k <= cache[id].version ELSE Deleted(id)

(* The whole invariant.                                                     *)
HeardInv == Inv /\ GoneIsLast /\ HeardOnce /\ LatestComes /\ CacheFollows

-----------------------------------------------------------------------------
(* The link of a feature is an id.                                          *)
LEMMA IdOfFeature == ASSUME NEW f \in Feature PROVE formId(f) \in Id
  BY DEF Id

(* The last version of a document that has one.                             *)
LEMMA LastIsVersion ==
    ASSUME Inv, NEW id \in Id, index[id] # << >>
    PROVE  /\ Len(index[id]) \in Nat \ {0}
           /\ Last(id) \in Document
           /\ Last(id).version = Len(index[id])
           /\ formId(Last(id).feature) = id
           /\ IsVersion(id, Last(id))
  <1>1. index[id] \in Seq(Document)
    BY DEF Inv, TypeOK
  <1>2. Len(index[id]) \in Nat \ {0} /\ index[id][Len(index[id])] \in Document
    BY <1>1
  <1> QED
    BY <1>2 DEF Last, Inv, VersionInv, IsVersion

(* A version that follows another is a document with the next number; what  *)
(* the values of enable are does not matter.                                *)
LEMMA NextVersion ==
    ASSUME NEW Value,
           NEW e \in [feature : Feature, enable : Value, strategy : Strategy,
                      version : Nat \ {0}, action : {"POST", "PATCH", "DELETE"}],
           NEW enable \in Value, NEW strategy \in Strategy,
           NEW action \in {"PATCH", "DELETE"}, NEW version \in Nat \ {0},
           NEW d, d = [e EXCEPT !.enable = enable, !.strategy = strategy,
                                !.version = version, !.action = action]
    PROVE  /\ d \in [feature : Feature, enable : Value, strategy : Strategy,
                     version : Nat \ {0}, action : {"POST", "PATCH", "DELETE"}]
           /\ d.version = version
           /\ d.feature = e.feature
  OBVIOUS

(* So is the one that marks it as deleted.                                  *)
LEMMA DeletedVersion ==
    ASSUME NEW Value,
           NEW e \in [feature : Feature, enable : Value, strategy : Strategy,
                      version : Nat \ {0}, action : {"POST", "PATCH", "DELETE"}],
           NEW version \in Nat \ {0},
           NEW d, d = [e EXCEPT !.version = version, !.action = "DELETE"]
    PROVE  /\ d \in [feature : Feature, enable : Value, strategy : Strategy,
                     version : Nat \ {0}, action : {"POST", "PATCH", "DELETE"}]
           /\ d.version = version
           /\ d.feature = e.feature
  OBVIOUS

(* Each update writes one new version, with the next number, under the id   *)
(* of the feature it is for.                                                *)
LEMMA UpdateWrites ==
    ASSUME Inv, NEW f \in Feature, Update(f)
    PROVE  \E d \in Document : /\ d.version = Len(index[formId(f)]) + 1
                               /\ formId(d.feature) = formId(f)
                               /\ Write(formId(f), d)
  <1> DEFINE id == formId(f)
  <1>1. id \in Id
    BY IdOfFeature
  <1>2. ASSUME NEW enable \in BOOLEAN, NEW strategy \in Strategy \cup {Absent},
               NewFeature(f, enable, strategy)
        PROVE  \E d \in Document : /\ d.version = Len(index[id]) + 1
                                   /\ formId(d.feature) = id /\ Write(id, d)
    <2> DEFINE d == [feature |-> f, enable |-> enable,
                     strategy |-> IF strategy = Absent THEN "DEFAULT" ELSE strategy,
                     version |-> 1, action |-> "POST"]
    <2>1. Write(id, d) /\ index[id] = << >>
      BY <1>2 DEF NewFeature
    <2>2. d \in Document /\ d.version = 1 /\ d.feature = f
      BY DEF Document, Strategy
    <2> HIDE DEF d
    <2> QED
      BY <2>1, <2>2
  <1>3. ASSUME NEW enable \in BOOLEAN, NEW strategy \in Strategy \cup {Absent},
               PatchFeature(f, enable, strategy)
        PROVE  \E d \in Document : /\ d.version = Len(index[id]) + 1
                                   /\ formId(d.feature) = id /\ Write(id, d)
    <2> DEFINE d == [Last(id) EXCEPT
                       !.enable = enable,
                       !.strategy = IF strategy = Absent THEN @ ELSE strategy,
                       !.version = @ + 1,
                       !.action = "PATCH"]
    <2>1. Write(id, d) /\ index[id] # << >>
      BY <1>3 DEF PatchFeature, Alive
    <2>2. /\ Last(id) \in Document /\ Last(id).version = Len(index[id])
          /\ formId(Last(id).feature) = id
      BY <1>1, <2>1, LastIsVersion
    <2>3. (IF strategy = Absent THEN Last(id).strategy ELSE strategy) \in Strategy
      BY <2>2 DEF Document
    <2>4. /\ d \in Document /\ d.version = Last(id).version + 1
          /\ d.feature = Last(id).feature
      <3>1. Last(id).version + 1 \in Nat \ {0}
        BY <2>2 DEF Document
      <3> QED
        BY <2>2, <2>3, <3>1, NextVersion DEF Document
    <2> HIDE DEF d
    <2> QED
      BY <2>1, <2>2, <2>4
  <1>4. ASSUME DeleteFeature(f)
        PROVE  \E d \in Document : /\ d.version = Len(index[id]) + 1
                                   /\ formId(d.feature) = id /\ Write(id, d)
    <2> DEFINE d == [Last(id) EXCEPT !.version = @ + 1, !.action = "DELETE"]
    <2>1. Write(id, d) /\ index[id] # << >>
      BY <1>4 DEF DeleteFeature, Alive
    <2>2. /\ Last(id) \in Document /\ Last(id).version = Len(index[id])
          /\ formId(Last(id).feature) = id
      BY <1>1, <2>1, LastIsVersion
    <2>3. /\ d \in Document /\ d.version = Last(id).version + 1
          /\ d.feature = Last(id).feature
      <3>1. Last(id).version + 1 \in Nat \ {0}
        BY <2>2 DEF Document
      <3> QED
        BY <2>2, <3>1, DeletedVersion DEF Document
    <2> HIDE DEF d
    <2> QED
      BY <2>1, <2>2, <2>3
  <1> QED
    BY <1>2, <1>3, <1>4 DEF Update

(* What Write does to the versions.                                         *)
LEMMA WriteEffect ==
    ASSUME Inv, NEW id \in Id, NEW d \in Document, Write(id, d)
    PROVE  /\ index' \in [Id -> Seq(Document)]
           /\ Len(index[id]) \in Nat
           /\ Len(index'[id]) = Len(index[id]) + 1
           /\ index'[id] # << >>
           /\ index'[id][Len(index[id]) + 1] = d
           /\ \A k \in 1 .. Len(index[id]) : index'[id][k] = index[id][k]
           /\ \A i \in Id : i # id => index'[i] = index[i]
  <1>1. index \in [Id -> Seq(Document)]
    BY DEF Inv, TypeOK
  <1>2. /\ index'[id] = Append(index[id], d)
        /\ \A i \in Id : i # id => index'[i] = index[i]
        /\ index' = [i \in Id |-> IF i = id THEN Append(index[i], d) ELSE index[i]]
    BY <1>1 DEF Write
  <1>3. index[id] \in Seq(Document)
    BY <1>1
  <1>4. Append(index[id], d) \in Seq(Document)
    BY <1>3
  <1>5. index' \in [Id -> Seq(Document)]
    BY <1>1, <1>2, <1>4
  <1> QED
    BY <1>2, <1>3, <1>5

(* A new version does not disturb the old ones.                             *)
LEMMA WriteInv ==
    ASSUME Inv, NEW id \in Id, NEW d \in Document, Write(id, d),
           d.version = Len(index[id]) + 1, formId(d.feature) = id
    PROVE  Inv'
  <1>1. /\ UNCHANGED <<cache, phase, crashes, heard, overtaken>>
        /\ inflight' = IF phase = "on" THEN inflight \cup {d} ELSE inflight
    BY DEF Write, hearing
  <1>2. TypeOK' /\ (phase' # "on" => inflight' = {})
    BY <1>1, WriteEffect DEF Inv, TypeOK
  <1>3. \A i \in Id : \A e : IsVersion(i, e) => IsVersion(i, e)'
    BY WriteEffect DEF IsVersion
  <1>4. VersionInv'
    <2> SUFFICES ASSUME NEW i \in Id, NEW k \in 1 .. Len(index'[i])
                 PROVE  index'[i][k].version = k /\ formId(index'[i][k].feature) = i
      BY DEF VersionInv
    <2>1. CASE i = id /\ k = Len(index[id]) + 1
      BY <2>1, WriteEffect
    <2>2. CASE i # id \/ k # Len(index[id]) + 1
      <3>1. k \in 1 .. Len(index[i]) /\ index'[i][k] = index[i][k]
        BY <2>2, WriteEffect
      <3> QED
        BY <3>1 DEF Inv, VersionInv
    <2> QED
      BY <2>1, <2>2
  <1>5. IsVersion(id, d)'
    BY WriteEffect DEF IsVersion
  <1>6. FlightInv'
    BY <1>1, <1>3, <1>5 DEF Inv, FlightInv
  <1>7. CacheInv'
    BY <1>1, <1>3 DEF Inv, CacheInv
  <1> QED
    BY <1>2, <1>4, <1>6, <1>7 DEF Inv

(* A look-up adds nothing but the entry of an unknown feature.              *)
LEMMA FindFeatureInv ==
    ASSUME Inv, NEW f \in Feature, FindFeature(f)
    PROVE  Inv'
  <1>1. Unknown(f).version = 0 /\ Unknown(f) \in Entry
    BY DEF Unknown, Entry
  <1>2. \A id \in Id : cache'[id] = cache[id] \/ cache'[id] = Unknown(f)
    BY DEF FindFeature, Inv, TypeOK
  <1>3. cache' \in [Id -> Entry \cup {Absent}] /\ UNCHANGED <<index, phase, inflight, crashes, heard, overtaken>>
    BY <1>1, IdOfFeature DEF FindFeature, hearing, Inv, TypeOK
  <1>4. TypeOK' /\ VersionInv' /\ FlightInv' /\ (phase' # "on" => inflight' = {})
    BY <1>3 DEF Inv, TypeOK, VersionInv, FlightInv, IsVersion
  <1>5. CacheInv'
    BY <1>1, <1>2, <1>3 DEF Inv, CacheInv, IsVersion
  <1> QED
    BY <1>4, <1>5 DEF Inv

(* What handling a notification does to the cache.                          *)
LEMMA HandleEffect ==
    ASSUME Inv, NEW d \in inflight, HandleFeatureUpdate(d)
    PROVE  /\ d \in Document /\ formId(d.feature) \in Id
           /\ cache'[formId(d.feature)] = IF d.action = "DELETE" THEN Absent ELSE d
           /\ \A id \in Id : id # formId(d.feature) => cache'[id] = cache[id]
           /\ cache' \in [Id -> Entry \cup {Absent}]
           /\ inflight' = inflight \ {d}
           /\ d.version \in heard'[formId(d.feature)]
           /\ heard'[formId(d.feature)] = heard[formId(d.feature)] \cup {d.version}
           /\ \A id \in Id : id # formId(d.feature) => heard'[id] = heard[id]
           /\ heard' \in [Id -> SUBSET Nat] /\ overtaken' \subseteq Id
           /\ \A id \in Id : id # formId(d.feature) => (id \in overtaken' <=> id \in overtaken)
           /\ formId(d.feature) \notin overtaken'
                 => \A k \in heard[formId(d.feature)] : ~ (k > d.version)
           /\ UNCHANGED <<index, phase, crashes>>
  <1>1. d \in Document /\ formId(d.feature) \in Id
    BY DEF Inv, TypeOK, FlightInv
  <1>2. cache' = [cache EXCEPT ![formId(d.feature)] =
                    IF d.action = "DELETE" THEN Absent ELSE d]
        /\ inflight' = inflight \ {d}
        /\ UNCHANGED <<index, phase, crashes>>
    BY DEF HandleFeatureUpdate, Handle
  <1>3. /\ cache \in [Id -> Entry \cup {Absent}]
        /\ heard \in [Id -> SUBSET Nat] /\ overtaken \subseteq Id
    BY DEF Inv, TypeOK
  <1>4. /\ cache'[formId(d.feature)] = IF d.action = "DELETE" THEN Absent ELSE d
        /\ \A id \in Id : id # formId(d.feature) => cache'[id] = cache[id]
        /\ cache' \in [Id -> Entry \cup {Absent}]
    BY <1>1, <1>2, <1>3 DEF Entry
  <1> DEFINE i == formId(d.feature)
  <1>5. /\ heard' = [heard EXCEPT ![i] = @ \cup {d.version}]
        /\ overtaken' = IF \E k \in heard[i] : k > d.version
                        THEN overtaken \cup {i} ELSE overtaken \ {i}
    BY DEF HandleFeatureUpdate, Handle
  <1>6. d.version \in Nat
    BY <1>1 DEF Document
  <1> HIDE DEF i
  <1>7. /\ heard'[i] = heard[i] \cup {d.version}
        /\ \A id \in Id : id # i => heard'[id] = heard[id]
        /\ heard' \in [Id -> SUBSET Nat]
    BY <1>1, <1>3, <1>5, <1>6 DEF i
  <1>8. /\ overtaken' \subseteq Id
        /\ \A id \in Id : id # i => (id \in overtaken' <=> id \in overtaken)
        /\ i \notin overtaken' => \A k \in heard[i] : ~ (k > d.version)
    BY <1>1, <1>3, <1>5 DEF i
  <1> QED
    BY <1>1, <1>2, <1>4, <1>7, <1>8 DEF i

(* A notification puts a version that is in the index.                      *)
LEMMA HandleInv ==
    ASSUME Inv, NEW d \in inflight, HandleFeatureUpdate(d)
    PROVE  Inv'
  <1>1. TypeOK' /\ (phase' # "on" => inflight' = {})
    BY HandleEffect DEF Inv, TypeOK
  <1>2. VersionInv' /\ FlightInv'
    BY HandleEffect DEF Inv, VersionInv, FlightInv, IsVersion
  <1>3. IsVersion(formId(d.feature), d)
    BY DEF Inv, FlightInv
  <1>4. CacheInv'
    BY <1>3, HandleEffect DEF Inv, CacheInv, IsVersion
  <1> QED
    BY <1>1, <1>2, <1>4 DEF Inv

(* The replay carries the last versions.                                    *)
LEMMA SubscribedInv ==
    ASSUME Inv, Subscribed
    PROVE  Inv'
  <1> DEFINE replay == {Last(id) : id \in {i \in Id : index[i] # << >>}}
  <1>1. phase' = "on" /\ inflight' = inflight \cup replay /\ UNCHANGED <<index, cache, crashes, heard, overtaken>>
    BY DEF Subscribed, hearing
  <1>2. \A d \in replay : /\ d \in Document /\ formId(d.feature) \in Id
                          /\ IsVersion(formId(d.feature), d)
    BY LastIsVersion
  <1> HIDE DEF replay
  <1>3. TypeOK' /\ VersionInv' /\ FlightInv' /\ CacheInv'
    BY <1>1, <1>2 DEF Inv, TypeOK, VersionInv, FlightInv, CacheInv, IsVersion
  <1> QED
    BY <1>1, <1>3 DEF Inv

(* Before the first document.                                               *)
LEMMA InvInit == Init => Inv
  <1> SUFFICES ASSUME Init PROVE Inv
    OBVIOUS
  <1>1. \A id \in Id : index[id] = << >> /\ cache[id] = Absent
    BY DEF Init
  <1>2. TypeOK
    BY FeatureAssumption DEF Init, TypeOK
  <1> QED
    BY <1>1, <1>2 DEF Init, Inv, VersionInv, FlightInv, CacheInv

(* Every step preserves the invariant, in whatever order notifications are  *)
(* handled.                                                                 *)
LEMMA InvNext == Inv /\ [Next]_vars => Inv'
  <1> SUFFICES ASSUME Inv, [Next]_vars PROVE Inv'
    OBVIOUS
  <1>1. ASSUME NEW f \in Feature, Update(f) PROVE Inv'
    BY <1>1, UpdateWrites, WriteInv, IdOfFeature
  <1>2. ASSUME NEW f \in Feature, FindFeature(f) PROVE Inv'
    BY <1>2, FindFeatureInv
  <1>3. CASE Initialize \/ CreateSubscription \/ SetupFails
    BY <1>3 DEF Initialize, CreateSubscription, SetupFails, hearing,
                Inv, TypeOK, VersionInv, FlightInv, CacheInv, IsVersion
  <1>4. CASE Subscribed
    BY <1>4, SubscribedInv
  <1>5. ASSUME NEW d \in inflight, HandleFeatureUpdate(d) PROVE Inv'
    BY <1>5, HandleInv
  <1>6. CASE Crash
    <2>1. /\ crashes < MaxCrashes /\ crashes' = crashes + 1 /\ phase' = "off"
          /\ inflight' = {} /\ UNCHANGED index
          /\ cache' = [id \in Id |-> Absent]
          /\ heard' = [id \in Id |-> {}] /\ overtaken' = {}
      BY <1>6 DEF Crash
    <2>2. crashes' \in 0 .. MaxCrashes
      BY <2>1, FeatureAssumption DEF Inv, TypeOK
    <2>3. \A id \in Id : cache'[id] = Absent
      BY <2>1
    <2>4. TypeOK'
      BY <2>1, <2>2 DEF Inv, TypeOK
    <2> QED
      BY <2>1, <2>3, <2>4 DEF Inv, VersionInv, FlightInv, CacheInv
  <1>7. CASE UNCHANGED vars
    BY <1>7 DEF vars, hearing, Inv, TypeOK, VersionInv, FlightInv, CacheInv, IsVersion
  <1> QED
    BY <1>1, <1>2, <1>3, <1>4, <1>5, <1>6, <1>7 DEF Next

(* The invariant holds in every reachable state.                            *)
LEMMA InvCorrect == Spec => []Inv
  BY InvInit, InvNext, PTL DEF Spec

(* Every document and every entry of the cache is complete: no version      *)
(* lacks a strategy, whatever clients post and patch.                       *)
THEOREM TypeCorrect == Spec => []TypeOK
<1>1. Inv => TypeOK
  BY DEF Inv
<1> QED BY <1>1, InvCorrect, PTL

(* In whatever order notifications arrive, the cache holds only versions    *)
(* the documents had, and never a deleted one.                              *)
THEOREM CacheHoldsAVersionCorrect == Spec => []CacheHoldsAVersion
  <1>1. Inv => CacheHoldsAVersion
    <2> SUFFICES ASSUME Inv, NEW id \in Id, cache[id] # Absent, cache[id].version # 0
                 PROVE  /\ \E k \in DOMAIN index[id] : cache[id] = index[id][k]
                        /\ cache[id].action # "DELETE"
      BY DEF CacheHoldsAVersion
    <2>1. IsVersion(id, cache[id]) /\ cache[id].action # "DELETE"
      BY DEF Inv, CacheInv
    <2>2. DOMAIN index[id] = 1 .. Len(index[id])
      BY DEF Inv, TypeOK
    <2> QED
      BY <2>1, <2>2 DEF IsVersion
  <1> QED
    BY <1>1, InvCorrect, PTL

-----------------------------------------------------------------------------
(* What a subscribed host has heard of                                      *)

(* A look-up leaves the entries there are alone.                            *)
LEMMA FindFeatureEffect ==
    ASSUME Inv, NEW f \in Feature, FindFeature(f)
    PROVE  /\ \A id \in Id : cache[id] # Absent => cache'[id] = cache[id]
           /\ \A id \in Id : cache[id] = Absent
                 => cache'[id] = Absent \/ cache'[id].version = 0
           /\ UNCHANGED <<index, phase, inflight, crashes, heard, overtaken>>
  BY DEF FindFeature, hearing, Inv, TypeOK, Unknown

(* A deleted document is not updated.                                       *)
LEMMA UpdateSpares ==
    ASSUME Inv, NEW f \in Feature, Update(f)
    PROVE  ~ Deleted(formId(f))
BY DEF Update, NewFeature, PatchFeature, DeleteFeature, Alive, Deleted

(* So nothing follows a deletion.                                           *)
LEMMA GoneWrite ==
    ASSUME Inv, GoneIsLast, NEW id \in Id, NEW d \in Document, Write(id, d), ~ Deleted(id)
    PROVE  GoneIsLast'
<1> DEFINE n == Len(index[id])
<1>1. /\ n \in Nat /\ Len(index'[id]) = n + 1
      /\ \A k \in 1 .. n : index'[id][k] = index[id][k]
      /\ \A i \in Id : i # id => index'[i] = index[i]
  BY WriteEffect
<1>2. ASSUME NEW k \in 1 .. n PROVE index[id][k].action # "DELETE"
  <2>1. index[id][k].action = "DELETE" => k = n
    BY DEF GoneIsLast
  <2>2. index[id] # << >>
    BY <1>1
  <2> QED BY <2>1, <2>2 DEF Deleted, Last
<1>3. ASSUME NEW i \in Id, NEW k \in 1 .. Len(index'[i]), index'[i][k].action = "DELETE"
      PROVE  k = Len(index'[i])
  <2>1. CASE i = id
    <3>1. k \in 1 .. n + 1
      BY <1>1, <2>1
    <3>2. k \notin 1 .. n
      BY <1>1, <1>2, <1>3, <2>1
    <3> QED BY <1>1, <2>1, <3>1, <3>2
  <2>2. CASE i # id
    BY <1>1, <1>3, <2>2 DEF GoneIsLast
  <2> QED BY <2>1, <2>2
<1> QED BY <1>3 DEF GoneIsLast

(* A write heeds what was heard: its own version is on its way.             *)
LEMMA WriteHeard ==
    ASSUME HeardInv, NEW id \in Id, NEW d \in Document, Write(id, d),
           d.version = Len(index[id]) + 1, formId(d.feature) = id, ~ Deleted(id)
    PROVE  HeardOnce' /\ LatestComes' /\ CacheFollows'
<1>1. /\ UNCHANGED <<cache, phase, heard, overtaken>>
      /\ inflight' = IF phase = "on" THEN inflight \cup {d} ELSE inflight
  BY DEF Write, hearing
<1>2. Inv
  BY DEF HeardInv
<1> DEFINE n == Len(index[id])
<1>3. /\ n \in Nat /\ Len(index'[id]) = n + 1
      /\ index'[id][n + 1] = d
      /\ \A i \in Id : i # id => index'[i] = index[i]
  BY <1>2, WriteEffect
<1> HIDE DEF n
<1>4. d.version = n + 1
  BY DEF n
<1>5. HeardOnce'
  <2>1. \A i \in Id : heard[i] \subseteq 1 .. Len(index'[i])
    <3> SUFFICES ASSUME NEW i \in Id, NEW k \in heard[i] PROVE k \in 1 .. Len(index'[i])
      OBVIOUS
    <3>1. k \in 1 .. Len(index[i])
      BY DEF HeardInv, HeardOnce
    <3> QED BY <1>3, <3>1 DEF n
  <2>2. d.version \notin heard[id]
    BY <1>3, <1>4 DEF HeardInv, HeardOnce, n
  <2> QED BY <1>1, <2>1, <2>2 DEF HeardInv, HeardOnce
<1>6. LatestComes'
  <2> SUFFICES ASSUME phase = "on", NEW i \in Id, index'[i] # << >>
               PROVE  Len(index'[i]) \in heard[i] \/ Last(i)' \in inflight'
    BY <1>1 DEF LatestComes
  <2>1. CASE i = id
    BY <1>1, <1>3, <2>1 DEF Last
  <2>2. CASE i # id
    BY <1>1, <1>3, <2>2 DEF Last, HeardInv, LatestComes
  <2> QED BY <2>1, <2>2
<1>7. CacheFollows'
  <2> SUFFICES ASSUME NEW i \in Id \ overtaken, NEW k \in heard[i]
               PROVE  IF Cached(i)' THEN k <= cache'[i].version ELSE Deleted(i)'
    BY <1>1 DEF CacheFollows
  <2>1. IF Cached(i) THEN k <= cache[i].version ELSE Deleted(i)
    BY DEF HeardInv, CacheFollows
  <2>2. CASE i = id
    BY <1>1, <2>1, <2>2 DEF Cached
  <2>3. CASE i # id
    <3>1. Deleted(i)' = Deleted(i)
      BY <1>3, <2>3 DEF Deleted, Last
    <3> QED BY <1>1, <2>1, <3>1 DEF Cached
  <2> QED BY <2>2, <2>3
<1> QED BY <1>5, <1>6, <1>7

(* A look-up puts no version, and none was heard of where it puts an entry. *)
LEMMA FindFeatureHeard ==
    ASSUME HeardInv, NEW f \in Feature, FindFeature(f)
    PROVE  GoneIsLast' /\ HeardOnce' /\ LatestComes' /\ CacheFollows'
<1>1. /\ UNCHANGED <<index, phase, inflight, heard, overtaken>>
      /\ \A id \in Id : Cached(id)' = Cached(id) /\ (Cached(id) => cache'[id] = cache[id])
  BY FindFeatureEffect DEF HeardInv, Cached
<1>2. GoneIsLast' /\ HeardOnce' /\ LatestComes'
  BY <1>1 DEF HeardInv, GoneIsLast, HeardOnce, LatestComes, Last
<1>3. CacheFollows'
  BY <1>1 DEF HeardInv, CacheFollows, Deleted, Last
<1> QED BY <1>2, <1>3

(* What follows from a notification depends on what was heard of before.    *)
LEMMA HandleHeard ==
    ASSUME HeardInv, NEW d \in inflight, HandleFeatureUpdate(d)
    PROVE  GoneIsLast' /\ HeardOnce' /\ LatestComes' /\ CacheFollows'
<1> DEFINE id == formId(d.feature)  k == d.version  n == Len(index[id])
<1>1. Inv /\ id \in Id /\ d \in Document
  BY HandleEffect DEF HeardInv
<1>2. /\ cache'[id] = IF d.action = "DELETE" THEN Absent ELSE d
      /\ heard'[id] = heard[id] \cup {k}
      /\ id \notin overtaken' => \A j \in heard[id] : ~ (j > k)
      /\ inflight' = inflight \ {d}
      /\ UNCHANGED <<index, phase>>
      /\ \A i \in Id : i # id => /\ cache'[i] = cache[i] /\ heard'[i] = heard[i]
                               /\ (i \in overtaken' <=> i \in overtaken)
  BY <1>1, HandleEffect
<1>3. IsVersion(id, d) /\ phase = "on"
  BY <1>1 DEF Inv, FlightInv
<1>4. n \in Nat /\ k \in 1 .. n /\ index[id][k] = d /\ d # Absent
  BY <1>1, <1>3, FeatureAssumption DEF IsVersion, Inv, TypeOK
<1>5. \A e \in inflight : formId(e.feature) = id /\ e.version = k => e = d
  BY <1>1, <1>4 DEF Inv, FlightInv, IsVersion
<1>6. \A e \in inflight : formId(e.feature) \in Id
  BY <1>1 DEF Inv, FlightInv
<1> HIDE DEF id, k, n
<1>7. GoneIsLast'
  BY <1>2 DEF HeardInv, GoneIsLast
<1>8. HeardOnce'
  <2>1. \A i \in Id : heard'[i] \subseteq 1 .. Len(index'[i])
    BY <1>2, <1>4 DEF HeardInv, HeardOnce, n
  <2>2. ASSUME NEW e \in inflight' PROVE e.version \notin heard'[formId(e.feature)]
    <3>1. e \in inflight /\ e # d /\ e.version \notin heard[formId(e.feature)]
      BY <1>2 DEF HeardInv, HeardOnce
    <3>2. CASE formId(e.feature) = id
      BY <1>2, <1>5, <3>1, <3>2
    <3>3. CASE formId(e.feature) # id
      BY <1>2, <1>6, <3>1, <3>3
    <3> QED BY <3>2, <3>3
  <2> QED BY <1>2, <1>3, <2>1, <2>2 DEF HeardOnce
<1>9. LatestComes'
  <2> SUFFICES ASSUME NEW i \in Id, index[i] # << >>
               PROVE  Len(index[i]) \in heard'[i] \/ Last(i) \in inflight'
    BY <1>2 DEF LatestComes, Last
  <2>1. Len(index[i]) \in heard[i] \/ Last(i) \in inflight
    BY <1>3 DEF HeardInv, LatestComes
  <2>2. CASE Last(i) = d
    <3>1. formId(d.feature) = i /\ d.version = Len(index[i])
      BY <1>1, <2>2, LastIsVersion
    <3> QED BY <1>2, <3>1 DEF id, k
  <2>3. CASE Last(i) # d
    BY <1>2, <2>1, <2>3
  <2> QED BY <2>2, <2>3
<1>10. CacheFollows'
  <2> SUFFICES ASSUME NEW i \in Id \ overtaken', NEW j \in heard'[i]
               PROVE  IF Cached(i)' THEN j <= cache'[i].version ELSE Deleted(i)'
    BY DEF CacheFollows
  <2>1. Deleted(i)' = Deleted(i)
    BY <1>2 DEF Deleted, Last
  <2>2. CASE i # id
    BY <1>2, <2>1, <2>2 DEF HeardInv, CacheFollows, Cached
  <2>3. CASE i = id /\ d.action # "DELETE"
    <3>1. cache'[i] = d /\ Cached(i)'
      BY <1>2, <1>4, <2>3 DEF Cached, k
    <3>2. j \in Nat /\ ~ (j > k)
      <4>1. heard[id] \subseteq 1 .. Len(index[id])
        BY <1>1 DEF HeardInv, HeardOnce
      <4> QED BY <1>2, <1>4, <2>3, <4>1
    <3> QED BY <1>4, <3>1, <3>2 DEF k
  <2>4. CASE i = id /\ d.action = "DELETE"
    <3>1. k = n
      BY <1>1, <1>4, <2>4 DEF HeardInv, GoneIsLast, n
    <3>2. Deleted(i)
      BY <1>4, <2>4, <3>1 DEF Deleted, Last, n
    <3>3. ~ Cached(i)'
      BY <1>2, <2>4 DEF Cached
    <3> QED BY <2>1, <3>2, <3>3
  <2> QED BY <2>2, <2>3, <2>4
<1> QED BY <1>7, <1>8, <1>9, <1>10

(* The replay brings the last version of every document.                    *)
LEMMA SubscribedHeard ==
    ASSUME HeardInv, Subscribed
    PROVE  GoneIsLast' /\ HeardOnce' /\ LatestComes' /\ CacheFollows'
<1>1. Inv /\ inflight = {} /\ \A id \in Id : heard[id] = {}
  BY DEF HeardInv, Inv, HeardOnce, Subscribed
<1>2. /\ phase' = "on" /\ UNCHANGED <<index, cache, heard, overtaken>>
      /\ inflight' = {Last(i) : i \in {j \in Id : index[j] # << >>}}
  BY <1>1 DEF Subscribed, hearing
<1>3. \A d \in inflight' : formId(d.feature) \in Id
  BY <1>1, <1>2, LastIsVersion
<1>4. GoneIsLast' /\ HeardOnce' /\ LatestComes' /\ CacheFollows'
  BY <1>1, <1>2, <1>3 DEF HeardInv, GoneIsLast, HeardOnce, LatestComes, CacheFollows, Last
<1> QED BY <1>4

(* Before the first document nothing was heard.                             *)
LEMMA HeardInit == Init => HeardInv
<1> SUFFICES ASSUME Init PROVE HeardInv
  OBVIOUS
<1>1. /\ phase = "off" /\ inflight = {}
      /\ \A id \in Id : index[id] = << >> /\ heard[id] = {}
  BY DEF Init
<1> QED BY <1>1, InvInit DEF HeardInv, GoneIsLast, HeardOnce, LatestComes, CacheFollows

(* Every step preserves the whole invariant.                                *)
LEMMA HeardNext == HeardInv /\ [Next]_vars => HeardInv'
<1> SUFFICES ASSUME HeardInv, [Next]_vars PROVE HeardInv'
  OBVIOUS
<1>1. Inv /\ Inv'
  BY InvNext DEF HeardInv
<1> DEFINE Rest == GoneIsLast /\ HeardOnce /\ LatestComes /\ CacheFollows
<1>2. ASSUME NEW f \in Feature, Update(f) PROVE Rest'
  <2>1. PICK d \in Document : /\ d.version = Len(index[formId(f)]) + 1
                              /\ formId(d.feature) = formId(f)
                              /\ Write(formId(f), d)
    BY <1>1, <1>2, UpdateWrites
  <2>2. ~ Deleted(formId(f)) /\ formId(f) \in Id
    BY <1>1, <1>2, UpdateSpares, IdOfFeature
  <2> QED BY <1>1, <2>1, <2>2, WriteHeard, GoneWrite DEF HeardInv
<1>3. ASSUME NEW f \in Feature, FindFeature(f) PROVE Rest'
  BY <1>3, FindFeatureHeard
<1>4. CASE Initialize \/ CreateSubscription \/ SetupFails
  <2>1. /\ phase # "on" /\ phase' # "on"
        /\ UNCHANGED <<index, cache, inflight, heard, overtaken>>
    BY <1>4 DEF Initialize, CreateSubscription, SetupFails, hearing
  <2> QED BY <1>1, <2>1 DEF HeardInv, GoneIsLast, HeardOnce, LatestComes, CacheFollows,
                            Last, Cached, Deleted
<1>5. CASE Subscribed
  BY <1>1, <1>5, SubscribedHeard DEF HeardInv
<1>6. ASSUME NEW d \in inflight, HandleFeatureUpdate(d) PROVE Rest'
  BY <1>6, HandleHeard
<1>7. CASE Crash
  <2>1. /\ phase' = "off" /\ inflight' = {} /\ UNCHANGED index
        /\ \A id \in Id : heard'[id] = {}
    BY <1>7 DEF Crash
  <2> QED BY <1>1, <2>1 DEF HeardInv, GoneIsLast, HeardOnce, LatestComes, CacheFollows
<1>8. CASE UNCHANGED vars
  <2>1. UNCHANGED <<index, cache, phase, inflight, heard, overtaken>>
    BY <1>8 DEF vars, hearing
  <2> QED BY <1>1, <2>1 DEF HeardInv, GoneIsLast, HeardOnce, LatestComes, CacheFollows,
                            Last, Cached, Deleted
<1> QED BY <1>1, <1>2, <1>3, <1>4, <1>5, <1>6, <1>7, <1>8 DEF Next, HeardInv

(* A subscribed host that handled all notifications has heard of the last   *)
(* version of each document, those written before it subscribed included,   *)
(* and its cache agrees with it unless a later version was handled before   *)
(* an earlier one; in whatever order notifications and look-ups come.       *)
THEOREM CacheUpToDateCorrect == Spec => []CacheUpToDate
<1>1. HeardInv => CacheUpToDate
  <2> SUFFICES ASSUME HeardInv, phase = "on", inflight = {}, NEW id \in Id, index[id] # << >>
               PROVE  /\ Len(index[id]) \in heard[id]
                      /\ \/ id \in overtaken
                         \/ Alive(id) /\ cache[id] = Last(id)
                         \/ Deleted(id) /\ (cache[id] = Absent \/ cache[id].version = 0)
    BY DEF CacheUpToDate
  <2>1. Len(index[id]) \in heard[id]
    BY DEF HeardInv, LatestComes
  <2>2. CASE Cached(id) /\ id \notin overtaken
    <3>1. /\ Len(index[id]) <= cache[id].version
          /\ cache[id].version \in 1 .. Len(index[id])
          /\ index[id][cache[id].version] = cache[id]
          /\ cache[id].action # "DELETE"
      BY <2>1, <2>2 DEF HeardInv, CacheFollows, Inv, CacheInv, IsVersion, Cached
    <3>2. Len(index[id]) \in Nat
      BY LastIsVersion DEF HeardInv
    <3>3. cache[id] = Last(id)
      BY <3>1, <3>2 DEF Last
    <3> QED BY <2>1, <3>1, <3>3 DEF Alive, Deleted
  <2>3. CASE ~ Cached(id) /\ id \notin overtaken
    BY <2>1, <2>3 DEF HeardInv, CacheFollows, Cached
  <2> QED BY <2>1, <2>2, <2>3
<1> QED BY <1>1, HeardInit, HeardNext, PTL DEF Spec

-----------------------------------------------------------------------------
(* What the cache tells is a history                                        *)

History == [id \in Id |-> [k \in DOMAIN index[id] |-> FlagOf(index[id][k])]]

Tells == [id \in Id |-> Told(id)]

FStep == Flags!FNext \/ UNCHANGED <<History, Tells, heard>>

(* What is told of a feature depends on its document, its entry and what    *)
(* was heard of it.                                                         *)
LEMMA ToldKept ==
    ASSUME NEW id \in Id, index'[id] = index[id], cache'[id] = cache[id],
           heard'[id] = heard[id]
    PROVE  Told(id)' = Told(id)
<1>1. Deleted(id)' = Deleted(id)
  BY DEF Deleted, Last
<1> QED BY <1>1 DEF Told

(* A history is a sequence of flags; a new version adds its own.            *)
LEMMA HistoryGrows ==
    ASSUME Inv, NEW id \in Id, NEW d \in Document, Write(id, d)
    PROVE  /\ FlagOf(d) \in Flags!Flag
           /\ History' = [History EXCEPT ![id] = Append(@, FlagOf(d))]
<1> DEFINE n == Len(index[id])  flag == FlagOf(d)  h == History[id]
<1>1. \A e : FlagOf(e) \in Flags!Flag
  BY DEF FlagOf, Flags!Flag
<1>2. index \in [Id -> Seq(Document)] /\ index' \in [Id -> Seq(Document)]
  BY WriteEffect DEF Inv, TypeOK
<1>3. n \in Nat /\ DOMAIN index[id] = 1 .. n /\ DOMAIN index'[id] = 1 .. (n + 1)
  <2>1. index[id] \in Seq(Document) /\ index'[id] \in Seq(Document)
    BY <1>2
  <2>2. Len(index'[id]) = n + 1
    BY WriteEffect
  <2> QED BY <2>1, <2>2
<1> HIDE DEF n
<1>4. h = [k \in 1 .. n |-> FlagOf(index[id][k])]
  BY <1>3 DEF History
<1>5. h \in Seq(Flags!Flag) /\ Len(h) = n
  BY <1>1, <1>3, <1>4
<1>6. Append(h, flag) = [k \in 1 .. (n + 1) |-> IF k = n + 1 THEN flag ELSE h[k]]
  BY <1>1, <1>3, <1>5
<1>7. History'[id] = [k \in 1 .. (n + 1) |-> FlagOf(index'[id][k])]
  BY <1>3 DEF History
<1>8. History'[id] = Append(h, flag)
  <2>1. ASSUME NEW k \in 1 .. (n + 1)
        PROVE  FlagOf(index'[id][k]) = IF k = n + 1 THEN flag ELSE h[k]
    <3>1. CASE k = n + 1
      BY <3>1, WriteEffect DEF n
    <3>2. CASE k # n + 1
      <4>1. k \in 1 .. n
        BY <1>3, <3>2
      <4>2. index'[id][k] = index[id][k]
        BY <4>1, WriteEffect DEF n
      <4> QED BY <1>4, <3>2, <4>1, <4>2
    <3> QED BY <3>1, <3>2
  <2> QED BY <1>6, <1>7, <2>1
<1>9. \A i \in Id : i # id => History'[i] = History[i]
  BY WriteEffect DEF History
<1>10. /\ DOMAIN History = Id /\ DOMAIN History' = Id
       /\ History' = [i \in Id |-> History'[i]]
  BY DEF History
<1> QED BY <1>1, <1>8, <1>9, <1>10

(* An update of a document is a change of its feature; the host hears of it *)
(* later.                                                                   *)
LEMMA WriteChanges ==
    ASSUME HeardInv, NEW id \in Id, NEW d \in Document, Write(id, d), ~ Deleted(id)
    PROVE  Flags!Change(id)
<1>1. Inv /\ UNCHANGED <<cache, heard>>
  BY DEF HeardInv, Write, hearing
<1>2. ASSUME NEW i \in Id PROVE Told(i)' = Told(i)
  <2>1. CASE i = id
    <3>1. Len(index'[id]) = Len(index[id]) + 1 /\ Len(index[id]) \in Nat
      BY <1>1, WriteEffect
    <3>2. Len(index'[id]) \notin heard'[id]
      BY <1>1, <3>1 DEF HeardInv, HeardOnce
    <3> QED BY <1>1, <2>1, <3>2 DEF Told
  <2>2. CASE i # id
    BY <1>1, <2>2, ToldKept, WriteEffect
  <2> QED BY <2>1, <2>2
<1>3. UNCHANGED Tells
  BY <1>2 DEF Tells
<1>4. ASSUME NEW k \in DOMAIN History[id] PROVE History[id][k] # "gone"
  <2>1. index[id] \in Seq(Document)
    BY <1>1 DEF Inv, TypeOK
  <2>2. k \in 1 .. Len(index[id]) /\ Len(index[id]) \in Nat
    BY <2>1 DEF History
  <2>3. index[id][k].action = "DELETE" => k = Len(index[id])
    BY <2>2 DEF HeardInv, GoneIsLast
  <2>4. index[id] # << >>
    BY <2>2
  <2>5. index[id][k].action # "DELETE"
    BY <2>3, <2>4 DEF Deleted, Last
  <2>6. History[id][k] = FlagOf(index[id][k])
    BY DEF History
  <2> QED BY <2>5, <2>6 DEF FlagOf
<1> QED BY <1>1, <1>3, <1>4, HistoryGrows DEF Flags!Change, History, Tells

(* Handling a notification is hearing of the version it carries.            *)
LEMMA HandleHears ==
    ASSUME HeardInv, NEW d \in inflight, HandleFeatureUpdate(d)
    PROVE  FStep
<1> DEFINE id == formId(d.feature)  k == d.version  n == Len(index[id])
<1>1. Inv /\ id \in Id /\ d \in Document
  BY HandleEffect DEF HeardInv
<1>2. /\ \A i \in Id : i # id => cache'[i] = cache[i] /\ heard'[i] = heard[i]
      /\ cache'[id] = IF d.action = "DELETE" THEN Absent ELSE d
      /\ heard'[id] = heard[id] \cup {k}
      /\ heard' \in [Id -> SUBSET Nat] /\ heard \in [Id -> SUBSET Nat]
      /\ UNCHANGED index
  BY <1>1, HandleEffect DEF Inv, TypeOK
<1>3. IsVersion(id, d) /\ k \notin heard[id]
  BY <1>1 DEF Inv, FlightInv, HeardInv, HeardOnce
<1>4. index[id] \in Seq(Document) /\ k \in 1 .. n /\ n \in Nat /\ index[id][k] = d
  BY <1>1, <1>3 DEF IsVersion, Inv, TypeOK
<1>5. ASSUME NEW i \in Id, i # id PROVE Told(i)' = Told(i)
  BY <1>2, <1>5, ToldKept
<1>6. UNCHANGED History
  BY <1>2 DEF History
<1> HIDE DEF id, k, n
<1>7. Told(id)' = [place |-> k, flag |-> FlagOf(d)]
  <2>1. CASE d.action # "DELETE"
    <3>1. cache'[id] = d /\ d # Absent /\ d.version # 0
      BY <1>1, <1>2, <1>4, <2>1, FeatureAssumption DEF k
    <3> QED BY <3>1 DEF Told, k
  <2>2. CASE d.action = "DELETE"
    <3>1. k = n
      BY <1>1, <1>4, <2>2 DEF HeardInv, GoneIsLast, n
    <3>2. Deleted(id)' /\ Len(index'[id]) = k
      BY <1>2, <1>4, <2>2, <3>1 DEF Deleted, Last, n
    <3>3. cache'[id] = Absent /\ k \in heard'[id]
      BY <1>2, <2>2
    <3> QED BY <2>2, <3>2, <3>3 DEF Told, FlagOf
  <2> QED BY <2>1, <2>2
<1>8. Tells' = [Tells EXCEPT ![id] = [place |-> k, flag |-> History[id][k]]]
  <2>1. History[id][k] = FlagOf(d)
    BY <1>1, <1>4 DEF History, n
  <2> QED BY <1>1, <1>5, <1>7, <2>1 DEF Tells
<1>9. k \in DOMAIN History[id] \ heard[id]
  BY <1>1, <1>3, <1>4 DEF History, n
<1>10. heard' = [heard EXCEPT ![id] = @ \cup {k}]
  BY <1>1, <1>2
<1>11. Flags!Hear(id)
  BY <1>6, <1>8, <1>9, <1>10 DEF Flags!Hear, History, Tells
<1> QED BY <1>1, <1>11 DEF FStep, Flags!FNext

(* Look-ups and the setup of the cache tell nothing new.                    *)
LEMMA QuietStutters ==
    ASSUME Inv,
           \/ \E f \in Feature : FindFeature(f)
           \/ Initialize \/ CreateSubscription \/ Subscribed \/ SetupFails
    PROVE  UNCHANGED <<History, Tells, heard>>
<1>1. UNCHANGED <<index, heard>>
  BY DEF FindFeature, Initialize, CreateSubscription, Subscribed, SetupFails, hearing
<1>2. ASSUME NEW id \in Id PROVE Told(id)' = Told(id)
  <2>1. ASSUME NEW f \in Feature, FindFeature(f) PROVE Told(id)' = Told(id)
    <3>1. CASE cache'[id] = cache[id]
      BY <1>1, <3>1, ToldKept
    <3>2. CASE cache[id] = Absent /\ cache'[id].version = 0
      <4>1. Deleted(id)' = Deleted(id)
        BY <1>1 DEF Deleted, Last
      <4> QED BY <1>1, <3>2, <4>1 DEF Told
    <3> QED BY <2>1, <3>1, <3>2, FindFeatureEffect
  <2>2. CASE Initialize \/ CreateSubscription \/ Subscribed \/ SetupFails
    <3>1. UNCHANGED cache
      BY <2>2 DEF Initialize, CreateSubscription, Subscribed, SetupFails
    <3> QED BY <1>1, <3>1, ToldKept
  <2> QED BY <2>1, <2>2
<1> QED BY <1>1, <1>2 DEF History, Tells

(* After a crash the host knows nothing.                                    *)
LEMMA CrashForgets == ASSUME Crash PROVE Flags!Forget
<1>1. /\ UNCHANGED index /\ heard' = [id \in Id |-> {}]
      /\ \A id \in Id : cache'[id] = Absent
  BY DEF Crash
<1>2. \A id \in Id : Told(id)' = [place |-> 0, flag |-> "unknown"]
  BY <1>1 DEF Told
<1> QED BY <1>1, <1>2 DEF Flags!Forget, Flags!Nothing

(* Every step of the cache is one of the history of flags, or none.         *)
LEMMA StepTells == ASSUME HeardInv, [Next]_vars PROVE FStep
<1>1. Inv
  BY DEF HeardInv
<1>2. ASSUME NEW f \in Feature, Update(f) PROVE FStep
  <2>1. PICK d \in Document : Write(formId(f), d)
    BY <1>1, <1>2, UpdateWrites
  <2>2. ~ Deleted(formId(f)) /\ formId(f) \in Id
    BY <1>1, <1>2, UpdateSpares, IdOfFeature
  <2> QED BY <2>1, <2>2, WriteChanges DEF FStep, Flags!FNext
<1>3. CASE \/ \E f \in Feature : FindFeature(f)
           \/ Initialize \/ CreateSubscription \/ Subscribed \/ SetupFails
  BY <1>1, <1>3, QuietStutters DEF FStep
<1>4. ASSUME NEW d \in inflight, HandleFeatureUpdate(d) PROVE FStep
  BY <1>4, HandleHears
<1>5. CASE Crash
  BY <1>5, CrashForgets DEF FStep, Flags!FNext
<1>6. CASE UNCHANGED vars
  <2>1. UNCHANGED <<index, cache, heard>>
    BY <1>6 DEF vars, hearing
  <2>2. \A id \in Id : Told(id)' = Told(id)
    BY <2>1, ToldKept
  <2> QED BY <2>1, <2>2 DEF FStep, History, Tells
<1> QED BY <1>2, <1>3, <1>4, <1>5, <1>6 DEF Next

(* In whatever order notifications come: what a host tells of a feature is  *)
(* what it was at some time, each change is told for one notification, and  *)
(* nothing but a notification or a crash alters what is told.               *)
THEOREM Refinement == Spec => FlagsSpec
<1>1. Init => Flags!FInit /\ HeardInv
  <2> SUFFICES ASSUME Init PROVE Flags!FInit /\ HeardInv
    OBVIOUS
  <2>1. /\ heard = [id \in Id |-> {}]
        /\ \A id \in Id : index[id] = << >> /\ cache[id] = Absent
    BY DEF Init
  <2>2. \A id \in Id : Told(id) = [place |-> 0, flag |-> "unknown"]
    BY <2>1 DEF Told, Deleted
  <2>3. \A id \in Id : [k \in DOMAIN index[id] |-> FlagOf(index[id][k])] = << >>
    BY <2>1
  <2>4. Flags!FInit
    BY <2>1, <2>2, <2>3 DEF Flags!FInit, Flags!Nothing
  <2> QED BY <2>4, HeardInit
<1>2. HeardInv /\ [Next]_vars =>
         /\ HeardInv'
         /\ [Flags!FNext]_<<[id \in Id |-> [k \in DOMAIN index[id] |-> FlagOf(index[id][k])]],
                            [id \in Id |-> Told(id)], heard>>
  BY HeardNext, StepTells DEF FStep, History, Tells
<1> QED BY <1>1, <1>2, PTL DEF Spec, FlagsSpec, Flags!FSpec
=============================================================================
