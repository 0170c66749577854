---------------------------- MODULE RoutingProofs ----------------------------
(***************************************************************************)
(* A call comes back out of the path it was put into, for any contract,    *)
(* any link and any arguments.                                             *)
(***************************************************************************)
EXTENDS Routing, SequenceTheorems, FiniteSetTheorems, WellFoundedInduction, TLAPS

-----------------------------------------------------------------------------
(* Natural numbers: the least member of a set.  What has to be shown of all *)
(* naturals is shown of the least one for which it would be false.          *)

LEMMA LeastNatural ==
    ASSUME NEW S \in SUBSET Nat, S # {}
    PROVE  \E n \in S : \A m \in S : n <= m
<1>1. PICK n \in S : \A m \in S : ~ (<<m, n>> \in OpToRel(<, Nat))
  BY NatLessThanWellFounded, WFMin
<1>2. ASSUME NEW m \in S PROVE n <= m
  <2>1. ~ (m < n)
    BY <1>1 DEF OpToRel
  <2> QED BY <2>1
<1> QED BY <1>2

LEMMA GreatestOfInterval ==
    ASSUME NEW n \in Nat, NEW S \in SUBSET (1 .. n), S # {}
    PROVE  \E k \in S : \A m \in S : k >= m
<1> DEFINE T == {n - k : k \in S}
<1>1. T \in SUBSET Nat /\ T # {}
  <2>1. ASSUME NEW k \in S PROVE n - k \in Nat
    OBVIOUS
  <2> QED BY <2>1
<1>2. PICK t \in T : \A u \in T : t <= u
  BY <1>1, LeastNatural
<1>3. PICK k \in S : t = n - k
  OBVIOUS
<1>4. ASSUME NEW m \in S PROVE k >= m
  <2>1. t <= n - m
    BY <1>2
  <2> QED BY <1>3, <2>1
<1> QED BY <1>4

(* Min and Max of a non-empty set of places are what they are called.       *)
LEMMA MinOfPlaces ==
    ASSUME NEW n \in Nat, NEW S \in SUBSET (1 .. n), S # {}
    PROVE  Min(S) \in S /\ \A m \in S : Min(S) <= m
<1>1. \E k \in S : \A m \in S : k =< m
  BY LeastNatural
<1> QED BY <1>1 DEF Min

LEMMA MaxOfPlaces ==
    ASSUME NEW n \in Nat, NEW S \in SUBSET (1 .. n), S # {}
    PROVE  Max(S) \in S /\ \A m \in S : Max(S) >= m
BY GreatestOfInterval DEF Max

-----------------------------------------------------------------------------
(* FlattenSeq                                                               *)

(* what the recursion of FlattenSeq computes up to n *)
Flattens(f, seqs, n) ==
    f = [i \in 1 .. n |-> IF i = 1 THEN seqs[i] ELSE f[i - 1] \o seqs[i]]

(* The recursion is well-founded: such a function exists.                   *)
LEMMA FlattenExists ==
    ASSUME NEW seqs, NEW n \in Nat
    PROVE  \E f : Flattens(f, seqs, n)
<1> DEFINE Bad == {k \in Nat : ~ \E f : Flattens(f, seqs, k)}
<1>1. ASSUME Bad # {} PROVE FALSE
  <2>1. PICK k \in Bad : \A m \in Bad : k <= m
    <3> HIDE DEF Bad
    <3>1. Bad \in SUBSET Nat
      BY DEF Bad
    <3> QED BY <1>1, <3>1, LeastNatural
  <2>2. k # 0
    <3>1. Flattens([i \in 1 .. 0 |-> << >>], seqs, 0)
      BY DEF Flattens
    <3> QED BY <3>1
  <2>3. k - 1 \in Nat /\ k - 1 \notin Bad
    BY <2>1, <2>2
  <2>4. PICK g : Flattens(g, seqs, k - 1)
    BY <2>3
  <2> DEFINE f == [i \in 1 .. k |-> IF i < k THEN g[i]
                                    ELSE IF k = 1 THEN seqs[1] ELSE g[k - 1] \o seqs[k]]
  <2>5. ASSUME NEW i \in 1 .. k
        PROVE  f[i] = IF i = 1 THEN seqs[i] ELSE f[i - 1] \o seqs[i]
    <3>1. CASE i = k
      BY <3>1, <2>3
    <3>2. CASE i # k
      <4>1. i \in 1 .. k - 1 /\ f[i] = g[i] /\ (i # 1 => f[i - 1] = g[i - 1])
        BY <3>2
      <4>2. g[i] = IF i = 1 THEN seqs[i] ELSE g[i - 1] \o seqs[i]
        BY <4>1, <2>4 DEF Flattens
      <4> QED BY <4>1, <4>2
    <3> QED BY <3>1, <3>2
  <2>6. Flattens(f, seqs, k)
    <3>1. f = [i \in 1 .. k |-> f[i]]
      OBVIOUS
    <3> HIDE DEF f
    <3>2. f = [i \in 1 .. k |-> IF i = 1 THEN seqs[i] ELSE f[i - 1] \o seqs[i]]
      BY <2>5, <3>1
    <3> QED BY <3>2 DEF Flattens
  <2> QED BY <2>6
<1> QED BY <1>1

(* FlattenSeq of a non-empty sequence is the last value of such a function. *)
LEMMA FlattenIsLast ==
    ASSUME NEW seqs, Len(seqs) \in Nat, Len(seqs) # 0
    PROVE  \E f : Flattens(f, seqs, Len(seqs)) /\ FlattenSeq(seqs) = f[Len(seqs)]
<1> DEFINE f == CHOOSE g : Flattens(g, seqs, Len(seqs))
<1>1. Flattens(f, seqs, Len(seqs))
  BY FlattenExists
<1>2. FlattenSeq(seqs) = f[Len(seqs)]
  BY DEF FlattenSeq, Flattens
<1> QED BY <1>1, <1>2

(* Flattening makes a sequence of sequences a sequence.                     *)
LEMMA FlattenType ==
    ASSUME NEW S, NEW seqs \in Seq(Seq(S))
    PROVE  FlattenSeq(seqs) \in Seq(S)
<1>1. CASE Len(seqs) = 0
  BY <1>1 DEF FlattenSeq
<1>2. CASE Len(seqs) # 0
  <2>1. PICK f : Flattens(f, seqs, Len(seqs)) /\ FlattenSeq(seqs) = f[Len(seqs)]
    BY <1>2, FlattenIsLast
  <2> DEFINE Bad == {i \in 1 .. Len(seqs) : f[i] \notin Seq(S)}
  <2>2. ASSUME Bad # {} PROVE FALSE
    <3>1. PICK i \in Bad : \A j \in Bad : i <= j
      <4>1. Bad \in SUBSET Nat
        OBVIOUS
      <4> HIDE DEF Bad
      <4> QED BY <2>2, <4>1, LeastNatural
    <3>2. f[i] = IF i = 1 THEN seqs[i] ELSE f[i - 1] \o seqs[i]
      BY <2>1 DEF Flattens
    <3>3. seqs[i] \in Seq(S)
      OBVIOUS
    <3>4. i # 1 => f[i - 1] \in Seq(S)
      BY <3>1
    <3>5. CASE i = 1
      BY <3>1, <3>2, <3>3, <3>5
    <3>6. CASE i # 1
      <4>1. f[i - 1] \o seqs[i] \in Seq(S)
        BY <3>3, <3>4, <3>6, ConcatProperties
      <4> QED BY <3>1, <3>2, <3>6, <4>1
    <3> QED BY <3>5, <3>6
  <2> QED BY <1>2, <2>1, <2>2
<1> QED BY <1>1, <1>2

(* Flattening sequences of one element each gives those elements in order.  *)
LEMMA FlattenSingletons ==
    ASSUME NEW S, NEW s \in Seq(S)
    PROVE  FlattenSeq([i \in DOMAIN s |-> <<s[i]>>]) = s
<1> DEFINE seqs == [i \in DOMAIN s |-> <<s[i]>>]
<1>1. seqs \in Seq(Seq(S)) /\ Len(seqs) = Len(s) /\ DOMAIN s = 1 .. Len(s)
  <2>1. Len(s) \in Nat /\ DOMAIN s = 1 .. Len(s) /\ \A i \in 1 .. Len(s) : s[i] \in S
    BY LenProperties
  <2>2. \A i \in 1 .. Len(s) : <<s[i]>> \in Seq(S)
    BY <2>1
  <2> QED BY <2>1, <2>2
<1>2. CASE Len(s) = 0
  <2>1. s = << >> /\ seqs = << >>
    BY <1>1, <1>2
  <2> QED BY <2>1 DEF FlattenSeq
<1>3. CASE Len(s) # 0
  <2>1. PICK f : Flattens(f, seqs, Len(s)) /\ FlattenSeq(seqs) = f[Len(s)]
    <3> HIDE DEF seqs
    <3> QED BY <1>1, <1>3, FlattenIsLast
  <2> DEFINE Bad == {n \in 1 .. Len(s) : f[n] # [i \in 1 .. n |-> s[i]]}
  <2>2. ASSUME Bad # {} PROVE FALSE
    <3>1. PICK n \in Bad : \A m \in Bad : n <= m
      <4>1. Bad \in SUBSET Nat
        OBVIOUS
      <4> HIDE DEF Bad
      <4> QED BY <2>2, <4>1, LeastNatural
    <3>2. f[n] = IF n = 1 THEN <<s[n]>> ELSE f[n - 1] \o <<s[n]>>
      BY <1>1, <2>1 DEF Flattens
    <3>3. CASE n = 1
      BY <3>1, <3>2, <3>3
    <3>4. CASE n # 1
      <4>1. f[n - 1] = [i \in 1 .. n - 1 |-> s[i]]
        BY <3>1, <3>4
      <4> DEFINE beginning == [i \in 1 .. n - 1 |-> s[i]]
      <4>2. beginning \in Seq(S) /\ Len(beginning) = n - 1
        BY <1>1, <3>4
      <4>3. beginning \o <<s[n]>> = [i \in 1 .. n |-> s[i]]
        BY <1>1, <3>4, <4>2
      <4> QED BY <3>1, <3>2, <3>4, <4>1, <4>3
    <3> QED BY <3>3, <3>4
  <2>3. f[Len(s)] = [i \in 1 .. Len(s) |-> s[i]]
    BY <1>3, <2>2
  <2> QED BY <1>1, <2>1, <2>3
<1> QED BY <1>2, <1>3

-----------------------------------------------------------------------------
(* Templates and paths                                                      *)

(* Without its slash a template is what it was, moved by one or not at all. *)
LEMMA WithoutSlashFacts ==
    ASSUME NEW template \in Seq(Segment)
    PROVE  \E n \in {0, 1} :
             /\ WithoutSlash(template) \in Seq(Segment)
             /\ Len(WithoutSlash(template)) = Len(template) - n
             /\ \A i \in 1 .. Len(template) - n :
                   WithoutSlash(template)[i] = template[i + n]
             /\ n = 1 => template[1] = << >> /\ Len(template) > 0
<1>1. CASE template # << >> /\ Head(template) = << >>
  <2>1. WithoutSlash(template) = Tail(template)
    BY <1>1 DEF WithoutSlash
  <2>2. /\ Tail(template) \in Seq(Segment) /\ Len(Tail(template)) = Len(template) - 1
        /\ \A i \in 1 .. Len(Tail(template)) : Tail(template)[i] = template[i + 1]
    BY <1>1, HeadTailProperties
  <2>3. template[1] = << >> /\ Len(template) > 0
    <3>1. Len(template) \in Nat \ {0}
      BY <1>1, EmptySeq
    <3>2. Head(template) = template[1]
      BY <3>1
    <3>3. Head(template) = << >>
      BY <1>1
    <3>4. Len(template) > 0
      BY <3>1
    <3> QED BY <3>2, <3>3, <3>4
  <2>4. 1 \in {0, 1}
    OBVIOUS
  <2> QED BY <2>1, <2>2, <2>3, <2>4
<1>2. CASE ~ (template # << >> /\ Head(template) = << >>)
  <2>1. WithoutSlash(template) = template
    BY <1>2 DEF WithoutSlash
  <2>2. Len(template) \in Nat /\ Len(template) - 0 = Len(template)
    BY LenProperties
  <2>3. \A i \in 1 .. Len(template) - 0 : WithoutSlash(template)[i] = template[i + 0]
    BY <2>1, <2>2
  <2>4. 0 \in {0, 1} /\ 0 # 1
    OBVIOUS
  <2> QED BY <2>1, <2>2, <2>3, <2>4
<1> QED BY <1>1, <1>2

(* A path is a sequence of segments; its parameters stand where the         *)
(* template has them, moved by the offset, and nowhere else.                *)
LEMMA PathFacts ==
    ASSUME NEW m \in Method
    PROVE  /\ UriPath[m] \in Seq(Segment) /\ Path(m) \in Seq(Segment)
           /\ resourcePathOffset(m) \in Nat
           /\ \A i \in DOMAIN UriPath[m] : UriPath[m][i] \in Param =>
                  /\ i + resourcePathOffset(m) \in DOMAIN Path(m)
                  /\ Path(m)[i + resourcePathOffset(m)] = UriPath[m][i]
           /\ \A j \in DOMAIN Path(m) : Path(m)[j] \in Param =>
                  /\ j - resourcePathOffset(m) \in DOMAIN UriPath[m]
                  /\ UriPath[m][j - resourcePathOffset(m)] = Path(m)[j]
<1>1. PICK t \in Seq(Segment) : t = UriPath[m]
  BY RoutingAssumption
<1>2. PICK n \in {0, 1} :
        /\ WithoutSlash(t) \in Seq(Segment) /\ Len(WithoutSlash(t)) = Len(t) - n
        /\ \A i \in 1 .. Len(t) - n : WithoutSlash(t)[i] = t[i + n]
        /\ n = 1 => t[1] = << >> /\ Len(t) > 0
  BY WithoutSlashFacts
<1>3. PICK k \in Nat : k = Len(SelfLink) /\ k > 1
  <2>1. SelfLink \in Seq(Segment) /\ Len(SelfLink) > 1
    BY RoutingAssumption
  <2>2. Len(SelfLink) \in Nat
    BY <2>1, LenProperties
  <2> QED BY <2>1, <2>2
<1>4. PICK l \in Nat : l = Len(t) /\ DOMAIN t = 1 .. l
  BY LenProperties
<1>5. l - n \in Nat
  <2>1. n = 0 \/ (n = 1 /\ l > 0)
    BY <1>2, <1>4
  <2> QED BY <2>1
<1>6. /\ Path(m) \in Seq(Segment) /\ Len(Path(m)) = k + (l - n)
      /\ DOMAIN Path(m) = 1 .. k + (l - n)
      /\ \A j \in 1 .. k + (l - n) :
            Path(m)[j] = IF j <= k THEN SelfLink[j] ELSE WithoutSlash(t)[j - k]
  <2>1. Path(m) = SelfLink \o WithoutSlash(t)
    BY <1>1 DEF Path
  <2>2. SelfLink \in Seq(Segment)
    BY RoutingAssumption
  <2>3. WithoutSlash(t) \in Seq(Segment) /\ Len(WithoutSlash(t)) = l - n
    BY <1>2, <1>4
  <2>4. /\ Path(m) \in Seq(Segment)
        /\ Len(Path(m)) = Len(SelfLink) + Len(WithoutSlash(t))
        /\ \A j \in 1 .. Len(SelfLink) + Len(WithoutSlash(t)) :
              Path(m)[j] = IF j <= Len(SelfLink) THEN SelfLink[j]
                           ELSE WithoutSlash(t)[j - Len(SelfLink)]
    <3>1. PICK a, b \in Seq(Segment) : a = SelfLink /\ b = WithoutSlash(t)
      BY <2>2, <2>3
    <3>2. /\ a \o b \in Seq(Segment) /\ Len(a \o b) = Len(a) + Len(b)
          /\ \A j \in 1 .. Len(a) + Len(b) :
                (a \o b)[j] = IF j <= Len(a) THEN a[j] ELSE b[j - Len(a)]
      BY ConcatProperties
    <3> QED BY <2>1, <3>1, <3>2
  <2>5. /\ Len(Path(m)) = k + (l - n)
        /\ \A j \in 1 .. k + (l - n) :
              Path(m)[j] = IF j <= k THEN SelfLink[j] ELSE WithoutSlash(t)[j - k]
    BY <1>3, <2>3, <2>4
  <2> QED BY <2>4, <2>5, LenProperties
<1>7. resourcePathOffset(m) = k - n
  BY <1>1, <1>4, <1>6 DEF resourcePathOffset
<1>8. \A j \in 1 .. k : SelfLink[j] \notin Param
  BY <1>3, RoutingAssumption, LenProperties
<1>9. ASSUME NEW i \in 1 .. l, t[i] \in Param
      PROVE  i + (k - n) \in 1 .. k + (l - n) /\ Path(m)[i + (k - n)] = t[i]
  <2>1. i - n \in 1 .. l - n /\ (i - n) + n = i
    <3>1. << >> \notin Param /\ (n = 0 \/ (n = 1 /\ t[1] = << >>))
      BY <1>2, RoutingAssumption
    <3>2. n = 0 \/ (n = 1 /\ i # 1)
      BY <1>9, <3>1
    <3> QED BY <3>2
  <2>2. WithoutSlash(t)[i - n] = t[(i - n) + n]
    BY <1>2, <1>4, <2>1
  <2>3. i + (k - n) \in 1 .. k + (l - n) /\ i + (k - n) > k /\ i + (k - n) - k = i - n
    BY <2>1
  <2> QED BY <1>6, <2>1, <2>2, <2>3
<1>10. ASSUME NEW j \in 1 .. k + (l - n), Path(m)[j] \in Param
       PROVE  j - (k - n) \in 1 .. l /\ t[j - (k - n)] = Path(m)[j]
  <2>1. j > k
    BY <1>5, <1>6, <1>8, <1>10
  <2>2. j - k \in 1 .. l - n /\ (j - k) + n = j - (k - n) /\ j - (k - n) \in 1 .. l
    BY <2>1
  <2>3. WithoutSlash(t)[j - k] = t[j - (k - n)]
    BY <1>2, <1>4, <2>2
  <2> QED BY <1>6, <2>1, <2>2, <2>3
<1>11. k - n \in Nat
  BY <1>3
<1> QED BY <1>1, <1>4, <1>6, <1>7, <1>9, <1>10, <1>11

(* The index of a parameter is a place of it in the template.               *)
LEMMA UriIndexFacts ==
    ASSUME NEW m \in Method, NEW param \in Params(m)
    PROVE  /\ UriIndex(m, param) \in Int
           /\ UriIndex(m, param) + 1 \in DOMAIN UriPath[m]
           /\ UriPath[m][UriIndex(m, param) + 1] = param
<1> DEFINE places == {i \in DOMAIN UriPath[m] : UriPath[m][i] = param}
<1>1. Len(UriPath[m]) \in Nat /\ DOMAIN UriPath[m] = 1 .. Len(UriPath[m])
  BY PathFacts, LenProperties
<1>2. places \in SUBSET (1 .. Len(UriPath[m])) /\ places # {}
  BY <1>1 DEF Params, Segments
<1>3. Max(places) \in places
  <2> HIDE DEF places
  <2> QED BY <1>1, <1>2, MaxOfPlaces
<1>4. UriIndex(m, param) = Max(places) - 1
  BY DEF UriIndex
<1>5. PICK k \in places : UriIndex(m, param) = k - 1
  <2> HIDE DEF places
  <2> QED BY <1>3, <1>4
<1>6. k \in Int /\ (k - 1) + 1 = k
  BY <1>1
<1> QED BY <1>5, <1>6

(* The parameters of a method in the order of its signature are those of    *)
(* its template.                                                            *)
LEMMA OrderFacts ==
    ASSUME NEW m \in Method
    PROVE  /\ Len(Order[m]) \in Nat /\ DOMAIN Order[m] = 1 .. Len(Order[m])
           /\ \A k \in 1 .. Len(Order[m]) : /\ Order[m][k] \in Params(m)
                                           /\ Order[m][k] \in Segment
           /\ \A param \in Params(m) : \E k \in 1 .. Len(Order[m]) : Order[m][k] = param
<1>1. Order[m] \in Seq(Param)
  BY RoutingAssumption
<1>2. {Order[m][k] : k \in DOMAIN Order[m]} = Params(m) /\ Params(m) \subseteq Segment
  BY RoutingAssumption DEF Params
<1>3. Len(Order[m]) \in Nat /\ DOMAIN Order[m] = 1 .. Len(Order[m])
  BY <1>1, LenProperties
<1> QED BY <1>2, <1>3

-----------------------------------------------------------------------------
(* What replaceAll makes of a text                                          *)

(* A segment of a replacement becomes a segment.                            *)
LEMMA AppendedType ==
    ASSUME NEW segment \in Segment, NEW param \in Segment
    PROVE  Appended(segment, param) \in Segment
<1> DEFINE parts == [i \in DOMAIN segment |->
                       IF Active(segment, i, "\\") \/ Active(segment, i - 1, "$") THEN << >>
                       ELSE IF Active(segment, i, "$") THEN param
                       ELSE <<segment[i]>>]
<1>1. /\ Len(segment) \in Nat /\ DOMAIN segment = 1 .. Len(segment)
      /\ \A i \in 1 .. Len(segment) : segment[i] \in STRING
  BY LenProperties DEF Segment
<1>2. ASSUME NEW i \in 1 .. Len(segment) PROVE parts[i] \in Seq(STRING)
  <2>1. <<segment[i]>> \in Seq(STRING) /\ << >> \in Seq(STRING) /\ param \in Seq(STRING)
    BY <1>1 DEF Segment
  <2> QED BY <1>1, <2>1
<1>3. parts \in Seq(Seq(STRING))
  <2>1. parts = [i \in 1 .. Len(segment) |-> parts[i]]
    BY <1>1
  <2> HIDE DEF parts
  <2> QED BY <1>1, <1>2, <2>1
<1>4. Appended(segment, param) = FlattenSeq(parts)
  BY DEF Appended
<1> HIDE DEF parts
<1> QED BY <1>3, <1>4, FlattenType DEF Segment

(* A text with a parameter replaced is a text.                              *)
LEMMA ReplacedType ==
    ASSUME NEW text \in Seq(Segment), NEW param \in Segment, NEW value \in Seq(Segment)
    PROVE  Replaced(text, param, value) \in Seq(Segment)
<1> DEFINE inserted == [j \in DOMAIN value |-> Appended(value[j], param)]
           parts == [k \in DOMAIN text |-> IF text[k] = param THEN inserted ELSE <<text[k]>>]
<1>1. /\ Len(text) \in Nat /\ DOMAIN text = 1 .. Len(text)
      /\ \A k \in 1 .. Len(text) : text[k] \in Segment
      /\ Len(value) \in Nat /\ DOMAIN value = 1 .. Len(value)
      /\ \A j \in 1 .. Len(value) : value[j] \in Segment
  BY LenProperties
<1>2. inserted \in Seq(Segment)
  <2>1. \A j \in 1 .. Len(value) : Appended(value[j], param) \in Segment
    BY <1>1, AppendedType
  <2> QED BY <1>1, <2>1
<1>3. parts \in Seq(Seq(Segment))
  <2> HIDE DEF inserted
  <2>1. ASSUME NEW k \in 1 .. Len(text) PROVE parts[k] \in Seq(Segment)
    <3>1. <<text[k]>> \in Seq(Segment)
      BY <1>1
    <3> QED BY <1>1, <1>2, <3>1
  <2>2. parts = [k \in 1 .. Len(text) |-> parts[k]]
    BY <1>1
  <2> HIDE DEF parts
  <2> QED BY <1>1, <2>1, <2>2
<1>4. Replaced(text, param, value) = FlattenSeq(parts)
  BY DEF Replaced
<1> HIDE DEF parts
<1> QED BY <1>3, <1>4, FlattenType

(* Without "$" and backslash a segment of a replacement is taken as it is.  *)
LEMMA AppendedPlain ==
    ASSUME NEW segment \in Segment, NEW param,
           \A i \in DOMAIN segment : segment[i] \notin {"$", "\\"}
    PROVE  Appended(segment, param) = segment
<1> DEFINE parts == [i \in DOMAIN segment |->
                       IF Active(segment, i, "\\") \/ Active(segment, i - 1, "$") THEN << >>
                       ELSE IF Active(segment, i, "$") THEN param
                       ELSE <<segment[i]>>]
<1>1. ASSUME NEW i PROVE ~ Active(segment, i, "$") /\ ~ Active(segment, i, "\\")
  BY DEF Active
<1>2. parts = [i \in DOMAIN segment |-> <<segment[i]>>]
  BY <1>1
<1>3. Appended(segment, param) = FlattenSeq(parts)
  BY DEF Appended
<1> HIDE DEF parts
<1>4. segment \in Seq(STRING)
  BY DEF Segment
<1> QED BY <1>2, <1>3, <1>4, FlattenSingletons

(* A replacement of one such segment goes where the parameter was.          *)
LEMMA ReplacedPlain ==
    ASSUME NEW text \in Seq(Segment), NEW param, NEW value \in Seq(Segment),
           Len(value) = 1,
           \A i \in DOMAIN value[1] : value[1][i] \notin {"$", "\\"}
    PROVE  Replaced(text, param, value) =
              [k \in DOMAIN text |-> IF text[k] = param THEN value[1] ELSE text[k]]
<1> DEFINE inserted == [j \in DOMAIN value |-> Appended(value[j], param)]
           parts == [k \in DOMAIN text |-> IF text[k] = param THEN inserted ELSE <<text[k]>>]
           one == [k \in DOMAIN text |-> IF text[k] = param THEN value[1] ELSE text[k]]
<1>1. /\ Len(text) \in Nat /\ DOMAIN text = 1 .. Len(text)
      /\ \A k \in 1 .. Len(text) : text[k] \in Segment
      /\ DOMAIN value = 1 .. 1 /\ value[1] \in Segment
  BY LenProperties
<1>2. inserted = <<value[1]>>
  <2>1. Appended(value[1], param) = value[1]
    BY <1>1, AppendedPlain
  <2> QED BY <1>1, <2>1
<1>3. Replaced(text, param, value) = FlattenSeq(parts)
  BY DEF Replaced
<1>4. one \in Seq(Segment) /\ DOMAIN one = DOMAIN text
  BY <1>1
<1>5. parts = [k \in DOMAIN one |-> <<one[k]>>]
  <2> HIDE DEF inserted
  <2> QED BY <1>2
<1> HIDE DEF one, parts
<1>6. Replaced(text, param, value) = one
  BY <1>3, <1>4, <1>5, FlattenSingletons
<1> QED BY <1>6 DEF one

-----------------------------------------------------------------------------
(* The path with the arguments put into it                                  *)

(* what the recursion of Filled computes for the first n parameters *)
Fills(f, m, arguments, n) ==
    f = [k \in 0 .. n |->
            IF k = 0 THEN Path(m)
            ELSE IF arguments[Order[m][k]] = Null THEN f[k - 1]
            ELSE Replaced(f[k - 1], Order[m][k], arguments[Order[m][k]])]

(* The recursion is well-founded: such a function exists.                   *)
LEMMA FillExists ==
    ASSUME NEW m, NEW arguments, NEW n \in Nat
    PROVE  \E f : Fills(f, m, arguments, n)
<1> DEFINE Bad == {k \in Nat : ~ \E f : Fills(f, m, arguments, k)}
<1>1. ASSUME Bad # {} PROVE FALSE
  <2>1. PICK k \in Bad : \A j \in Bad : k <= j
    <3> HIDE DEF Bad
    <3>1. Bad \in SUBSET Nat
      BY DEF Bad
    <3> QED BY <1>1, <3>1, LeastNatural
  <2>2. k # 0
    <3> DEFINE f == [i \in 0 .. 0 |-> Path(m)]
    <3>1. Fills(f, m, arguments, 0)
      BY DEF Fills
    <3> QED BY <3>1
  <2>3. k - 1 \in Nat /\ k - 1 \notin Bad
    BY <2>1, <2>2
  <2>4. PICK g : Fills(g, m, arguments, k - 1)
    BY <2>3
  <2> DEFINE Next1(h, i) == IF arguments[Order[m][i]] = Null THEN h[i - 1]
                            ELSE Replaced(h[i - 1], Order[m][i], arguments[Order[m][i]])
             f == [i \in 0 .. k |-> IF i < k THEN g[i] ELSE Next1(g, k)]
  <2>5. ASSUME NEW i \in 0 .. k
        PROVE  f[i] = IF i = 0 THEN Path(m) ELSE Next1(f, i)
    <3>1. CASE i = k
      <4>1. k - 1 \in 0 .. k /\ k - 1 < k /\ k \in 0 .. k
        BY <2>3
      <4>2. f[k - 1] = g[k - 1]
        BY <4>1
      <4>3. f[k] = Next1(g, k)
        BY <4>1
      <4> HIDE DEF f
      <4> QED BY <2>2, <3>1, <4>2, <4>3
    <3>2. CASE i # k
      <4>1. i \in 0 .. k - 1 /\ i < k /\ (i # 0 => i - 1 \in 0 .. k /\ i - 1 < k)
        BY <3>2
      <4>2. f[i] = g[i] /\ (i # 0 => f[i - 1] = g[i - 1])
        BY <4>1
      <4>3. g[i] = IF i = 0 THEN Path(m) ELSE Next1(g, i)
        BY <4>1, <2>4 DEF Fills
      <4> HIDE DEF f
      <4> QED BY <4>2, <4>3
    <3> QED BY <3>1, <3>2
  <2>6. Fills(f, m, arguments, k)
    <3>1. f = [i \in 0 .. k |-> f[i]]
      OBVIOUS
    <3> HIDE DEF f
    <3>2. f = [i \in 0 .. k |-> IF i = 0 THEN Path(m) ELSE Next1(f, i)]
      BY <2>5, <3>1
    <3> QED BY <3>2 DEF Fills
  <2> QED BY <2>6
<1> QED BY <1>1

(* The filled path is the last value of such a function.                    *)
LEMMA FilledIsLast ==
    ASSUME NEW m \in Method, NEW arguments
    PROVE  \E f : /\ Fills(f, m, arguments, Len(Order[m]))
                  /\ Filled(m, arguments) = f[Len(Order[m])]
<1> DEFINE f == CHOOSE g : Fills(g, m, arguments, Len(Order[m]))
<1>1. Fills(f, m, arguments, Len(Order[m]))
  BY OrderFacts, FillExists
<1>2. Filled(m, arguments) = f[Len(Order[m])]
  BY DEF Filled, Fills
<1> QED BY <1>1, <1>2

(* Whatever the arguments, the filled path is a sequence of segments.       *)
LEMMA FilledType ==
    ASSUME NEW m \in Method, NEW arguments \in [Params(m) -> Seq(Segment)]
    PROVE  Filled(m, arguments) \in Seq(Segment)
<1> DEFINE n == Len(Order[m])
<1>1. PICK f : Fills(f, m, arguments, n) /\ Filled(m, arguments) = f[n]
  BY FilledIsLast
<1> DEFINE Bad == {k \in 0 .. n : f[k] \notin Seq(Segment)}
<1>2. n \in Nat
  BY OrderFacts
<1>3. ASSUME Bad # {} PROVE FALSE
  <2>1. PICK k \in Bad : \A j \in Bad : k <= j
    <3>1. Bad \in SUBSET Nat
      OBVIOUS
    <3> HIDE DEF Bad
    <3> QED BY <1>3, <3>1, LeastNatural
  <2>2. f[k] = IF k = 0 THEN Path(m)
               ELSE IF arguments[Order[m][k]] = Null THEN f[k - 1]
               ELSE Replaced(f[k - 1], Order[m][k], arguments[Order[m][k]])
    BY <1>1, <2>1 DEF Fills
  <2>3. CASE k = 0
    BY <2>1, <2>2, <2>3, PathFacts
  <2>4. CASE k # 0
    <3>1. k \in 1 .. n /\ k - 1 \in 0 .. n /\ k - 1 < k
      BY <1>2, <2>1, <2>4
    <3>2. f[k - 1] \in Seq(Segment)
      BY <2>1, <3>1
    <3>3. Order[m][k] \in Params(m) /\ Order[m][k] \in Segment
      BY <3>1, OrderFacts
    <3>4. arguments[Order[m][k]] \in Seq(Segment)
      BY <3>3
    <3>5. Replaced(f[k - 1], Order[m][k], arguments[Order[m][k]]) \in Seq(Segment)
      BY <3>2, <3>3, <3>4, ReplacedType
    <3> QED BY <2>1, <2>2, <2>4, <3>2, <3>5
  <2> QED BY <2>3, <2>4
<1>4. n \in 0 .. n
  BY <1>2
<1> QED BY <1>1, <1>3, <1>4

-----------------------------------------------------------------------------
(* The inductive invariant: what a call has become so far is a function of  *)
(* what was called with which arguments and of the method it was routed to. *)

Bound(m) ==
    [param \in Params(m) |->
        PathValue(UriIndex(m, param) + resourcePathOffset(m))]

Inv ==
    /\ routes \in [1 .. Cardinality(Method) -> Method]
    /\ \A m \in Method : \E i \in DOMAIN routes : routes[i] = m
    /\ phase # "idle" =>
          /\ called \in Method
          /\ given \in [Params(called) -> Value \cup {Null}]
          /\ phase # "thrown" => uri = Filled(called, given)
    /\ phase = "thrown" => \E param \in Params(called) : Throws(given[param])
    /\ phase = "not found" => \A m \in Method : ~ Matches(m, uri)
    /\ phase \in {"routed", "bound"} => routed \in Method /\ Matches(routed, uri)
    /\ phase = "bound" => inputs = Bound(routed)

(* Building an operation, routing it and taking the inputs out of it        *)
(* preserve the invariant.                                                  *)
THEOREM InvCorrect == Spec => []Inv
<1>1. Init => Inv
  BY DEF Init, Inv
<1>2. Inv /\ [Next]_vars => Inv'
  <2> SUFFICES ASSUME Inv, [Next]_vars PROVE Inv'
    OBVIOUS
  <2>1. ASSUME NEW m \in Method, BuildOperation(m) PROVE Inv'
    BY <2>1 DEF Inv, BuildOperation
  <2>2. CASE Route
    <3> DEFINE accepting == {i \in DOMAIN routes : Matches(routes[i], uri)}
    <3>1. CASE accepting = {}
      <4>1. phase' = "not found" /\ UNCHANGED <<routes, called, given, uri, routed, inputs>>
        BY <2>2, <3>1 DEF Route
      <4>2. \A m \in Method : ~ Matches(m, uri)
        BY <3>1 DEF Inv
      <4> QED BY <2>2, <4>1, <4>2 DEF Inv, Route, Matches, Bound, PathValue
    <3>2. CASE accepting # {}
      <4>1. /\ phase = "sent" /\ phase' = "routed" /\ routed' = routes[Min(accepting)]
            /\ UNCHANGED <<routes, called, given, uri, inputs>>
        BY <2>2, <3>2 DEF Route
      <4>2. Cardinality(Method) \in Nat /\ DOMAIN routes = 1 .. Cardinality(Method)
        BY RoutingAssumption, FS_CardinalityType DEF Inv
      <4>3. Min(accepting) \in accepting
        <5>1. accepting \in SUBSET (1 .. Cardinality(Method))
          BY <4>2
        <5> HIDE DEF accepting
        <5> QED BY <3>2, <4>2, <5>1, MinOfPlaces
      <4>4. routed' \in Method /\ Matches(routed', uri)
        <5>1. PICK i \in DOMAIN routes : Matches(routes[i], uri) /\ routed' = routes[i]
          <6> HIDE DEF accepting
          <6>1. PICK i \in accepting : routed' = routes[i]
            BY <4>1, <4>3
          <6> QED BY <6>1 DEF accepting
        <5> QED BY <5>1 DEF Inv
      <4>5. Matches(routed, uri)'
        BY <4>1, <4>4 DEF Matches
      <4> QED BY <4>1, <4>4, <4>5 DEF Inv
    <3> QED BY <3>1, <3>2
  <2>3. CASE FindMethodInputs
    BY <2>3 DEF FindMethodInputs, Inv, Bound, PathValue, Matches
  <2>4. CASE UNCHANGED vars
    BY <2>4 DEF vars, Inv, Bound, PathValue, Matches
  <2> QED BY <2>1, <2>2, <2>3, <2>4 DEF Next
<1> QED BY <1>1, <1>2, PTL DEF Spec

-----------------------------------------------------------------------------
(* The theorems                                                             *)

(* The arguments of a call are texts, null the one without segments.        *)
LEMMA GivenType ==
    ASSUME Inv, phase # "idle"
    PROVE  given \in [Params(called) -> Seq(Segment)]
<1>1. given \in [Params(called) -> Value \cup {Null}]
  BY DEF Inv
<1>2. Value \cup {Null} \subseteq Seq(Segment)
  <2>1. \A v \in Value : v \in Seq(Segment)
    BY RoutingAssumption
  <2>2. Null \in Seq(Segment)
    BY EmptySeq DEF Null
  <2> QED BY <2>1, <2>2
<1> QED BY <1>1, <1>2

(* What Plain says of the argument of a parameter: it is no text that       *)
(* replaceAll changes or refuses.                                           *)
LEMMA PlainArguments ==
    ASSUME Inv, phase # "idle", Plain, NEW param \in Params(called)
    PROVE  /\ given[param] \in Seq(Segment) /\ Len(given[param]) = 1
           /\ given[param] # Null
           /\ \A i \in DOMAIN given[param][1] : given[param][1][i] \notin {"$", "\\"}
           /\ ~ Throws(given[param])
<1>1. PICK k \in DOMAIN Order[called] : Order[called][k] = param
  BY OrderFacts DEF Inv
<1>2. /\ given[param] \in Seq(Segment) /\ Len(given[param]) = 1
      /\ \A i \in DOMAIN given[param][1] : given[param][1][i] \notin {"$", "\\"}
  BY <1>1, GivenType DEF Plain
<1>3. DOMAIN given[param] = {1}
  BY <1>2
<1>4. ~ Throws(given[param])
  BY <1>2, <1>3 DEF Throws, Active
<1>5. given[param] # Null
  <2>1. Len(Null) = 0
    BY EmptySeq DEF Null
  <2> QED BY <1>2, <2>1
<1> QED BY <1>2, <1>4, <1>5

(* Such arguments are put in one after the other, each in the place of its  *)
(* parameter; none is taken for a parameter that comes later.               *)
LEMMA PlainFilled ==
    ASSUME Inv, phase # "idle", Plain
    PROVE  Filled(called, given) =
              [j \in DOMAIN Path(called) |->
                  IF Path(called)[j] \in Param THEN given[Path(called)[j]][1]
                  ELSE Path(called)[j]]
<1> DEFINE n == Len(Order[called])
           After(k) == [j \in DOMAIN Path(called) |->
                          IF \E l \in 1 .. k : Order[called][l] = Path(called)[j]
                          THEN given[Path(called)[j]][1] ELSE Path(called)[j]]
<1>1. called \in Method /\ given \in [Params(called) -> Seq(Segment)]
  BY GivenType DEF Inv
<1>2. PICK f : Fills(f, called, given, n) /\ Filled(called, given) = f[n]
  BY <1>1, FilledIsLast
<1>3. /\ n \in Nat /\ DOMAIN Order[called] = 1 .. n
      /\ \A k \in 1 .. n : Order[called][k] \in Params(called)
      /\ \A param \in Params(called) : \E k \in 1 .. n : Order[called][k] = param
  BY <1>1, OrderFacts
<1>4. /\ Path(called) \in Seq(Segment) /\ Len(Path(called)) \in Nat
      /\ DOMAIN Path(called) = 1 .. Len(Path(called))
      /\ \A j \in DOMAIN Path(called) : Path(called)[j] \in Segment
  BY <1>1, PathFacts, LenProperties
<1>5. ASSUME NEW k \in 0 .. n PROVE After(k) \in Seq(Segment)
  <2>1. ASSUME NEW j \in 1 .. Len(Path(called)) PROVE After(k)[j] \in Segment
    <3>1. CASE \E l \in 1 .. k : Order[called][l] = Path(called)[j]
      <4>1. Path(called)[j] \in Params(called)
        <5>1. PICK l \in 1 .. k : Order[called][l] = Path(called)[j]
          BY <3>1
        <5>2. l \in 1 .. n
          BY <1>3
        <5> QED BY <1>3, <5>1, <5>2
      <4>2. /\ given[Path(called)[j]] \in Seq(Segment)
            /\ Len(given[Path(called)[j]]) = 1
        BY <4>1, PlainArguments
      <4>3. given[Path(called)[j]][1] \in Segment
        BY <4>2
      <4> QED BY <1>4, <3>1, <4>3
    <3>2. CASE ~ \E l \in 1 .. k : Order[called][l] = Path(called)[j]
      BY <1>4, <3>2
    <3> QED BY <3>1, <3>2
  <2>2. After(k) = [j \in 1 .. Len(Path(called)) |-> After(k)[j]]
    BY <1>4
  <2> HIDE DEF After
  <2> QED BY <1>4, <2>1, <2>2
<1> DEFINE Bad == {k \in 0 .. n : f[k] # After(k)}
<1>6. ASSUME Bad # {} PROVE FALSE
  <2>1. PICK k \in Bad : \A j \in Bad : k <= j
    <3>1. Bad \in SUBSET Nat
      OBVIOUS
    <3> HIDE DEF Bad
    <3> QED BY <1>6, <3>1, LeastNatural
  <2> DEFINE param == Order[called][k]
  <2>2. k \in 0 .. n /\ f[k] # After(k)
    BY <2>1
  <2>3. f[k] = IF k = 0 THEN Path(called)
               ELSE IF given[param] = Null THEN f[k - 1]
               ELSE Replaced(f[k - 1], param, given[param])
    BY <1>2, <2>2 DEF Fills
  <2>4. k # 0
    <3>1. After(0) = Path(called)
      BY <1>4
    <3> QED BY <2>2, <2>3, <3>1
  <2>5. /\ k \in 1 .. n /\ k - 1 \in 0 .. n /\ ~ (k <= k - 1)
        /\ 1 .. k = 1 .. k - 1 \cup {k}
    BY <1>3, <2>2, <2>4
  <2>6. f[k - 1] = After(k - 1)
    <3>1. k - 1 \notin Bad
      <4> HIDE DEF Bad
      <4> QED BY <2>1, <2>5
    <3> QED BY <2>5, <3>1
  <2>7. param \in Params(called)
    BY <1>3, <2>5
  <2>8. f[k] = Replaced(After(k - 1), param, given[param])
    BY <2>3, <2>4, <2>6, <2>7, PlainArguments
  <2>9. After(k - 1) \in Seq(Segment)
    BY <1>5, <2>5
  <2>10. /\ given[param] \in Seq(Segment) /\ Len(given[param]) = 1
         /\ \A i \in DOMAIN given[param][1] : given[param][1][i] \notin {"$", "\\"}
    BY <2>7, PlainArguments
  <2>11. Replaced(After(k - 1), param, given[param]) =
            [j \in DOMAIN After(k - 1) |->
                IF After(k - 1)[j] = param THEN given[param][1] ELSE After(k - 1)[j]]
    <3> HIDE DEF After, param
    <3> QED BY <2>9, <2>10, ReplacedPlain
  <2>12. ASSUME NEW j \in DOMAIN Path(called)
         PROVE  (IF After(k - 1)[j] = param THEN given[param][1] ELSE After(k - 1)[j])
                   = After(k)[j]
    <3>1. CASE \E l \in 1 .. k - 1 : Order[called][l] = Path(called)[j]
      <4>1. PICK l \in 1 .. k - 1 : Order[called][l] = Path(called)[j]
        BY <3>1
      <4>2. l \in DOMAIN Order[called] /\ k \in DOMAIN Order[called] /\ k > l
        BY <1>3, <2>5
      <4>3. given[Path(called)[j]][1] # param
        BY <4>1, <4>2 DEF Plain
      <4>4. \E h \in 1 .. k : Order[called][h] = Path(called)[j]
        BY <2>5, <4>1
      <4> QED BY <3>1, <4>3, <4>4
    <3>2. CASE ~ \E l \in 1 .. k - 1 : Order[called][l] = Path(called)[j]
      <4>1. (\E l \in 1 .. k : Order[called][l] = Path(called)[j])
               <=> param = Path(called)[j]
        BY <2>5, <3>2
      <4> QED BY <3>2, <4>1
    <3> QED BY <3>1, <3>2
  <2>13. DOMAIN After(k - 1) = DOMAIN Path(called)
    OBVIOUS
  <2>14. f[k] = [j \in DOMAIN Path(called) |-> After(k)[j]]
    <3> HIDE DEF After, param
    <3> QED BY <2>8, <2>11, <2>12, <2>13
  <2>15. After(k) = [j \in DOMAIN Path(called) |-> After(k)[j]]
    OBVIOUS
  <2> HIDE DEF After
  <2> QED BY <2>2, <2>14, <2>15
<1>7. Filled(called, given) = After(n)
  <2>1. n \in 0 .. n
    BY <1>3
  <2> QED BY <1>2, <1>6, <2>1
<1>8. ASSUME NEW j \in DOMAIN Path(called)
      PROVE  Path(called)[j] \in Param
                <=> \E l \in 1 .. n : Order[called][l] = Path(called)[j]
  <2>1. ASSUME Path(called)[j] \in Param PROVE Path(called)[j] \in Params(called)
    BY <1>1, <2>1, PathFacts DEF Params, Segments
  <2>2. Params(called) \subseteq Param
    BY DEF Params
  <2> QED BY <1>3, <2>1, <2>2
<1> HIDE DEF n
<1> QED BY <1>7, <1>8

(* The path of a call with such arguments is accepted by its own template.  *)
LEMMA PlainPath ==
    ASSUME Inv, phase # "idle", Plain
    PROVE  /\ called \in Method /\ phase # "thrown"
           /\ uri = [j \in DOMAIN Path(called) |->
                       IF Path(called)[j] \in Param THEN given[Path(called)[j]][1]
                       ELSE Path(called)[j]]
           /\ Matches(called, uri)
<1>1. called \in Method /\ given \in [Params(called) -> Seq(Segment)]
  BY GivenType DEF Inv
<1>2. phase # "thrown"
  BY PlainArguments DEF Inv
<1>3. uri = Filled(called, given)
  BY <1>2 DEF Inv
<1>4. /\ uri \in Seq(Segment)
      /\ uri = [j \in DOMAIN Path(called) |->
                  IF Path(called)[j] \in Param THEN given[Path(called)[j]][1]
                  ELSE Path(called)[j]]
  BY <1>1, <1>3, FilledType, PlainFilled
<1>5. Path(called) \in Seq(Segment)
  BY <1>1, PathFacts
<1>6. Len(uri) = Len(Path(called))
  BY <1>4, <1>5, LenProperties
<1>7. \A j \in DOMAIN Path(called) : Path(called)[j] \in Param \cup {uri[j]}
  BY <1>4
<1> QED BY <1>1, <1>2, <1>4, <1>6, <1>7 DEF Matches

(* The value that is taken out of a path for a parameter is the segment in  *)
(* a place where the template has it.                                       *)
LEMMA BoundFacts ==
    ASSUME NEW m \in Method, Matches(m, uri), uri \in Seq(Segment),
           NEW param \in Params(m)
    PROVE  \E j \in DOMAIN Path(m) : /\ j = UriIndex(m, param) + 1 + resourcePathOffset(m)
                                    /\ Path(m)[j] = param
                                    /\ Bound(m)[param] = <<uri[j]>>
<1> DEFINE i == UriIndex(m, param) + 1
           j == i + resourcePathOffset(m)
<1>1. i \in DOMAIN UriPath[m] /\ UriPath[m][i] = param /\ param \in Param
  BY UriIndexFacts DEF Params
<1>2. j \in DOMAIN Path(m) /\ Path(m)[j] = param
  <2> HIDE DEF i
  <2> QED BY <1>1, PathFacts
<1>3. DOMAIN uri = DOMAIN Path(m)
  BY PathFacts, LenProperties DEF Matches
<1>4. i \in Int /\ UriIndex(m, param) + resourcePathOffset(m) + 1 = j
  <2>1. UriIndex(m, param) \in Int /\ resourcePathOffset(m) \in Nat
    BY UriIndexFacts, PathFacts
  <2> QED BY <2>1
<1>5. Bound(m)[param] = <<uri[j]>>
  <2> HIDE DEF j
  <2> QED BY <1>2, <1>3, <1>4 DEF Bound, PathValue
<1> QED BY <1>2, <1>5

(* A call whose arguments are plain reaches a method, its own unless        *)
(* another template accepts the path too, and its arguments come back.      *)
THEOREM RoundTripCorrect == Spec => []RoundTrip
<1>1. Inv => RoundTrip
  <2> SUFFICES ASSUME Inv, Plain, phase # "idle"
               PROVE  /\ phase \notin {"thrown", "not found"}
                      /\ phase = "bound" =>
                            /\ (\A m \in Method \ {called} : ~ Matches(m, uri))
                                   => routed = called
                            /\ routed = called => inputs = given
    BY DEF RoundTrip, Inv
  <2>1. /\ called \in Method /\ Matches(called, uri) /\ phase # "thrown"
        /\ uri = [j \in DOMAIN Path(called) |->
                    IF Path(called)[j] \in Param THEN given[Path(called)[j]][1]
                    ELSE Path(called)[j]]
    BY PlainPath
  <2>2. uri \in Seq(Segment) /\ given \in [Params(called) -> Seq(Segment)]
    BY <2>1, GivenType, FilledType DEF Inv
  <2>3. phase # "not found"
    BY <2>1 DEF Inv
  <2>4. ASSUME phase = "bound" PROVE routed \in Method /\ Matches(routed, uri)
    BY <2>4 DEF Inv
  <2>5. ASSUME phase = "bound", routed = called PROVE inputs = given
    <3>1. inputs = Bound(called)
      BY <2>5 DEF Inv
    <3>2. ASSUME NEW param \in Params(called) PROVE Bound(called)[param] = given[param]
      <4>1. PICK j \in DOMAIN Path(called) :
               Path(called)[j] = param /\ Bound(called)[param] = <<uri[j]>>
        BY <2>1, <2>2, BoundFacts
      <4>2. uri[j] = given[param][1]
        BY <2>1, <3>2, <4>1 DEF Params
      <4>3. given[param] \in Seq(Segment) /\ Len(given[param]) = 1
        BY PlainArguments
      <4>4. given[param] = <<given[param][1]>>
        BY <4>3
      <4> QED BY <4>1, <4>2, <4>4
    <3>3. Bound(called) = [param \in Params(called) |-> Bound(called)[param]]
      BY DEF Bound
    <3> QED BY <2>2, <3>1, <3>2, <3>3
  <2> QED BY <2>1, <2>3, <2>4, <2>5
<1> QED BY <1>1, InvCorrect, PTL

(* Whatever method a path is routed to, what it is given spells the path.   *)
THEOREM InputsSpellPathCorrect == Spec => []InputsSpellPath
<1>1. Inv => InputsSpellPath
  <2> SUFFICES ASSUME Inv, phase = "bound", NamesOnce(routed)
               PROVE  /\ Len(uri) = Len(Path(routed))
                      /\ \A j \in DOMAIN uri :
                            IF Path(routed)[j] \in Param
                            THEN inputs[Path(routed)[j]] = <<uri[j]>>
                            ELSE uri[j] = Path(routed)[j]
    BY DEF InputsSpellPath
  <2>1. routed \in Method /\ Matches(routed, uri) /\ inputs = Bound(routed)
    BY DEF Inv
  <2>2. uri \in Seq(Segment)
    BY GivenType, FilledType DEF Inv
  <2>3. /\ Path(routed) \in Seq(Segment) /\ DOMAIN uri = DOMAIN Path(routed)
        /\ DOMAIN uri = 1 .. Len(uri)
    BY <2>1, <2>2, PathFacts, LenProperties DEF Matches
  <2>4. ASSUME NEW param \in Params(routed)
        PROVE  \E j \in DOMAIN Path(routed) :
                  Path(routed)[j] = param /\ Bound(routed)[param] = <<uri[j]>>
    BY <2>1, <2>2, BoundFacts
  <2>5. ASSUME NEW j \in DOMAIN Path(routed)
        PROVE  IF Path(routed)[j] \in Param THEN inputs[Path(routed)[j]] = <<uri[j]>>
               ELSE uri[j] = Path(routed)[j]
    <3>1. CASE Path(routed)[j] \notin Param
      BY <2>1, <3>1 DEF Matches
    <3>2. CASE Path(routed)[j] \in Param
      <4> DEFINE param == Path(routed)[j]
                 offset == resourcePathOffset(routed)
      <4>1. /\ j - offset \in DOMAIN UriPath[routed]
            /\ UriPath[routed][j - offset] = param
            /\ offset \in Nat
        BY <2>1, <3>2, PathFacts
      <4>2. param \in Params(routed)
        BY <3>2, <4>1 DEF Params, Segments
      <4>3. PICK k \in DOMAIN Path(routed) :
               Path(routed)[k] = param /\ inputs[param] = <<uri[k]>>
        BY <2>1, <2>4, <4>2
      <4>4. k - offset \in DOMAIN UriPath[routed] /\ UriPath[routed][k - offset] = param
        BY <2>1, <3>2, <4>3, PathFacts
      <4>5. j - offset = k - offset
        BY <3>2, <4>1, <4>4 DEF NamesOnce
      <4>6. j \in Int /\ k \in Int
        BY <2>3
      <4>7. j = k
        <5> HIDE DEF offset
        <5> QED BY <4>1, <4>5, <4>6
      <4> QED BY <3>2, <4>3, <4>7
    <3> QED BY <3>1, <3>2
  <2>6. Len(uri) = Len(Path(routed))
    BY <2>1 DEF Matches
  <2> QED BY <2>3, <2>5, <2>6
<1> QED BY <1>1, InvCorrect, PTL
=============================================================================
