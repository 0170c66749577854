------------------------------- MODULE Routing -------------------------------
(***************************************************************************)
(* The path of a call: a client puts the arguments of a method into its    *)
(* template, the service chooses a method by the path and takes the        *)
(* arguments out again by counting segments.                               *)
(*                                                                         *)
(* A path is a sequence of segments, the first one empty when it starts    *)
(* with a slash; a segment is a sequence of pieces of text.  In arguments  *)
(* "$", the backslash and a "0" after "$" are pieces of their own (and no  *)
(* second "0" follows), a name in braces is a segment of its own, and no   *)
(* segment is empty or of backslashes only.  Methods of one HTTP action    *)
(* compete.                                                                *)
(***************************************************************************)
EXTENDS Integers, SequencesExt

CONSTANTS
    Method,    \* methods of a contract
    SelfLink,  \* the link of the service, which both sides know
    UriPath,   \* the @Path of each method, split; no segments if it has none
    Param,     \* segments that are a parameter in braces
    Order,     \* the parameters of each method's path, as its signature has them
    Value,     \* arguments, split
    None       \* no method

Segment == Seq(STRING)

Segments(m) == {UriPath[m][i] : i \in DOMAIN UriPath[m]}

Params(m) == Segments(m) \cap Param

ASSUME RoutingAssumption ==
    /\ IsFiniteSet(Method) /\ None \notin Method
    /\ Param \subseteq Segment /\ << >> \notin Param
    /\ UriPath \in [Method -> Seq(Segment)]
    /\ SelfLink \in Seq(Segment) /\ Len(SelfLink) > 1 /\ SelfLink[1] = << >>
    /\ \A k \in DOMAIN SelfLink : SelfLink[k] \notin Param
    /\ Order \in [Method -> Seq(Param)]
    /\ \A m \in Method :
          /\ {Order[m][k] : k \in DOMAIN Order[m]} = Params(m)
          /\ \A k, l \in DOMAIN Order[m] : Order[m][k] = Order[m][l] => k = l
    /\ \A v \in Value : v \in Seq(Segment) /\ v # << >>

VARIABLES
    routes,  \* methods in the order they were registered
    phase,
    called,  \* the method that was called
    given,   \* its arguments
    uri,     \* the path of the operation
    routed,  \* the method the operation was routed to
    inputs   \* what that method gets

vars == <<routes, phase, called, given, uri, routed, inputs>>

(* an argument, or what is found for a parameter, may be null *)
Null == << >>

WithoutSlash(template) ==
    IF template # << >> /\ Head(template) = << >> THEN Tail(template) ELSE template

(* buildUriPath: one slash between the link and the template, whether the   *)
(* template starts with one or not                                          *)
Path(m) == SelfLink \o WithoutSlash(UriPath[m])

(* reflection gives the methods in any order *)
Init ==
    /\ routes \in {r \in [1 .. Cardinality(Method) -> Method] :
                      \A m \in Method : \E i \in DOMAIN r : r[i] = m}
    /\ phase = "idle"
    /\ called = None /\ given = << >>
    /\ uri = << >>
    /\ routed = None /\ inputs = << >>

-----------------------------------------------------------------------------
(* Client: replaceAll puts the arguments into the template, one parameter   *)
(* after the other.  It reads an argument as a replacement string.          *)

(* the piece follows a backslash that is not itself escaped *)
Escaped(segment, i) ==
    \E j \in 1 .. i - 1 :
        /\ (i - j) % 2 = 1
        /\ \A h \in j .. i - 1 : segment[h] = "\\"
        /\ j > 1 => segment[j - 1] # "\\"

Active(segment, i, piece) ==
    i \in DOMAIN segment /\ segment[i] = piece /\ ~ Escaped(segment, i)

(* "$" must be followed by the number of a group, of which there is only    *)
(* number 0, the match; "\" by the character that it escapes                *)
Throws(value) ==
    \E k \in DOMAIN value : \E i \in DOMAIN value[k] :
        \/ /\ Active(value[k], i, "$")
           /\ ~ (i + 1 \in DOMAIN value[k] /\ value[k][i + 1] = "0")
        \/ /\ Active(value[k], i, "\\")
           /\ k = Len(value) /\ i = Len(value[k])

Appended(segment, param) ==
    FlattenSeq([i \in DOMAIN segment |->
        IF Active(segment, i, "\\") \/ Active(segment, i - 1, "$") THEN << >>
        ELSE IF Active(segment, i, "$") THEN param
        ELSE <<segment[i]>>])

Replaced(text, param, value) ==
    FlattenSeq([k \in DOMAIN text |->
        IF text[k] = param THEN [j \in DOMAIN value |-> Appended(value[j], param)]
        ELSE <<text[k]>>])

(* the path after all arguments but null were put into it *)
Filled(m, arguments) ==
    LET n == Len(Order[m])
        text[k \in 0 .. n] ==
            IF k = 0 THEN Path(m)
            ELSE IF arguments[Order[m][k]] = Null THEN text[k - 1]
            ELSE Replaced(text[k - 1], Order[m][k], arguments[Order[m][k]])
    IN  text[n]

BuildOperation(m) ==
    /\ phase = "idle"
    /\ called' = m
    /\ given' \in [Params(m) -> Value \cup {Null}]
    /\ IF \E param \in Params(m) : Throws(given'[param])
       THEN phase' = "thrown" /\ UNCHANGED uri
       ELSE phase' = "sent" /\ uri' = Filled(m, given')
    /\ UNCHANGED <<routes, routed, inputs>>

-----------------------------------------------------------------------------
(* Service                                                                  *)

(* Faulty variant of Matches: a longer path matches too. *)
MatchesBeginning(m, path) ==
    /\ Len(path) >= Len(Path(m))
    /\ \A i \in DOMAIN Path(m) : Path(m)[i] \in Param \cup {path[i]}

(* the path itself, or, with parameters, any segment in the place of one    *)
Matches(m, path) ==
    /\ Len(path) = Len(Path(m))
    /\ \A i \in DOMAIN Path(m) : Path(m)[i] \in Param \cup {path[i]}

(* the first route registered whose matcher accepts the path *)
Route ==
    LET accepting == {i \in DOMAIN routes : Matches(routes[i], uri)} IN
    /\ phase = "sent"
    /\ IF accepting = {} THEN phase' = "not found" /\ UNCHANGED routed
       ELSE /\ phase' = "routed"
            /\ routed' = routes[Min(accepting)]
    /\ UNCHANGED <<routes, called, given, uri, inputs>>

(* Faulty variant of resourcePathOffset: it forgets the empty segment that  *)
(* a template with a leading slash begins with.                             *)
OffsetOfSegments(m) == Len(SelfLink)

(* segments of the link: index 0 of the template is that of the path        *)
(* at this offset                                                           *)
resourcePathOffset(m) == Len(Path(m)) - Len(UriPath[m])

(* the map getPathParamsVsUriIndex, which counts from 0; the last place of  *)
(* a parameter counts                                                       *)
UriIndex(m, param) ==
    Max({i \in DOMAIN UriPath[m] : UriPath[m][i] = param}) - 1

(* the segments of the path by index; null if there is none *)
PathValue(index) ==
    IF index + 1 \in DOMAIN uri THEN <<uri[index + 1]>> ELSE Null

FindMethodInputs ==
    /\ phase = "routed"
    /\ phase' = "bound"
    /\ inputs' = [param \in Params(routed) |->
                    PathValue(UriIndex(routed, param) + resourcePathOffset(routed))]
    /\ UNCHANGED <<routes, called, given, uri, routed>>

Next ==
    \/ \E m \in Method : BuildOperation(m)
    \/ Route
    \/ FindMethodInputs

Spec == Init /\ [][Next]_vars

-----------------------------------------------------------------------------
(* What makes an argument arrive: it is not null, has no slash, "$" or "\", *)
(* and is not the name of a parameter that is replaced after it.            *)
Plain ==
    \A k \in DOMAIN Order[called] :
        LET value == given[Order[called][k]] IN
        /\ Len(value) = 1
        /\ \A i \in DOMAIN value[1] : value[1][i] \notin {"$", "\\"}
        /\ \A l \in DOMAIN Order[called] : l > k => value[1] # Order[called][l]

(* A call with such arguments reaches a method, and the one that was called *)
(* if no other template accepts its path; that method gets the arguments it *)
(* was called with, in whatever order reflection gave the methods.          *)
RoundTrip ==
    called # None /\ Plain =>
        /\ phase \notin {"thrown", "not found"}
        /\ phase = "bound" =>
              /\ (\A m \in Method \ {called} : ~ Matches(m, uri)) => routed = called
              /\ routed = called => inputs = given

(* no parameter occurs twice in the template: the map of indexes keeps the  *)
(* last place only                                                          *)
NamesOnce(m) ==
    \A i, j \in DOMAIN UriPath[m] :
        UriPath[m][i] = UriPath[m][j] /\ UriPath[m][i] \in Param => i = j

(* Whatever the arguments and whichever method a path is routed to: what    *)
(* the method gets, in the places of its template, spells the path, if the  *)
(* template names each parameter once.  An argument may make the path       *)
(* another method's, but no part of the path is lost.                       *)
InputsSpellPath ==
    phase = "bound" /\ NamesOnce(routed) =>
        /\ Len(uri) = Len(Path(routed))
        /\ \A j \in DOMAIN uri :
              LET segment == Path(routed)[j] IN
              IF segment \in Param THEN inputs[segment] = <<uri[j]>>
              ELSE uri[j] = segment
=============================================================================
