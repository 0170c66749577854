------------------------------ MODULE MCRouting ------------------------------
(* Methods that are told apart by a literal, by their length, or, for the   *)
(* arguments "list" and "find/a", not at all; templates with and without a  *)
(* leading slash, one without segments and one that repeats a parameter.    *)
(* The arguments are "list", "find/a", "$0", "$1", "a\b", the name of a     *)
(* parameter in braces, and null.                                           *)
EXTENDS Routing

Methods == {"all", "list", "byId", "byGroup", "find", "pair"}
SampleLink == <<<< >>, <<"common">>, <<"feature">>>>
Group == <<"{group}">>
Name == <<"{name}">>
SampleParams == {Group, Name}
UriPaths ==
    [m \in Methods |->
        CASE m = "all"     -> << >>
          [] m = "list"    -> <<<< >>, <<"list">>>>
          [] m = "byId"    -> <<Name>>
          [] m = "byGroup" -> <<<< >>, Group, Name>>
          [] m = "find"    -> <<<< >>, <<"find">>, Name, Group>>
          [] m = "pair"    -> <<Name, Name>>]
Orders ==
    [m \in Methods |->
        CASE m \in {"all", "list"}   -> << >>
          [] m \in {"byId", "pair"}  -> <<Name>>
          [] m = "byGroup"           -> <<Group, Name>>
          [] m = "find"              -> <<Name, Group>>]
Values == {<<<<"list">>>>, <<<<"find">>, <<"a">>>>, <<<<"$", "0">>>>, <<<<"$", "1">>>>,
           <<<<"a", "\\", "b">>>>, <<Group>>}
=============================================================================
