---- MODULE MCMainWindow ----
(***************************************************************************)
(* A document with a plain group, whose resource is lost, a nested         *)
(* container that opens and one that does not; a second document with a    *)
(* group that is a resource itself; a third cannot be opened.              *)
(***************************************************************************)
EXTENDS MainWindow

MCDocuments == {"d1", "d2", "bad"}
MCNodes == {"g", "c", "a", "b.exe", "e", "s", "z.exe"}
MCResources == MCNodes \ {"g"}
MCBelow == [s \in {"d1", "d2", "bad", "g", "s", "c"} |->
  CASE s = "d1" -> <<"g", "c">> [] s = "g" -> <<"a">> [] s = "c" -> <<"b.exe", "e">>
    [] s = "d2" -> <<"s">> [] s = "s" -> <<"z.exe">> [] OTHER -> <<>>]
MCAdded == [s \in {"d1", "d2", "bad", "c"} |->
  CASE s = "d1" -> <<"g", "a", "c">> [] s = "c" -> <<"b.exe", "e">>
    [] s = "d2" -> <<"s", "z.exe">> [] OTHER -> <<>>]
MCAbove == [n \in MCNodes |->
  CASE n \in {"g", "c"} -> "d1" [] n = "a" -> "g" [] n \in {"b.exe", "e"} -> "c"
    [] n = "s" -> "d2" [] n = "z.exe" -> "s"]
MCExecutables == {"b.exe", "z.exe"}
MCAddresses == {<<"g">>, <<"g", "a">>, <<"c">>, <<"c", "b.exe">>, <<"c", "e">>, <<"s">>, <<"s", "z.exe">>,
                <<"c", "a">>, <<"a">>}
====
