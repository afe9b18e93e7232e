--------------------------- MODULE MCLocalConfig ---------------------------
(* TLC instance of LocalConfig: one remote id, one layout, one position,   *)
(* the extents on both sides of the 300 limit, and three option keys: the  *)
(* language, one overwritten key and one with a local default.             *)
EXTENDS LocalConfig

MCKeys == {"lang", "disable-audio", "theme"}

MCKeyKind == [k \in MCKeys |-> "other"]

MCFavs == {<<>>, <<"r1">>}

MCOverwriteLocal == [k \in MCKeys |-> IF k = "disable-audio" THEN "Y" ELSE Absent]

MCDefaultLocal == [k \in MCKeys |-> IF k = "theme" THEN "Y" ELSE Absent]
====
