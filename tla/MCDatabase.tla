----------------------------- MODULE MCDatabase -----------------------------
(***************************************************************************)
(* Instances of Database: one or two workers of _NORMAL_THREAD and one of   *)
(* another type, which starts with its first task.                          *)
(***************************************************************************)
EXTENDS Database, TLC

CONSTANTS n1, h1, h2, hero

TwoTypes == {Normal, hero}

OneEach   == (1 :> Normal) @@ (2 :> hero)
TwoAndOne == (1 :> Normal) @@ (2 :> Normal) @@ (3 :> hero)

TypeByName == [t \in Tasks |-> IF t \in {h1, h2} THEN hero ELSE Normal]
=============================================================================
