---------------------------- MODULE MCGateUsers ----------------------------
(***************************************************************************)
(* Instances of GateUsers: both tickets belong to one account, so that the  *)
(* second login kicks the first.                                            *)
(***************************************************************************)
EXTENDS GateUsers, TLC

CONSTANT a1

OneAccount == [t \in Trans |-> a1]

(* Sound: AccountOf gives every ticket the same account.                    *)
Symmetry == Permutations(Sessions) \cup Permutations(Games) \cup Permutations(Trans)
=============================================================================
