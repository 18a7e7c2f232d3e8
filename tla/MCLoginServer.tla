--------------------------- MODULE MCLoginServer ---------------------------
(* Instances of LoginServer.  Gates are interchangeable, and so are the     *)
(* sessions of each pool and the accounts.                                  *)
EXTENDS LoginServer, TLC

Symmetry == Permutations(Sessions) \cup Permutations(GateSessions)
              \cup Permutations(Gates) \cup Permutations(Accounts)
=============================================================================
