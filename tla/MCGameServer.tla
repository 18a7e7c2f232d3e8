---------------------------- MODULE MCGameServer ----------------------------
(* A small game server: two logins of one account, one gate connection.    *)
EXTENDS GameServer, TLC

CONSTANTS a1, t1, t2, g1, c1

MCAccountOf == [t \in Tickets |-> a1]
MCGateOf == [c \in Conns |-> g1]

\* The logins are alike: nothing but the set of them is ever used.
Symmetry == Permutations(Tickets)
=============================================================================
