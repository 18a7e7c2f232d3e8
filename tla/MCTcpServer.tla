---------------------------- MODULE MCTcpServer ----------------------------
(* Connections that all come from one address.                             *)
EXTENDS TcpServer, TLC

MCIpOf == [c \in Conns |-> "ip1"]
Symmetry == Permutations(Sessions) \cup Permutations(Conns)
=============================================================================
