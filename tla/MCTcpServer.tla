---------------------------- MODULE MCTcpServer -----------------------------
(* Instances of TcpServer for TLC.                                         *)
EXTENDS TcpServer, TLC

(* The clients are alike: no definition tells one from another.            *)
Symmetry == Permutations(Client)
=============================================================================
