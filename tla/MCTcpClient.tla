----------------------------- MODULE MCTcpClient -----------------------------
(* Small instances of TcpClient for TLC. *)
EXTENDS TcpClient, TLC

(* Connections of a pool are handed out alike; requests of one instance    *)
(* are all timed or all untimed, so they are interchangeable too.          *)
ClientSymmetry == Permutations(Connections) \cup Permutations(Requests)
=============================================================================
