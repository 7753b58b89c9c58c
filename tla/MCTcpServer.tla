----------------------------- MODULE MCTcpServer -----------------------------
(* Small instances of TcpServer for TLC. *)
EXTENDS TcpServer, TLC

(* Sessions are created, admitted and stopped alike, and no property names *)
(* one of them.                                                            *)
SessionSymmetry == Permutations(Sessions)
=============================================================================
