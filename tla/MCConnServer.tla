---------------------------- MODULE MCConnServer -----------------------------
(***************************************************************************)
(* ConnServer for TLC.                                                     *)
(***************************************************************************)
EXTENDS ConnServer, TLC

Symmetry == Permutations(Worker) \cup Permutations(Conn) \cup Permutations(Fd)
==============================================================================
