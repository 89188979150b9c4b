------------------------------ MODULE MCStream ------------------------------
(* A match with one client in it that is watched, for TLC. *)
EXTENDS StreamProperties, TLC

Interchangeable == Permutations(Connections)
=============================================================================
