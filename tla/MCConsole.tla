------------------------------- MODULE MCConsole -------------------------------
(* A small instance of Console for TLC. *)
EXTENDS Console

\* Names are only compared.
NameSymmetry == Permutations(Names)
================================================================================
