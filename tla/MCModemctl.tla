----------------------------- MODULE MCModemctl -----------------------------
(***************************************************************************)
(* Modemctl for TLC: the writers of `control' are interchangeable.         *)
(***************************************************************************)
EXTENDS Modemctl, TLC

SomeWriter == Permutations(Writers)
=============================================================================
