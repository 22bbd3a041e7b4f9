------------------------------- MODULE MCDesk -------------------------------
(***************************************************************************)
(* The instance of Desk that TLC explores: one fund whose entry in the     *)
(* file may be wrong, and two that are in order and interchangeable.       *)
(***************************************************************************)
EXTENDS Desk, TLC

CONSTANTS a, b, c

Interchangeable == Permutations({b, c})
=============================================================================
