----------------------------- MODULE MCDevTable -----------------------------
(* Constants for model checking DevTable. *)

EXTENDS DevTable, TLC

CONSTANTS p1, p2, p3, h1, h2, h3, f1, f2, f3

MCThreePaths == {p1, p2, p3}

\* Nothing distinguishes io_devs, frames or paths among themselves.
MCSymmetry ==
  Permutations({p1, p2, p3}) \cup Permutations({h1, h2, h3}) \cup Permutations({f1, f2, f3})
=============================================================================
