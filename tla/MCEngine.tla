------------------------------ MODULE MCEngine ------------------------------
(* Constants for model checking Engine. *)

EXTENDS Engine

CONSTANTS r1, r2, w1, w2, w3

\* Three aligned ios, one of them a read across the end of the device, and two
\* that are not aligned, one of them beyond what an int can hold.
MCIos == {r1, r2, w1, w2, w3}
MCDirOf == [i \in MCIos |-> IF i \in {r1, r2} THEN "read" ELSE "write"]
MCIsAligned == [i \in MCIos |-> i \in {r1, w1, w3}]
MCWhere == [i \in MCIos |-> CASE i = r1 -> 13 [] i = w2 -> 8 [] OTHER -> 2]
=============================================================================
