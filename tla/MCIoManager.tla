---------------------------- MODULE MCIoManager ----------------------------
(* Constants for model checking IoManager. *)

EXTENDS IoManager

CONSTANTS k1, k2, k3

MCKeys == {k1, k2, k3}

\* Two devices, of which one at a time may be open.
MCDevOf == [k \in MCKeys |-> IF k = k3 THEN 2 ELSE 1]

MCReadDirty == {ReadMode, [type |-> "dirty", mask |-> Sectors]}
Opening(ro, excl) == [ro |-> ro, excl |-> excl]
MCFlags == {Opening(FALSE, FALSE), Opening(FALSE, TRUE)}
=============================================================================
