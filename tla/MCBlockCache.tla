---------------------------- MODULE MCBlockCache ----------------------------
(* Constants for model checking BlockCache. *)

EXTENDS BlockCache, TLC

CONSTANTS k1, k2, k3

MCTwoKeys == {k1, k2}
MCThreeKeys == {k1, k2, k3}

\* k1 and k2 are blocks of one device, k3 of another.
MCDevOfTwo == [k \in MCTwoKeys |-> 1]
MCDevOfThree == [k \in MCThreeKeys |-> IF k = k3 THEN 2 ELSE 1]

Mode(type, mask) == [type |-> type, mask |-> mask]
MCReadDirty == {ReadMode, Mode("dirty", Sectors)}

\* Blocks of one device are alike.
MCOneDev == [k \in MCThreeKeys |-> 1]
MCAlike == Permutations(MCThreeKeys)

\* Masks that leave a sector out.
MCSectorModes == {ReadMode, Mode("dirty", {0}), Mode("zero", Sectors)}
MCDirtyModes == {ReadMode, Mode("dirty", {0}), Mode("dirty", {2})}
=============================================================================
