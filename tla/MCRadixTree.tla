---------------------------- MODULE MCRadixTree ----------------------------
(* Constants for model checking RadixTree. *)

EXTENDS RadixTree

\* Five bytes for one node to have all sizes, and three levels of keys that
\* share prefixes, of which some are prefixes of others.
MCKeys == {<<1>>, <<2>>, <<3>>, <<4>>, <<5>>, <<1, 1>>, <<1, 1, 2>>, <<1, 2, 2>>}
MCStems == {<< >>, <<1>>, <<1, 1>>, <<1, 2>>, <<2>>, <<4>>}
MCValuesOf == [k \in MCKeys |-> IF k \in {<<5>>, <<1, 1>>} THEN {<<k, 1>>, <<k, 2>>} ELSE {<<k, 1>>}]

MCFewKeys == {<<1>>, <<1, 1>>, <<1, 2>>, <<2>>}
MCFewValuesOf == [k \in MCFewKeys |-> {<<k, 1>>, <<k, 2>>}]
=============================================================================
