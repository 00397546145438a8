------------------------------ MODULE MCRangeSet ------------------------------
(* Constants for model checking RangeSet.                                    *)

EXTENDS RangeSet

\* Three attributes, so that the tree of attributes has every shape, and one
\* with room for trees of up to five values.
MCMaxValue == <<1, 5, 2>>
=============================================================================
