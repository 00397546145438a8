-------------------------------- MODULE RangeSet --------------------------------
(***************************************************************************)
(* base/data-struct/range-set.c: which values have which attribute.  A     *)
(* range is a record [b, e] of the values b .. e - 1.  The set is a binary *)
(* tree of attributes, each with a binary tree of ranges.                  *)
(*                                                                         *)
(* The trees are never rebalanced and nothing is ever removed but by       *)
(* destroying the whole set.  A range that meets one in the tree is merged *)
(* into it, and may then reach past the start of a range below it: the     *)
(* source says that this gives "a badly formed tree", and that "we get     *)
(* away with it because we never remove ranges".                           *)
(***************************************************************************)

EXTENDS Integers, Sequences

CONSTANTS
  Attrs,                  \* attributes
  MaxValue,               \* the values an attribute is added to are below it
  NULL                    \* an empty tree

Ranges(attr) == [b : 0 .. MaxValue[attr], e : 0 .. MaxValue[attr]]
Values(r) == r.b .. r.e - 1

ASSUME ValueAssumption == Attrs \subseteq Nat /\ MaxValue \in [Attrs -> Nat]

VARIABLES
  root,
  added,                  \* the values each attribute was added to
  latest                  \* where the last range of it began, if they were
                          \* added in order, or OutOfOrder

vars == <<root, added, latest>>
OutOfOrder == -1

Lesser(x, y) == IF x < y THEN x ELSE y
Greater(x, y) == IF x > y THEN x ELSE y

-----------------------------------------------------------------------------
(* Lookup returns <<found, result>>.  A variant with a mistake in it,        *)
(* named for the mistake, precedes some definitions; nothing uses it.        *)

NotFound == <<FALSE, [b |-> 0, e |-> 0]>>

\* Which way to go from a node; an area that ends where the range of the node
\* begins stops there, and the result is an empty range.
IsBefore_start(area, r) == area.b < r.b
IsBefore(area, r) == area.e < r.b
IsAfter(area, r) == area.b >= r.e

Clipped_whole(area, r) == r
Clipped(area, r) == [b |-> Greater(area.b, r.b), e |-> Lesser(area.e, r.e)]

RECURSIVE _lookup_bottom_level(_, _)
_lookup_bottom_level(n, area) ==
  IF n = NULL THEN NotFound
  ELSE IF IsBefore(area, n.r) THEN _lookup_bottom_level(n.left, area)
  ELSE IF IsAfter(area, n.r) THEN _lookup_bottom_level(n.right, area)
  ELSE <<TRUE, Clipped(area, n.r)>>

\* The tree of ranges an attribute has.
RECURSIVE RangesOf(_, _)
RangesOf(n, attr) ==
  IF n = NULL THEN NULL
  ELSE IF attr < n.attr THEN RangesOf(n.left, attr)
  ELSE IF attr > n.attr THEN RangesOf(n.right, attr)
  ELSE n.ranges

range_set_lookup(n, attr, area) == _lookup_bottom_level(RangesOf(n, attr), area)

-----------------------------------------------------------------------------
(* Insertion returns the new tree.                                           *)

_merge_ranges_left_end(lhs, rhs) == [lhs EXCEPT !.e = Greater(lhs.e, rhs.e)]
_merge_ranges_left(lhs, rhs) ==
  [b |-> Lesser(lhs.b, rhs.b), e |-> Greater(lhs.e, rhs.e)]

RECURSIVE _insert_bottom_level(_, _)
_insert_bottom_level(n, area) ==
  IF n = NULL THEN [left |-> NULL, right |-> NULL, r |-> area]
  ELSE IF IsBefore(area, n.r)
  THEN [n EXCEPT !.left = _insert_bottom_level(@, area)]
  ELSE IF IsAfter(area, n.r)
  THEN [n EXCEPT !.right = _insert_bottom_level(@, area)]
  ELSE [n EXCEPT !.r = _merge_ranges_left(@, area)]

RECURSIVE _insert_top_level(_, _, _)
_insert_top_level(n, attr, area) ==
  IF n = NULL
  THEN [left |-> NULL, right |-> NULL, attr |-> attr,
        ranges |-> _insert_bottom_level(NULL, area)]
  ELSE IF attr < n.attr THEN [n EXCEPT !.left = _insert_top_level(@, attr, area)]
  ELSE IF attr > n.attr THEN [n EXCEPT !.right = _insert_top_level(@, attr, area)]
  ELSE [n EXCEPT !.ranges = _insert_bottom_level(@, area)]

\* An empty range is not added.
Added(n, attr, r) == IF r.b >= r.e THEN n ELSE _insert_top_level(n, attr, r)

-----------------------------------------------------------------------------
range_set_create ==
  /\ root = NULL
  /\ added = [a \in Attrs |-> {}]
  /\ latest = [a \in Attrs |-> 0]

range_set_add_attribute(attr, r) ==
  /\ root' = Added(root, attr, r)
  /\ added' = [added EXCEPT ![attr] = @ \cup Values(r)]
  /\ latest' = [latest EXCEPT ![attr] = IF Values(r) = {} THEN @
                                        ELSE IF @ # OutOfOrder /\ r.b >= @ THEN r.b
                                        ELSE OutOfOrder]

\* A caller that goes on has to create another set.
range_set_destroy ==
  /\ root' = NULL
  /\ added' = [a \in Attrs |-> {}]
  /\ latest' = [a \in Attrs |-> 0]

Next ==
  \/ range_set_destroy
  \/ \E attr \in Attrs : \E r \in Ranges(attr) : range_set_add_attribute(attr, r)

Spec == range_set_create /\ [][Next]_vars

-----------------------------------------------------------------------------
(* Properties *)

RECURSIVE ValuesIn(_)
ValuesIn(n) ==
  IF n = NULL THEN {} ELSE Values(n.r) \cup ValuesIn(n.left) \cup ValuesIn(n.right)

\* The tree of an attribute holds the values it was added to and no other,
\* whatever ranges were merged and however many of them overlap in the tree.
RangesExact == \A a \in Attrs : ValuesIn(RangesOf(root, a)) = added[a]

\* A lookup that finds nothing is right: no value of the area has the
\* attribute, although the tree is ordered by ranges that have since grown.
\* What a lookup finds lies in the area and has the attribute.
LookupTruth ==
  \A a \in Attrs : \A area \in Ranges(a) :
    LET found == range_set_lookup(root, a, area)
    IN IF found[1] THEN Values(found[2]) \subseteq Values(area) \cap added[a]
                   ELSE Values(area) \cap added[a] = {}

\* The loop the header asks for, "you may need to perform multiple lookups to
\* cover all of 'area'", as test_multiple_ranges has it: look for what is left
\* of the area after the result.
RECURSIVE Walk(_, _)
Walk(attr, area) ==
  LET found == range_set_lookup(root, attr, area)
  IN IF ~found[1] \/ found[2].e >= area.e THEN Values(found[2])
     ELSE Values(found[2]) \cup Walk(attr, [area EXCEPT !.b = found[2].e])

\* The loop finds all of an area if the ranges were added in order, as "people
\* will commonly" do: "this returns the *first* range in 'area'" is true then.
InOrderWalkCovers ==
  \A a \in Attrs : \A area \in Ranges(a) :
    latest[a] # OutOfOrder => Walk(a, area) = Values(area) \cap added[a]
=============================================================================
