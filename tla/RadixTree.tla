----------------------------- MODULE RadixTree -----------------------------
(***************************************************************************)
(* The adaptive radix tree of base/data-struct/radix-tree-adaptive.c.  The *)
(* tree is a value: a node holds its children, which stand for the         *)
(* pointers of the code.  Nodes that branch are of four sizes and grow and *)
(* shrink with their entries.  A call is a step: nothing else runs while   *)
(* it does, but for the destructor, which does not look at the tree.       *)
(*                                                                         *)
(* The sizes are scaled down.  Memory is never short: the code says itself *)
(* that an insert that fails leaves the tree damaged.                      *)
(***************************************************************************)

EXTENDS Integers, FiniteSets, SequencesExt

CONSTANTS
  Size4, Size16, Size48,  \* the entries a NODE4, NODE16, NODE48 has room for
  NrBytes,                \* the values of a byte, as many as a NODE256 has room
  Keys, Stems, ValuesOf, NoValue,
  RewriteChains           \* may the value of a key be set again while the key
                          \* is a prefix of other keys?

Bytes == 1 .. NrBytes
NoSlot == 0

ASSUME SizeAssumption ==
  /\ Size4 \in 2 .. Size16 - 1 /\ Size16 \in Nat
  /\ Size48 \in Size16 + 1 .. NrBytes - 1 /\ NrBytes \in Nat
ASSUME KeyAssumption ==
  /\ Keys \subseteq Seq(Bytes) /\ Stems \subseteq Seq(Bytes)
  /\ \A k \in Keys : NoValue \notin ValuesOf[k]
  /\ RewriteChains \in BOOLEAN

VARIABLES
  root, nr_entries,
  dtr,            \* the values the last call has handed to the destructor
  found           \* what a client finds: the result of a lookup of every key

vars == <<root, nr_entries, dtr, found>>

-----------------------------------------------------------------------------
(* Nodes *)

Unset == [type |-> "UNSET"]
Value(rv) == [type |-> "VALUE", value |-> rv]
ValueChain(rv, child) == [type |-> "VALUE_CHAIN", value |-> rv, child |-> child]
PrefixChain(prefix, child) ==
  [type |-> "PREFIX_CHAIN", prefix |-> prefix, child |-> child]

\* keys is the sequence of the bytes for which a NODE4 or NODE16 has entries,
\* and maps every byte to the place of its entry in a NODE48.
Node(type, nr, keys, values) ==
  [type |-> type, nr_entries |-> nr, keys |-> keys, values |-> values]

Branches == {"NODE4", "NODE16", "NODE48", "NODE256"}
Chains == {"VALUE_CHAIN", "PREFIX_CHAIN"}
SizeOf == [NODE4 |-> Size4, NODE16 |-> Size16, NODE48 |-> Size48, NODE256 |-> NrBytes]

\* An array of n values that begins with those of another, zeroed after them.
Array(values, n) ==
  [i \in 1 .. n |-> IF i \in DOMAIN values THEN values[i] ELSE Unset]

\* The bytes a NODE48 or NODE256 has entries for, in their order.
InOrder(bytes) == SetToSortSeq(bytes, LAMBDA a, b : a < b)

\* Where a node has the entry of a byte.
Slot(v, b) ==
  CASE v.type \in {"NODE4", "NODE16"} ->
         IF b \in Range(v.keys) THEN CHOOSE i \in DOMAIN v.keys : v.keys[i] = b
         ELSE NoSlot
    [] v.type = "NODE48" -> v.keys[b]
    [] v.type = "NODE256" -> IF v.values[b].type = "UNSET" THEN NoSlot ELSE b

-----------------------------------------------------------------------------
(* Going down the tree: all operations do it in the same way. *)

Descends(v, key) ==
  /\ key # << >>
  /\ \/ v.type = "VALUE_CHAIN"
     \/ v.type = "PREFIX_CHAIN" /\ IsPrefix(v.prefix, key)
     \/ v.type \in Branches /\ Slot(v, Head(key)) # NoSlot

Child(v, key) == IF v.type \in Chains THEN v.child ELSE v.values[Slot(v, Head(key))]

Rest(v, key) ==
  CASE v.type = "VALUE_CHAIN" -> key
    [] v.type = "PREFIX_CHAIN" -> SubSeq(key, Len(v.prefix) + 1, Len(key))
    [] OTHER -> Tail(key)

WithChild(v, key, child) ==
  IF v.type \in Chains THEN [v EXCEPT !.child = child]
  ELSE [v EXCEPT !.values[Slot(v, Head(key))] = child]

RECURSIVE _lookup_prefix(_, _)
_lookup_prefix(v, key) ==
  IF Descends(v, key) THEN _lookup_prefix(Child(v, key), Rest(v, key))
  ELSE [v |-> v, key |-> key]

radix_tree_lookup(key, v) ==
  LET lr == _lookup_prefix(v, key)
  IN IF lr.key = << >> /\ lr.v.type \in {"VALUE", "VALUE_CHAIN"} THEN lr.v.value
     ELSE NoValue

-----------------------------------------------------------------------------
(* Insertion.  A result has the new node, and what to add to nr_entries.   *)

Inserted(v, nr) == [v |-> v, nr |-> nr]

\* A node that is full becomes one of the next size.
Grown(v) ==
  CASE v.type = "NODE4" ->
         Node("NODE16", v.nr_entries, v.keys, Array(v.values, Size16))
    [] v.type = "NODE16" ->
         Node("NODE48", v.nr_entries, [b \in Bytes |-> Slot(v, b)], Array(v.values, Size48))
    [] v.type = "NODE48" ->
         Node("NODE256", v.nr_entries, << >>,
              [b \in Bytes |-> IF v.keys[b] # NoSlot THEN v.values[v.keys[b]] ELSE Unset])

\* A node with one more entry, at place i of its values.
WithEntry(v, b, i, child) ==
  Node(v.type, v.nr_entries + 1,
       CASE v.type \in {"NODE4", "NODE16"} -> Append(v.keys, b)
         [] v.type = "NODE48" -> [v.keys EXCEPT ![b] = i]
         [] v.type = "NODE256" -> v.keys,
       [v.values EXCEPT ![i] = child])

CommonPrefix(a, b) ==
  CHOOSE n \in 0 .. Len(a) :
    /\ n <= Len(b) /\ SubSeq(a, 1, n) = SubSeq(b, 1, n)
    /\ n < Len(a) /\ n < Len(b) => a[n + 1] # b[n + 1]

RECURSIVE _insert(_, _, _)

\* The chain is split where the key leaves it, or a NODE4 is put in front.
_insert_prefix_chain(v, key, rv) ==
  LET i == CommonPrefix(v.prefix, key)
      tail(n) == SubSeq(v.prefix, n, Len(v.prefix))
  IN IF i > 0
     THEN LET r == _insert(PrefixChain(tail(i + 1), v.child), SubSeq(key, i + 1, Len(key)), rv)
          IN Inserted(PrefixChain(SubSeq(v.prefix, 1, i), r.v), r.nr)
     ELSE LET first == IF Len(v.prefix) = 1 THEN v.child ELSE PrefixChain(tail(2), v.child)
              r == _insert(Unset, Tail(key), rv)
          IN Inserted(Node("NODE4", 2, <<Head(v.prefix), Head(key)>>,
                           Array(<<first, r.v>>, Size4)), r.nr)

\* _insert_node4, _insert_node16, _insert_node48, _insert_node256
_insert_node(v, key, rv) ==
  LET w == IF v.type # "NODE256" /\ v.nr_entries = SizeOf[v.type] THEN Grown(v) ELSE v
      i == IF w.type = "NODE256" THEN Head(key) ELSE w.nr_entries + 1
      r == _insert(w.values[i], Tail(key), rv)
  IN Inserted(WithEntry(w, Head(key), i, r.v), r.nr)

_insert(v, key, rv) ==
  CASE v.type = "UNSET" ->
         Inserted(IF key = << >> THEN Value(rv) ELSE PrefixChain(key, Value(rv)), 1)
    [] v.type = "VALUE" ->
         IF key = << >> THEN Inserted(Value(rv), 0)
         ELSE LET r == _insert(Unset, key, rv) IN Inserted(ValueChain(v.value, r.v), r.nr)
    [] key = << >> /\ v.type \notin {"UNSET", "VALUE"} -> Inserted(ValueChain(rv, v), 1)
    [] key # << >> /\ v.type = "VALUE_CHAIN" ->
         LET r == _insert(v.child, key, rv) IN Inserted([v EXCEPT !.child = r.v], r.nr)
    [] key # << >> /\ v.type = "PREFIX_CHAIN" -> _insert_prefix_chain(v, key, rv)
    [] key # << >> /\ v.type \in Branches -> _insert_node(v, key, rv)

\* The tree with rv inserted at the node that _lookup_prefix finds.
RECURSIVE InsertBelow(_, _, _)
InsertBelow(v, key, rv) ==
  IF Descends(v, key)
  THEN LET r == InsertBelow(Child(v, key), Rest(v, key), rv)
       IN Inserted(WithChild(v, key, r.v), r.nr)
  ELSE _insert(v, key, rv)

-----------------------------------------------------------------------------
(* Removal.  A result has the new node, and the values that are deleted.   *)

Removed(v, gone) == [v |-> v, gone |-> gone]

\* _degrade_to_n4, _degrade_to_n16, _degrade_to_n48
Degraded(v) ==
  LET bytes == InOrder({b \in Bytes : Slot(v, b) # NoSlot})
      values == [n \in DOMAIN bytes |-> v.values[Slot(v, bytes[n])]]
  IN CASE v.type = "NODE16" ->
            Node("NODE4", v.nr_entries, v.keys, Array(SubSeq(v.values, 1, v.nr_entries), Size4))
       [] v.type = "NODE48" -> Node("NODE16", v.nr_entries, bytes, Array(values, Size16))
       [] v.type = "NODE256" ->
            Node("NODE48", v.nr_entries,
                 [b \in Bytes |-> IF b \in Range(bytes) THEN CHOOSE n \in DOMAIN bytes : bytes[n] = b
                                  ELSE NoSlot],
                 Array(values, Size48))

\* _erase_elt: the values above the i-th of nr slide down.
Erased_kept(values, nr, i) ==
  [n \in DOMAIN values |-> IF n \in i .. nr - 1 THEN values[n + 1] ELSE values[n]]
Erased(values, nr, i) ==
  [n \in DOMAIN values |-> IF n \in i .. nr - 1 THEN values[n + 1]
                           ELSE IF n = nr /\ i # nr THEN Unset ELSE values[n]]

\* The places of a NODE48 after the i-th value is erased.
Lowered_kept(keys, i) == keys
Lowered(keys, i) == [b \in Bytes |-> IF keys[b] > i THEN keys[b] - 1 ELSE keys[b]]

\* A node whose entry for byte b has become UNSET.
WithoutEntry(v, b, i) ==
  Node(v.type, v.nr_entries - 1,
       CASE v.type \in {"NODE4", "NODE16"} -> RemoveAt(v.keys, i)
         [] v.type = "NODE48" -> Lowered([v.keys EXCEPT ![b] = NoSlot], i)
         [] v.type = "NODE256" -> v.keys,
       IF v.type = "NODE256" THEN v.values ELSE Erased(v.values, v.nr_entries, i))

\* A node that has fewer entries than its size is for becomes a smaller one.
Shrunk(v) ==
  CASE v.type = "NODE4" -> IF v.nr_entries = 0 THEN Unset ELSE v
    [] v.type = "NODE16" -> IF v.nr_entries <= Size4 THEN Degraded(v) ELSE v
    [] v.type = "NODE48" -> IF v.nr_entries <= Size16 THEN Degraded(v) ELSE v
    [] v.type = "NODE256" -> IF v.nr_entries <= Size48 THEN Degraded(v) ELSE v

\* A node when a removal below it has left child.
Updated(v, key, child) ==
  IF child.type # "UNSET" THEN WithChild(v, key, child)
  ELSE CASE v.type = "VALUE_CHAIN" -> Value(v.value)
         [] v.type = "PREFIX_CHAIN" -> Unset
         [] v.type \in Branches ->
              LET i == Slot(v, Head(key))
              IN Shrunk(WithoutEntry([v EXCEPT !.values[i] = Unset], Head(key), i))

RECURSIVE _remove(_, _)
_remove(v, key) ==
  IF Descends(v, key)
  THEN LET r == _remove(Child(v, key), Rest(v, key))
       IN IF r.gone = << >> THEN Removed(v, << >>) ELSE Removed(Updated(v, key, r.v), r.gone)
  ELSE CASE key = << >> /\ v.type = "VALUE" -> Removed(Unset, <<v.value>>)
         [] key = << >> /\ v.type = "VALUE_CHAIN" -> Removed(v.child, <<v.value>>)
         [] OTHER -> Removed(v, << >>)

\* Every value below a node, in the order in which they are visited.  The
\* destructor gets them in this order too.
RECURSIVE _iterate(_)
_iterate(v) ==
  CASE v.type = "UNSET" -> << >>
    [] v.type = "VALUE" -> <<v.value>>
    [] v.type = "VALUE_CHAIN" -> <<v.value>> \o _iterate(v.child)
    [] v.type = "PREFIX_CHAIN" -> _iterate(v.child)
    [] v.type = "NODE256" -> FlattenSeq([b \in Bytes |-> _iterate(v.values[b])])
    [] v.type \in Branches \ {"NODE256"} ->
         FlattenSeq([i \in 1 .. v.nr_entries |-> _iterate(v.values[i])])

_free_node(v) == _iterate(v)

\* The rest of a key is a part of a prefix chain.
MatchesPart_never(v, key) == FALSE
MatchesPart(v, key) == v.type = "PREFIX_CHAIN" /\ IsStrictPrefix(key, v.prefix)

RECURSIVE _remove_subtree(_, _)
_remove_subtree(v, key) ==
  CASE key = << >> -> Removed(Unset, _free_node(v))
    [] Descends(v, key) ->
         LET r == _remove_subtree(Child(v, key), Rest(v, key))
         IN Removed(Updated(v, key, r.v), r.gone)
    [] key # << >> /\ v.type = "PREFIX_CHAIN" /\ IsStrictPrefix(key, v.prefix) ->
         Removed(Unset, _free_node(v.child))
    [] OTHER -> Removed(v, << >>)

-----------------------------------------------------------------------------
radix_tree_iterate(stem) ==
  LET lr == _lookup_prefix(root, stem)
  IN IF lr.key = << >> \/ MatchesPart(lr.v, lr.key) THEN _iterate(lr.v) ELSE << >>

Found(v) == [key \in Keys |-> radix_tree_lookup(key, v)]

Init == root = Unset /\ nr_entries = 0 /\ dtr = << >> /\ found = Found(Unset)

radix_tree_insert(key, rv) ==
  /\ \/ RewriteChains \/ found[key] = NoValue
     \/ _lookup_prefix(root, key).v.type # "VALUE_CHAIN"
  /\ LET r == InsertBelow(root, key, rv)
     IN root' = r.v /\ nr_entries' = nr_entries + r.nr
  /\ dtr' = << >>
  /\ found' = Found(root')

\* The root is replaced and nr_entries lowered.
Delete(r) ==
  /\ root' = r.v
  /\ nr_entries' = nr_entries - Len(r.gone)
  /\ dtr' = r.gone
  /\ found' = Found(root')

radix_tree_remove(key) == Delete(_remove(root, key))

radix_tree_remove_prefix(stem) == Delete(_remove_subtree(root, stem))

\* The tree is destroyed, and another created.
radix_tree_destroy ==
  /\ dtr' = _free_node(root)
  /\ root' = Unset /\ nr_entries' = 0 /\ found' = Found(Unset)

Next ==
  \/ \E key \in Keys : \/ \E rv \in ValuesOf[key] : radix_tree_insert(key, rv)
                       \/ radix_tree_remove(key)
  \/ \E stem \in Stems : radix_tree_remove_prefix(stem)
  \/ radix_tree_destroy

Spec == Init /\ [][Next]_vars

-----------------------------------------------------------------------------
(* Properties *)

\* Places of a node without an entry are UNSET, for the next insert to build
\* there, and the entries of a NODE48 or NODE256 are as many as it says.
RECURSIVE _check_nodes(_)
_check_nodes(v) ==
  CASE v.type \in {"UNSET", "VALUE"} -> TRUE
    [] v.type \in Chains -> _check_nodes(v.child)
    [] v.type \in Branches ->
         LET used == {b \in Bytes : Slot(v, b) # NoSlot}
         IN /\ v.type \in {"NODE48", "NODE256"} => Cardinality(used) = v.nr_entries
            /\ v.type = "NODE48" => {Slot(v, b) : b \in used} = 1 .. v.nr_entries
            /\ \A i \in DOMAIN v.values :
                 IF v.type = "NODE256" \/ i <= v.nr_entries THEN _check_nodes(v.values[i])
                 ELSE v.values[i].type = "UNSET"

\* What the checks leave out: below the root nothing is UNSET ("can't happen",
\* _iterate), no prefix is empty, no two entries have the same byte, and every
\* node has the smallest size that its entries fit.
RECURSIVE Tight(_)
Tight(v) ==
  CASE v.type = "UNSET" -> FALSE
    [] v.type = "VALUE" -> TRUE
    [] v.type = "VALUE_CHAIN" -> Tight(v.child)
    [] v.type = "PREFIX_CHAIN" -> v.prefix # << >> /\ Tight(v.child)
    [] v.type \in Branches ->
         LET used == {b \in Bytes : Slot(v, b) # NoSlot}
         IN /\ v.nr_entries = Cardinality(used)
            /\ v.nr_entries \in
                 CASE v.type = "NODE4" -> 1 .. Size4
                   [] v.type = "NODE16" -> Size4 + 1 .. Size16
                   [] v.type = "NODE48" -> Size16 + 1 .. Size48
                   [] v.type = "NODE256" -> Size48 + 1 .. NrBytes
            /\ \A b \in used : Tight(v.values[Slot(v, b)])

\* The tree is well formed after any calls: what radix_tree_is_well_formed
\* tests, that nr_entries is the number of values in the tree among it, and
\* what it leaves out.
WellFormed ==
  /\ _check_nodes(root) /\ nr_entries = Len(_iterate(root))
  /\ root.type = "UNSET" \/ Tight(root)

\* "duplicate entries aren't counted twice" (test_size): radix_tree_size is the
\* number of keys that have a value.
SizeTruth == nr_entries = Cardinality({k \in Keys : found[k] # NoValue})

\* Iterating a prefix visits every value whose key extends it, once, and no
\* others, wherever in a chain or between two nodes the prefix ends.
IterateExact ==
  \A stem \in Stems :
    LET visited == radix_tree_iterate(stem)
        keys == {k \in Keys : IsPrefix(stem, k) /\ found[k] # NoValue}
    IN /\ Range(visited) = {found[k] : k \in keys}
       /\ Len(visited) = Cardinality(keys)

\* The tree is a map: whatever was inserted is found until it is removed, and
\* no removal takes another key with it, nodes growing and shrinking meanwhile;
\* what is removed is handed to the destructor, once.
Map == INSTANCE RadixMap WITH
  map <- found, size <- nr_entries,
  deleted <- Range(dtr), calls <- Len(dtr)
ImplementsRadixMap == Map!Spec
=============================================================================
