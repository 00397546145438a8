------------------------------ MODULE RadixMap ------------------------------
(***************************************************************************)
(* What base/data-struct/radix-tree.h promises: a map from keys, which are *)
(* sequences of bytes, to values.  Whatever is removed is handed to the    *)
(* destructor, once.                                                       *)
(***************************************************************************)

EXTENDS FiniteSets, SequencesExt

CONSTANTS
  Keys,           \* the keys used
  Stems,          \* those of keys, to remove or iterate all that extend them
  ValuesOf,       \* the values a key is given
  NoValue

VARIABLES
  map,            \* the value of every key, or NoValue
  size,
  deleted,        \* the values the last call has handed to the destructor
  calls           \* how often it has called it

rvars == <<map, size, deleted, calls>>

Present(m) == {k \in Keys : m[k] # NoValue}

Init ==
  /\ map = [k \in Keys |-> NoValue]
  /\ size = 0 /\ deleted = {} /\ calls = 0

Delete(gone) ==
  /\ map' = [k \in Keys |-> IF k \in gone THEN NoValue ELSE map[k]]
  /\ deleted' = {map[k] : k \in gone \cap Present(map)}
  /\ calls' = Cardinality(gone \cap Present(map))
  /\ size' = Cardinality(Present(map'))

Insert(k, rv) ==
  /\ map' = [map EXCEPT ![k] = rv]
  /\ size' = Cardinality(Present(map'))
  /\ deleted' = {} /\ calls' = 0

RemoveKey(k) == Delete({k})

RemoveStem(p) == Delete({k \in Keys : IsPrefix(p, k)})

Destroy == Delete(Keys)

Next ==
  \/ \E k \in Keys : \/ \E rv \in ValuesOf[k] : Insert(k, rv)
                     \/ RemoveKey(k)
  \/ \E p \in Stems : RemoveStem(p)
  \/ Destroy

Spec == Init /\ [][Next]_rvars
=============================================================================
