-------------------------------- MODULE List --------------------------------
(***************************************************************************)
(* The intrusive doubly linked list of base/data-struct/list.c.            *)
(*                                                                         *)
(* A memory of list nodes is a record of two functions: l.n[x] is the node *)
(* x->n points to and l.p[x] the node x->p points to.  A list head is a    *)
(* node like any other; an empty list is a head that points to itself.     *)
(*                                                                         *)
(* The model keeps the pointers, and not sequences of elements, because    *)
(* list_del leaves the pointers of the deleted element as they were: an    *)
(* element that is deleted twice, or deleted long after its neighbours     *)
(* moved on, rewrites links of lists it is no longer on.                   *)
(***************************************************************************)

EXTENDS Naturals

\* list_init: the node becomes an empty list of its own.
list_init(l, head) ==
  [n |-> [l.n EXCEPT ![head] = head], p |-> [l.p EXCEPT ![head] = head]]

\* list_add: insert elem before head, that is, at the end of the list.
list_add(l, head, elem) ==
  [n |-> [l.n EXCEPT ![elem] = head, ![l.p[head]] = elem],
   p |-> [l.p EXCEPT ![elem] = l.p[head], ![head] = elem]]

\* list_del: the neighbours of elem skip it; elem keeps its two pointers.
list_del(l, elem) ==
  [n |-> [l.n EXCEPT ![l.p[elem]] = l.n[elem]],
   p |-> [l.p EXCEPT ![l.n[elem]] = l.p[elem]]]

\* list_move: list_del followed by list_add.
list_move(l, head, elem) == list_add(list_del(l, elem), head, elem)

\* list_empty
list_empty(l, head) == l.n[head] = head

\* list_splice: the elements of head1 go to the end of head; head1 is empty
\* afterwards.
list_splice(l, head, head1) ==
  IF list_empty(l, head1)
    THEN l
    ELSE [n |-> [l.n EXCEPT ![l.p[head1]] = head, ![l.p[head]] = l.n[head1],
                            ![head1] = head1],
          p |-> [l.p EXCEPT ![l.n[head1]] = l.p[head], ![head] = l.p[head1],
                            ![head1] = head1]]

(***************************************************************************)
(* Reading a list.  Members walks at most `fuel' links from head and stops *)
(* when it is back; it is used by properties only, never by an action.     *)
(***************************************************************************)
Members(l, head, fuel) ==
  LET node[i \in 0 .. fuel] == IF i = 0 THEN l.n[head] ELSE l.n[node[i - 1]]
  IN {node[i] : i \in {j \in 0 .. fuel : \A h \in 0 .. j : node[h] # head}}

\* Every node is where both its neighbours say it is.
Linked(l, x) == l.n[l.p[x]] = x /\ l.p[l.n[x]] = x
=============================================================================
