----------------------------- MODULE ListProofs -----------------------------
(***************************************************************************)
(* What the operations of base/data-struct/list.c keep.                    *)
(***************************************************************************)

EXTENDS List, TLAPS, WellFoundedInduction, FiniteSets, FiniteSetTheorems

(***************************************************************************)
(* Induction over the natural numbers, as facts about sets of them.        *)
(***************************************************************************)

\* Every nonempty set of natural numbers has a least element.
LEMMA LeastNatural ==
  ASSUME NEW A \in SUBSET Nat, A # {}
  PROVE  \E m \in A : \A n \in A : m <= n
<1>1. PICK m \in A : \A n \in A : ~(<<n, m>> \in OpToRel(<, Nat))
  BY WFMin, NatLessThanWellFounded
<1>2. \A n \in A : ~(n < m)
  BY <1>1 DEF OpToRel
<1> QED BY <1>2

\* A set with 0 and with the successor of all it has below m has all up to m.
LEMMA UpTo ==
  ASSUME NEW m \in Nat, NEW A, 0 \in A, \A i \in 0 .. m : i \in A /\ i < m => i + 1 \in A
  PROVE  0 .. m \subseteq A
<1> SUFFICES ASSUME (0 .. m) \ A # {} PROVE FALSE
  OBVIOUS
<1>1. PICK i \in (0 .. m) \ A : \A j \in (0 .. m) \ A : i <= j
  <2>1. (0 .. m) \ A \in SUBSET Nat
    OBVIOUS
  <2> QED BY <2>1, LeastNatural
<1>2. i - 1 \in 0 .. m /\ i - 1 < m /\ i - 1 < i /\ (i - 1) + 1 = i
  BY <1>1
<1>3. i - 1 \in A
  BY <1>1, <1>2
<1> QED BY <1>1, <1>2, <1>3

\* A function can be followed for any number of steps.
Walk(h, a, m, g) == g = [i \in 0 .. m |-> IF i = 0 THEN a ELSE h[g[i - 1]]]

LEMMA WalkExists ==
  ASSUME NEW h, NEW a, NEW m \in Nat
  PROVE  \E g : Walk(h, a, m, g)
<1> DEFINE A == {k \in Nat : \E g : Walk(h, a, k, g)}
<1>1. 0 \in A
  <2>1. Walk(h, a, 0, [i \in 0 .. 0 |-> a])
    BY DEF Walk
  <2> QED BY <2>1
<1>2. ASSUME NEW k \in Nat, k \in A PROVE k + 1 \in A
  <2>1. PICK g : Walk(h, a, k, g)
    BY <1>2
  <2> DEFINE g2 == [i \in 0 .. k + 1 |-> IF i = 0 THEN a ELSE h[g[i - 1]]]
  <2>2. ASSUME NEW i \in 0 .. k + 1, i # 0 PROVE g2[i - 1] = g[i - 1]
    <3>1. i - 1 \in 0 .. k /\ i - 1 \in 0 .. k + 1
      BY <2>2
    <3>2. g[i - 1] = IF i - 1 = 0 THEN a ELSE h[g[(i - 1) - 1]]
      BY <2>1, <3>1 DEF Walk
    <3> QED BY <3>1, <3>2
  <2>3. g2 = [i \in 0 .. k + 1 |-> IF i = 0 THEN a ELSE h[g2[i - 1]]]
    BY <2>2
  <2>4. Walk(h, a, k + 1, g2)
    <3> HIDE DEF g2
    <3> QED BY <2>3 DEF Walk
  <2> HIDE DEF g2
  <2> QED BY <2>4
<1> HIDE DEF A
<1>3. 0 .. m \subseteq A
  <2>1. \A i \in 0 .. m : i \in A /\ i < m => i + 1 \in A
    BY <1>2
  <2> QED BY <1>1, <2>1, UpTo
<1>4. m \in A
  BY <1>3
<1> QED BY <1>4 DEF A

-----------------------------------------------------------------------------
ListMemory(N) == [n : [N -> N], p : [N -> N]]

\* Every operation maps a memory of nodes to a memory of the same nodes.
LEMMA ListOpsType ==
  ASSUME NEW N, NEW l \in ListMemory(N), NEW head \in N, NEW elem \in N
  PROVE  /\ list_init(l, head) \in ListMemory(N)
         /\ list_add(l, head, elem) \in ListMemory(N)
         /\ list_del(l, elem) \in ListMemory(N)
         /\ list_move(l, head, elem) \in ListMemory(N)
         /\ list_splice(l, head, elem) \in ListMemory(N)
<1>1. list_init(l, head) \in ListMemory(N)
  BY DEF ListMemory, list_init
<1>2. ASSUME NEW m \in ListMemory(N) PROVE list_add(m, head, elem) \in ListMemory(N)
  BY <1>2 DEF ListMemory, list_add
<1>3. list_del(l, elem) \in ListMemory(N)
  BY DEF ListMemory, list_del
<1>4. list_splice(l, head, elem) \in ListMemory(N)
  <2>1. CASE list_empty(l, elem)
    BY <2>1 DEF list_splice
  <2>2. CASE ~list_empty(l, elem)
    BY <2>2 DEF list_splice, ListMemory
  <2> QED BY <2>1, <2>2
<1> QED BY <1>1, <1>2, <1>3, <1>4 DEF list_move

-----------------------------------------------------------------------------
(***************************************************************************)
(* Lists kept in one memory.  on[x] is the head of the list node x is on,  *)
(* pos[x] grows along every list, and `out' are the nodes on no list: the  *)
(* links of the others are mutual, stay on one list, and never lead out.   *)
(***************************************************************************)
Chained(l, N, H, out, on, pos) ==
  /\ H \subseteq N /\ out \subseteq N \ H
  /\ l \in ListMemory(N) /\ on \in [N -> H] /\ pos \in [N -> Nat]
  /\ \A h \in H : on[h] = h /\ pos[h] = 0
  /\ \A x \in N \ out :
       /\ l.n[x] \notin out /\ l.p[x] \notin out
       /\ l.p[l.n[x]] = x /\ l.n[l.p[x]] = x
       /\ on[l.n[x]] = on[x]
       /\ l.n[x] \in H \/ pos[x] < pos[l.n[x]]

\* list_del takes the node off its list, and changes nothing when repeated.
LEMMA DelChained ==
  ASSUME NEW N, NEW H, NEW l, NEW on, NEW pos, NEW f \in N \ H,
         Chained(l, N, H, {}, on, pos)
  PROVE  /\ Chained(list_del(l, f), N, H, {f}, on, pos)
         /\ list_del(list_del(l, f), f) = list_del(l, f)
<1> DEFINE m == list_del(l, f)
<1>1. l.n[f] # f /\ l.p[f] # f
  BY DEF Chained
<1>2. m \in ListMemory(N)
  BY ListOpsType DEF Chained
<1>3. \A x \in N : /\ m.n[x] = IF x = l.p[f] THEN l.n[f] ELSE l.n[x]
                   /\ m.p[x] = IF x = l.n[f] THEN l.p[f] ELSE l.p[x]
  BY DEF list_del, ListMemory, Chained
<1>4. ASSUME NEW x \in N \ {f}
      PROVE  /\ m.n[x] # f /\ m.p[x] # f
             /\ m.p[m.n[x]] = x /\ m.n[m.p[x]] = x
             /\ on[m.n[x]] = on[x]
             /\ m.n[x] \in H \/ pos[x] < pos[m.n[x]]
  <2>1. /\ m.n[x] # f /\ m.p[x] # f
        /\ m.p[m.n[x]] = x /\ m.n[m.p[x]] = x
    BY <1>1, <1>3 DEF Chained, ListMemory
  <2>2. /\ on[m.n[x]] = on[x]
        /\ m.n[x] \in H \/ pos[x] < pos[m.n[x]]
    <3>1. CASE x = l.p[f]
      <4>1. m.n[x] = l.n[f] /\ l.n[x] = f /\ l.n[f] \in N
        BY <1>3, <3>1 DEF Chained, ListMemory
      <4>2. on[l.n[f]] = on[f] /\ on[f] = on[x]
        BY <4>1 DEF Chained
      <4>3. pos[x] < pos[f] /\ (l.n[f] \in H \/ pos[f] < pos[l.n[f]])
        BY <4>1 DEF Chained
      <4>4. pos[x] \in Nat /\ pos[f] \in Nat /\ pos[l.n[f]] \in Nat
        BY <4>1 DEF Chained
      <4> QED BY <4>1, <4>2, <4>3, <4>4
    <3>2. CASE x # l.p[f]
      BY <1>3, <3>2 DEF Chained
    <3> QED BY <3>1, <3>2
  <2> QED BY <2>1, <2>2
<1>5. list_del(m, f) = m
  <2>1. m.n[f] = l.n[f] /\ m.p[f] = l.p[f] /\ f \in N /\ l.n[f] \in N /\ l.p[f] \in N
    BY <1>1, <1>3 DEF Chained, ListMemory
  <2>2. m.n[l.p[f]] = l.n[f] /\ m.p[l.n[f]] = l.p[f]
    BY <1>3, <2>1
  <2> HIDE DEF m
  <2>3. /\ [m.n EXCEPT ![m.p[f]] = m.n[f]] = m.n
        /\ [m.p EXCEPT ![m.n[f]] = m.p[f]] = m.p
    BY <1>2, <2>1, <2>2 DEF ListMemory
  <2> QED BY <1>2, <2>3 DEF list_del, ListMemory
<1> QED BY <1>2, <1>4, <1>5 DEF Chained

\* list_add puts a node that is on no list on the list of head.
LEMMA AddChained ==
  ASSUME NEW N, NEW H, NEW l, NEW on, NEW pos, NEW f \in N \ H, NEW head \in H,
         Chained(l, N, H, {f}, on, pos)
  PROVE  \E pos2 : Chained(list_add(l, head, f), N, H, {}, [on EXCEPT ![f] = head], pos2)
<1> DEFINE m == list_add(l, head, f)
           pos2 == [pos EXCEPT ![f] = pos[l.p[head]] + 1]
           on2 == [on EXCEPT ![f] = head]
<1>1. l.p[head] # f /\ l.p[head] \in N /\ l.n[l.p[head]] = head /\ head \in N
  BY DEF Chained, ListMemory
<1>2. m \in ListMemory(N)
  BY <1>1, ListOpsType DEF Chained
<1>3. \A x \in N :
        /\ m.n[x] = IF x = l.p[head] THEN f ELSE IF x = f THEN head ELSE l.n[x]
        /\ m.p[x] = IF x = head THEN f ELSE IF x = f THEN l.p[head] ELSE l.p[x]
  BY <1>1 DEF list_add, ListMemory, Chained
<1>4. pos2 \in [N -> Nat] /\ on2 \in [N -> H]
  BY <1>1 DEF Chained
<1>5. ASSUME NEW x \in N
      PROVE  /\ m.p[m.n[x]] = x /\ m.n[m.p[x]] = x
             /\ on2[m.n[x]] = on2[x]
             /\ m.n[x] \in H \/ pos2[x] < pos2[m.n[x]]
  BY <1>1, <1>3 DEF Chained, ListMemory
<1>6. \A h \in H : on2[h] = h /\ pos2[h] = 0
  BY DEF Chained
<1>7. Chained(m, N, H, {}, on2, pos2)
  BY <1>2, <1>4, <1>5, <1>6 DEF Chained
<1> QED BY <1>7

\* list_move of a node takes it to the list of head, whatever list it was on.
LEMMA MoveChained ==
  ASSUME NEW N, NEW H, NEW l, NEW on, NEW pos, NEW f \in N \ H, NEW head \in H,
         Chained(list_del(l, f), N, H, {f}, on, pos)
  PROVE  \E pos2 : Chained(list_move(l, head, f), N, H, {}, [on EXCEPT ![f] = head], pos2)
BY AddChained DEF list_move

\* list_init leaves a node that is on no list alone, and so does list_del then.
LEMMA InitChained ==
  ASSUME NEW N, NEW H, NEW l, NEW on, NEW pos, NEW f \in N \ H,
         Chained(l, N, H, {f}, on, pos)
  PROVE  /\ Chained(list_init(l, f), N, H, {f}, on, pos)
         /\ list_del(list_init(l, f), f) = list_init(l, f)
         /\ list_init(l, f).n[f] = f
<1> DEFINE m == list_init(l, f)
<1>1. m \in ListMemory(N)
  BY ListOpsType DEF Chained
<1>2. \A x \in N : m.n[x] = (IF x = f THEN f ELSE l.n[x]) /\ m.p[x] = (IF x = f THEN f ELSE l.p[x])
  BY DEF list_init, ListMemory, Chained
<1>3. list_del(m, f) = m /\ m.n[f] = f
  BY <1>1, <1>2 DEF list_del, ListMemory, Chained
<1> HIDE DEF m
<1>4. \A x \in N \ {f} : m.n[x] = l.n[x] /\ m.p[x] = l.p[x]
  BY <1>2
<1>5. \A x \in N \ {f} : l.n[x] \in N \ {f} /\ l.p[x] \in N \ {f}
  BY DEF Chained, ListMemory
<1>6. Chained(m, N, H, {f}, on, pos)
  BY <1>1, <1>4, <1>5 DEF Chained
<1> QED BY <1>3, <1>6 DEF m

\* The head of a list that is not empty is not alone: an empty list has no
\* elements, however the links of other lists run.
LEMMA EmptyChained ==
  ASSUME NEW N, NEW H, NEW l, NEW on, NEW pos, NEW head \in H, list_empty(l, head),
         NEW out, Chained(l, N, H, out, on, pos), NEW x \in N \ out, on[x] = head
  PROVE  x = head
<1> SUFFICES ASSUME x # head PROVE FALSE
  OBVIOUS
<1> DEFINE T == {pos[y] : y \in {z \in N \ out : on[z] = head /\ z # head}}
<1>1. T \in SUBSET Nat /\ T # {}
  BY DEF Chained
<1>2. PICK i \in T : \A j \in T : i <= j
  BY <1>1, LeastNatural
<1>3. PICK y \in N \ out : on[y] = head /\ y # head /\ i = pos[y]
  BY <1>2
<1>4. l.p[y] \in N \ out /\ l.n[l.p[y]] = y /\ on[l.p[y]] = head
  BY <1>3 DEF Chained, ListMemory
<1>5. l.p[y] # head
  BY <1>3, <1>4 DEF list_empty
<1>6. y \notin H
  BY <1>3 DEF Chained
<1>7. pos[l.p[y]] < pos[y] /\ pos[y] \in Nat /\ pos[l.p[y]] \in Nat
  BY <1>4, <1>6 DEF Chained
<1> QED BY <1>2, <1>3, <1>4, <1>5, <1>7

\* list_splice moves every element of one list to the end of another.
Spliced(N, on, head, head1) ==
  [x \in N |-> IF on[x] = head1 /\ x # head1 THEN head ELSE on[x]]

LEMMA SpliceChained ==
  ASSUME NEW N, NEW H, NEW l, NEW on, NEW pos, NEW head \in H, NEW head1 \in H,
         head # head1, Chained(l, N, H, {}, on, pos)
  PROVE  \E pos2 : Chained(list_splice(l, head, head1), N, H, {},
                           Spliced(N, on, head, head1), pos2)
<1> DEFINE m == list_splice(l, head, head1)
           on2 == Spliced(N, on, head, head1)
           pos2 == [x \in N |-> IF on[x] = head1 /\ x # head1
                                 THEN pos[l.p[head]] + pos[x] ELSE pos[x]]
<1>1. CASE list_empty(l, head1)
  <2>1. \A x \in N : on[x] = head1 => x = head1
    BY <1>1, EmptyChained
  <2>2. on2 = on
    BY <2>1 DEF Chained, Spliced
  <2> QED BY <1>1, <2>2 DEF list_splice
<1>2. CASE ~list_empty(l, head1)
  <2>1. /\ l.n[head1] # head1 /\ l.n[head1] \in N \ H /\ on[l.n[head1]] = head1
        /\ l.p[head1] # head1 /\ l.p[head1] \in N \ H /\ on[l.p[head1]] = head1
        /\ l.p[head] \in N /\ on[l.p[head]] = head /\ l.n[l.p[head]] = head
        /\ head \in N /\ head1 \in N
    BY <1>2 DEF Chained, ListMemory, list_empty
  <2>2. m \in ListMemory(N)
    BY <2>1, ListOpsType DEF Chained
  <2>3. \A x \in N :
          /\ m.n[x] = IF x = head1 THEN head1 ELSE IF x = l.p[head] THEN l.n[head1]
                      ELSE IF x = l.p[head1] THEN head ELSE l.n[x]
          /\ m.p[x] = IF x = head1 THEN head1 ELSE IF x = head THEN l.p[head1]
                      ELSE IF x = l.n[head1] THEN l.p[head] ELSE l.p[x]
    BY <1>2, <2>1 DEF list_splice, ListMemory, Chained
  <2>4. on2 \in [N -> H] /\ pos2 \in [N -> Nat]
    BY <2>1 DEF Chained, Spliced
  <2>5. \A h \in H : on2[h] = h /\ pos2[h] = 0
    BY DEF Chained, Spliced
  <2> HIDE DEF m
  <2>6. ASSUME NEW x \in N
        PROVE  m.p[m.n[x]] = x /\ m.n[m.p[x]] = x
    BY <2>1, <2>3 DEF Chained, ListMemory
  <2>7. ASSUME NEW x \in N
        PROVE  on2[m.n[x]] = on2[x] /\ (m.n[x] \in H \/ pos2[x] < pos2[m.n[x]])
    BY <2>1, <2>3 DEF Chained, ListMemory, Spliced
  <2> HIDE DEF on2, pos2
  <2>8. Chained(m, N, H, {}, on2, pos2)
    BY <2>2, <2>4, <2>5, <2>6, <2>7 DEF Chained
  <2> QED BY <2>8 DEF m, on2
<1> QED BY <1>1, <1>2

-----------------------------------------------------------------------------
(* Walking a list from its head to its head visits its elements, no others. *)

\* A walk stays on the list, and until it meets the head it only goes up.
LEMMA WalkStays ==
  ASSUME NEW N, NEW H, NEW l, NEW on, NEW pos, NEW out, Chained(l, N, H, out, on, pos),
         NEW head \in H, NEW m \in Nat,
         NEW g, Walk(l.n, l.n[head], m, g)
  PROVE  /\ g \in [0 .. m -> N] /\ g[0] = l.n[head]
         /\ \A i \in 0 .. m : g[i] \in N \ out /\ on[g[i]] = head
         /\ \A i \in 0 .. m : i < m => g[i + 1] = l.n[g[i]]
<1>1. /\ g[0] = l.n[head] /\ DOMAIN g = 0 .. m /\ g = [i \in 0 .. m |-> g[i]]
      /\ \A i \in 0 .. m : i < m => i + 1 \in 0 .. m /\ g[i + 1] = l.n[g[i]]
  <2>1. ASSUME NEW i \in 0 .. m, i < m PROVE i + 1 \in 0 .. m /\ g[i + 1] = l.n[g[i]]
    <3>1. i + 1 \in 0 .. m /\ i + 1 # 0 /\ (i + 1) - 1 = i
      BY <2>1
    <3> QED BY <3>1 DEF Walk
  <2> QED BY <2>1 DEF Walk
<1>2. head \in N \ out
  BY DEF Chained
<1> DEFINE A == {i \in 0 .. m : g[i] \in N \ out /\ on[g[i]] = head}
<1>3. 0 \in A
  BY <1>1, <1>2 DEF Chained, ListMemory
<1>4. ASSUME NEW i \in 0 .. m, i \in A, i < m PROVE i + 1 \in A
  <2>1. g[i] \in N \ out /\ on[g[i]] = head /\ i + 1 \in 0 .. m /\ g[i + 1] = l.n[g[i]]
    BY <1>1, <1>4
  <2>2. l.n[g[i]] \in N \ out /\ on[l.n[g[i]]] = head
    BY <2>1 DEF Chained, ListMemory
  <2> QED BY <2>1, <2>2
<1> HIDE DEF A
<1>5. 0 .. m \subseteq A
  BY <1>3, <1>4, UpTo
<1>6. \A i \in 0 .. m : g[i] \in N \ out /\ on[g[i]] = head
  BY <1>5 DEF A
<1> QED BY <1>1, <1>6

\* A walk of as many steps as there are elements meets the head.
LEMMA WalkReturns ==
  ASSUME NEW N, NEW H, NEW l, NEW on, NEW pos, NEW out, Chained(l, N, H, out, on, pos),
         NEW head \in H, NEW m \in Nat, IsFiniteSet(N \ H), Cardinality(N \ H) <= m,
         NEW g, Walk(l.n, l.n[head], m, g)
  PROVE  \E i \in 0 .. m : g[i] = head
<1>1. /\ g \in [0 .. m -> N]
      /\ \A i \in 0 .. m : g[i] \in N \ out /\ on[g[i]] = head
      /\ \A i \in 0 .. m : i < m => g[i + 1] = l.n[g[i]]
  <2>1. Chained(l, N, H, out, on, pos) /\ Walk(l.n, l.n[head], m, g)
    OBVIOUS
  <2> QED BY <2>1, WalkStays
<1> SUFFICES ASSUME \A i \in 0 .. m : g[i] # head PROVE FALSE
  OBVIOUS
<1>2. \A i \in 0 .. m : g[i] \in N \ H /\ pos[g[i]] \in Nat
  BY <1>1 DEF Chained
<1>3. ASSUME NEW i \in 0 .. m, i < m
      PROVE  i + 1 \in 0 .. m /\ pos[g[i]] < pos[g[i + 1]]
  <2>1. i + 1 \in 0 .. m /\ g[i + 1] = l.n[g[i]] /\ g[i] \in N \ out
    BY <1>1, <1>3
  <2>2. l.n[g[i]] \notin H
    BY <1>2, <2>1
  <2> QED BY <2>1, <2>2 DEF Chained
<1>4. \A i \in 0 .. m, j \in 0 .. m : i < j => pos[g[i]] < pos[g[j]]
  <2> SUFFICES ASSUME NEW i \in 0 .. m
               PROVE  \A j \in 0 .. m : i < j => pos[g[i]] < pos[g[j]]
    OBVIOUS
  <2> DEFINE A == {j \in 0 .. m : i < j => pos[g[i]] < pos[g[j]]}
  <2>1. 0 \in A
    OBVIOUS
  <2>2. ASSUME NEW j \in 0 .. m, j \in A, j < m PROVE j + 1 \in A
    <3>1. j + 1 \in 0 .. m /\ pos[g[j]] < pos[g[j + 1]]
          /\ pos[g[i]] \in Nat /\ pos[g[j]] \in Nat /\ pos[g[j + 1]] \in Nat
      BY <1>2, <1>3, <2>2
    <3>2. CASE i < j
      <4>1. pos[g[i]] < pos[g[j]]
        BY <2>2, <3>2
      <4> QED BY <3>1, <4>1
    <3>3. CASE i = j
      BY <3>1, <3>3
    <3>4. CASE i > j
      <4>1. ~(i < j + 1)
        BY <3>4
      <4> QED BY <3>1, <4>1
    <3> QED BY <3>2, <3>3, <3>4
  <2> HIDE DEF A
  <2>3. 0 .. m \subseteq A
    BY <2>1, <2>2, UpTo
  <2> QED BY <2>3 DEF A
<1>5. IsFiniteSet(0 .. m) /\ Cardinality(0 .. m) = m + 1
  <2>1. 0 \in Int /\ m \in Int /\ ~(0 > m) /\ m - 0 + 1 = m + 1
    OBVIOUS
  <2> QED BY <2>1, FS_Interval
<1>6. Cardinality(N \ H) \in Nat /\ Cardinality(N \ H) < Cardinality(0 .. m)
  <2>1. Cardinality(N \ H) \in Nat
    BY FS_CardinalityType
  <2> QED BY <1>5, <2>1
<1>7. g \in [0 .. m -> N \ H]
  BY <1>1, <1>2
<1>8. PICK i \in 0 .. m, j \in 0 .. m : i # j /\ g[i] = g[j]
  <2> DEFINE S == 0 .. m
             T == N \ H
  <2>1. IsFiniteSet(S) /\ IsFiniteSet(T) /\ Cardinality(T) < Cardinality(S) /\ g \in [S -> T]
    BY <1>5, <1>6, <1>7
  <2> HIDE DEF S, T
  <2>2. \E i, j \in S : i # j /\ g[i] = g[j]
    BY <2>1, FS_PigeonHole
  <2> QED BY <2>2 DEF S
<1>9. i < j \/ j < i
  BY <1>8
<1>10. pos[g[i]] < pos[g[j]] \/ pos[g[j]] < pos[g[i]]
  BY <1>4, <1>9
<1> QED BY <1>2, <1>8, <1>10

\* Members reads exactly the nodes of the list, given enough steps.
LEMMA MembersChained ==
  ASSUME NEW N, NEW H, NEW l, NEW on, NEW pos, NEW out, Chained(l, N, H, out, on, pos),
         NEW head \in H, NEW m \in Nat, IsFiniteSet(N \ H), Cardinality(N \ H) <= m
  PROVE  Members(l, head, m) = {x \in N \ (H \cup out) : on[x] = head}
<1> DEFINE seen(g) == {g[i] : i \in {j \in 0 .. m : \A h \in 0 .. j : g[h] # head}}
           listed == {x \in N \ (H \cup out) : on[x] = head}
<1>1. ASSUME NEW g, Walk(l.n, l.n[head], m, g) PROVE seen(g) = listed
  <2>1. /\ g[0] = l.n[head]
        /\ \A i \in 0 .. m : g[i] \in N \ out /\ on[g[i]] = head
        /\ \A i \in 0 .. m : i < m => g[i + 1] = l.n[g[i]]
    BY <1>1, WalkStays
  <2>2. \A i \in 0 .. m : g[i] \in H => g[i] = head
    BY <2>1 DEF Chained
  <2>3. seen(g) \subseteq listed
    BY <2>1, <2>2
  <2> DEFINE S == {i \in 0 .. m : g[i] = head}
  <2>4. PICK e \in S : \A i \in S : e <= i
    <3>1. S \in SUBSET Nat /\ S # {}
      <4>1. \E i \in 0 .. m : g[i] = head
        BY <1>1, WalkReturns
      <4> QED BY <4>1
    <3> HIDE DEF S
    <3> QED BY <3>1, LeastNatural
  <2>5. e \in 0 .. m /\ g[e] = head /\ \A i \in 0 .. m : i < e => g[i] \in seen(g)
    <3>1. ASSUME NEW i \in 0 .. m, i < e PROVE \A h \in 0 .. i : g[h] # head
      <4> SUFFICES ASSUME NEW h \in 0 .. i, g[h] = head PROVE FALSE
        OBVIOUS
      <4>1. h \in S /\ h < e
        BY <3>1
      <4> QED BY <2>4, <4>1
    <3> QED BY <2>4, <3>1
  <2>6. ASSUME NEW x \in seen(g) PROVE \E i \in 0 .. m : i < e /\ x = g[i]
    <3>1. PICK i \in 0 .. m : x = g[i] /\ \A h \in 0 .. i : g[h] # head
      BY <2>6
    <3>2. i < e
      BY <2>5, <3>1
    <3> QED BY <3>1, <3>2
  <2> SUFFICES ASSUME listed \ seen(g) # {} PROVE FALSE
    BY <2>3
  <2> DEFINE T == {pos[y] : y \in listed \ seen(g)}
  <2>7. PICK t \in T : \A u \in T : t <= u
    <3>1. T \in SUBSET Nat /\ T # {}
      BY DEF Chained
    <3> HIDE DEF T
    <3> QED BY <3>1, LeastNatural
  <2>8. PICK y \in listed \ seen(g) : t = pos[y]
    BY <2>7
  <2>9. /\ l.p[y] \in N \ out /\ l.n[l.p[y]] = y /\ on[l.p[y]] = head
        /\ pos[l.p[y]] < pos[y] /\ y # head
        /\ pos[y] \in Nat /\ pos[l.p[y]] \in Nat
    BY <2>8 DEF Chained, ListMemory
  <2>10. CASE l.p[y] = head
    <3>1. 0 < e /\ g[0] = y
      BY <2>1, <2>5, <2>9, <2>10
    <3> QED BY <2>5, <2>8, <3>1
  <2>11. CASE l.p[y] # head
    <3>1. l.p[y] \in listed
      BY <2>9, <2>11 DEF Chained
    <3>2. l.p[y] \in seen(g)
      <4> HIDE DEF listed, seen
      <4> QED BY <2>7, <2>8, <2>9, <3>1
    <3>3. PICK i \in 0 .. m : i < e /\ l.p[y] = g[i]
      BY <2>6, <3>2
    <3>4. i + 1 \in 0 .. m /\ i < m /\ i + 1 <= e /\ g[i + 1] = y
      BY <2>1, <2>5, <2>9, <3>3
    <3>5. i + 1 # e
      BY <2>5, <2>9, <3>4
    <3>6. i + 1 < e
      BY <2>5, <3>4, <3>5
    <3> QED BY <2>5, <2>8, <3>4, <3>6
  <2> QED BY <2>10, <2>11
<1> DEFINE node == CHOOSE g : Walk(l.n, l.n[head], m, g)
<1>2. Walk(l.n, l.n[head], m, node)
  BY WalkExists
<1>3. Members(l, head, m) = seen(node)
  BY DEF Members, Walk
<1> HIDE DEF seen, node, listed
<1>4. seen(node) = listed
  BY <1>1, <1>2
<1> QED BY <1>3, <1>4 DEF listed
=============================================================================
