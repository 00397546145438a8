--------------------------- MODULE DevTableProofs ---------------------------
(***************************************************************************)
(* Theorems about the device table, for any number of paths, devices,      *)
(* holders and frames, and any limit.                                      *)
(***************************************************************************)

EXTENDS DevTable, ListProofs, SequenceTheorems

-----------------------------------------------------------------------------
(* The lru list                                                            *)

NoDups(s) == \A i, j \in DOMAIN s : s[i] = s[j] => i = j
Precedes(s, x, y) == \E i, j \in DOMAIN s : i <= j /\ s[i] = x /\ s[j] = y

\* The first place of a list where there is something.
LEMMA FirstPlace ==
  ASSUME NEW n \in Nat, NEW I \in SUBSET (1 .. n), I # {}
  PROVE  Min(I) \in I /\ \A i \in I : Min(I) <= i
<1>1. \E m \in I : \A i \in I : m <= i
  BY LeastNatural
<1> QED BY <1>1 DEF Min

LEMMA Removed ==
  ASSUME NEW S, NEW s \in Seq(S), NoDups(s), NEW d \in Range(s), NEW t, t = RemoveFirst(s, d)
  PROVE  /\ t \in Seq(S) /\ NoDups(t) /\ Len(t) = Len(s) - 1 /\ Range(t) = Range(s) \ {d}
         /\ \A x, y : Precedes(t, x, y) => Precedes(s, x, y)
<1>1. Len(s) \in Nat /\ DOMAIN s = 1 .. Len(s) /\ \A i \in 1 .. Len(s) : s[i] \in S
  BY LenProperties, ElementOfSeq
<1>2. PICK k \in 1 .. Len(s) : s[k] = d
  BY <1>1 DEF Range
<1>3. t = RemoveAt(s, k)
  <2> DEFINE I == {i \in 1 .. Len(s) : s[i] = d}
  <2>1. I # {} /\ I \in SUBSET (1 .. Len(s))
    BY <1>2
  <2>2. Min(I) = k
    <3>1. \A i \in I : i = k
      BY <1>1, <1>2 DEF NoDups
    <3> HIDE DEF I
    <3> QED BY <1>1, <2>1, <3>1, FirstPlace
  <2>3. t = RemoveAt(s, Min(I))
    BY <1>2 DEF RemoveFirst, SelectInSeq
  <2> HIDE DEF I
  <2> QED BY <2>2, <2>3
<1> DEFINE a == SubSeq(s, 1, k - 1)
           b == SubSeq(s, k + 1, Len(s))
<1>4. k \in Nat /\ k >= 1 /\ k <= Len(s)
  BY <1>1
<1>5. a \in Seq(S) /\ Len(a) = k - 1 /\ \A i \in 1 .. k - 1 : a[i] = s[i]
  <2>1. /\ 1 \in Int /\ k - 1 \in Int /\ \A i \in 1 .. k - 1 : s[i] \in S
    BY <1>1, <1>4
  <2>2. /\ a \in Seq(S) /\ Len(a) = IF 1 <= k - 1 THEN (k - 1) - 1 + 1 ELSE 0
        /\ \A i \in 1 .. (k - 1) - 1 + 1 : a[i] = s[1 + i - 1]
    BY <2>1, SubSeqProperties
  <2> HIDE DEF a
  <2> QED BY <1>4, <2>2
<1>6. b \in Seq(S) /\ Len(b) = Len(s) - k /\ \A i \in 1 .. Len(s) - k : b[i] = s[k + i]
  <2>1. /\ k + 1 \in Int /\ Len(s) \in Int /\ \A i \in k + 1 .. Len(s) : s[i] \in S
    BY <1>1, <1>4
  <2>2. /\ b \in Seq(S) /\ Len(b) = IF k + 1 <= Len(s) THEN Len(s) - (k + 1) + 1 ELSE 0
        /\ \A i \in 1 .. Len(s) - (k + 1) + 1 : b[i] = s[(k + 1) + i - 1]
    BY <2>1, SubSeqProperties
  <2>3. Len(s) - (k + 1) + 1 = Len(s) - k /\ \A i \in 1 .. Len(s) - k : (k + 1) + i - 1 = k + i
    BY <1>1, <1>4
  <2> HIDE DEF b
  <2>4. Len(b) = Len(s) - k
    <3> DEFINE n == Len(s)
    <3>1. n \in Nat /\ k <= n /\ Len(b) = IF k + 1 <= n THEN n - (k + 1) + 1 ELSE 0
      BY <1>1, <1>4, <2>2
    <3> HIDE DEF n
    <3>2. Len(b) = n - k
      BY <1>4, <3>1
    <3> QED BY <3>2 DEF n
  <2>5. \A i \in 1 .. Len(s) - k : b[i] = s[(k + 1) + i - 1]
    BY <2>2, <2>3
  <2> QED BY <2>2, <2>3, <2>4, <2>5
<1>7. /\ t \in Seq(S) /\ Len(t) = Len(s) - 1
      /\ \A i \in 1 .. Len(s) - 1 : t[i] = IF i < k THEN s[i] ELSE s[i + 1]
  <2>1. t = a \o b
    BY <1>3 DEF RemoveAt
  <2> HIDE DEF a, b
  <2>2. /\ t \in Seq(S) /\ Len(t) = (k - 1) + (Len(s) - k)
        /\ \A i \in 1 .. (k - 1) + (Len(s) - k) :
             t[i] = IF i <= k - 1 THEN a[i] ELSE b[i - (k - 1)]
    <3>1. /\ t \in Seq(S) /\ Len(t) = Len(a) + Len(b)
          /\ \A i \in 1 .. Len(a) + Len(b) : t[i] = IF i <= Len(a) THEN a[i] ELSE b[i - Len(a)]
      BY <1>5, <1>6, <2>1, ConcatProperties
    <3> QED BY <1>5, <1>6, <3>1
  <2>3. (k - 1) + (Len(s) - k) = Len(s) - 1
    BY <1>1, <1>4
  <2>4. ASSUME NEW i \in 1 .. Len(s) - 1 PROVE t[i] = IF i < k THEN s[i] ELSE s[i + 1]
    <3>1. CASE i < k
      <4>1. i <= k - 1 /\ i \in 1 .. k - 1
        BY <1>1, <1>4, <3>1
      <4> QED BY <1>5, <2>2, <2>3, <3>1, <4>1
    <3>2. CASE ~(i < k)
      <4>1. ~(i <= k - 1) /\ i - (k - 1) \in 1 .. Len(s) - k /\ k + (i - (k - 1)) = i + 1
        BY <1>1, <1>4, <3>2
      <4> QED BY <1>6, <2>2, <2>3, <3>2, <4>1
    <3> QED BY <3>1, <3>2
  <2> QED BY <2>2, <2>3, <2>4
<1> DEFINE from(i) == IF i < k THEN i ELSE i + 1
<1>8. DOMAIN t = 1 .. Len(s) - 1
  BY <1>7, LenProperties
<1>9. /\ \A i \in DOMAIN t : from(i) \in DOMAIN s /\ from(i) # k /\ t[i] = s[from(i)]
      /\ \A i, j \in DOMAIN t : i <= j <=> from(i) <= from(j)
      /\ \A i, j \in DOMAIN t : from(i) = from(j) => i = j
      /\ \A n \in DOMAIN s : n # k => \E i \in DOMAIN t : from(i) = n
  <2>1. \A i \in DOMAIN t : from(i) \in DOMAIN s /\ from(i) # k /\ t[i] = s[from(i)]
    BY <1>1, <1>4, <1>7, <1>8
  <2>2. \A i, j \in DOMAIN t : (i <= j <=> from(i) <= from(j)) /\ (from(i) = from(j) => i = j)
    BY <1>1, <1>4, <1>8
  <2>3. ASSUME NEW n \in DOMAIN s, n # k PROVE \E i \in DOMAIN t : from(i) = n
    <3>1. CASE n < k
      <4>1. n \in DOMAIN t
        BY <1>1, <1>4, <1>8, <3>1
      <4> QED BY <3>1, <4>1
    <3>2. CASE n > k
      <4>1. n - 1 \in DOMAIN t /\ ~(n - 1 < k) /\ (n - 1) + 1 = n
        BY <1>1, <1>4, <1>8, <3>2
      <4> QED BY <4>1
    <3> QED BY <1>1, <1>4, <2>3, <3>1, <3>2
  <2> QED BY <2>1, <2>2, <2>3
<1> HIDE DEF from
<1>10. NoDups(t)
  BY <1>9 DEF NoDups
<1>11. Range(t) = Range(s) \ {d}
  <2>1. \A n \in DOMAIN s : s[n] = d => n = k
    BY <1>1, <1>2 DEF NoDups
  <2>2. \A x \in Range(t) : x \in Range(s) \ {d}
    BY <1>9, <2>1 DEF Range
  <2>3. ASSUME NEW x \in Range(s) \ {d} PROVE x \in Range(t)
    <3>1. PICK n \in DOMAIN s : s[n] = x
      BY DEF Range
    <3>2. PICK i \in DOMAIN t : from(i) = n
      BY <1>2, <1>9, <3>1
    <3> QED BY <1>9, <3>1, <3>2 DEF Range
  <2> QED BY <2>2, <2>3
<1>12. \A x, y : Precedes(t, x, y) => Precedes(s, x, y)
  BY <1>9 DEF Precedes
<1> QED BY <1>7, <1>10, <1>11, <1>12

WithLast(s, d) == Append(s, d)

LEMMA Added ==
  ASSUME NEW S, NEW s \in Seq(S), NoDups(s), NEW d \in S, d \notin Range(s), NEW t, t = WithLast(s, d)
  PROVE  /\ t \in Seq(S) /\ NoDups(t) /\ Len(t) = Len(s) + 1 /\ Range(t) = Range(s) \cup {d}
         /\ \A x, y : Precedes(t, x, y) => Precedes(s, x, y) \/ y = d
<1>1. /\ Len(s) \in Nat /\ DOMAIN s = 1 .. Len(s) /\ t \in Seq(S) /\ Len(t) = Len(s) + 1
      /\ DOMAIN t = 1 .. Len(s) + 1
      /\ t[Len(s) + 1] = d /\ \A i \in DOMAIN s : t[i] = s[i]
  BY LenProperties, AppendProperties DEF WithLast
<1>2. /\ \A i \in DOMAIN t : i \in DOMAIN s \/ i = Len(s) + 1
      /\ \A i \in DOMAIN s : i \in DOMAIN t /\ s[i] # d
      /\ Len(s) + 1 \in DOMAIN t
  BY <1>1 DEF Range
<1>3. NoDups(t)
  BY <1>1, <1>2 DEF NoDups
<1>4. Range(t) = Range(s) \cup {d}
  BY <1>1, <1>2 DEF Range
<1>5. \A x, y : Precedes(t, x, y) => Precedes(s, x, y) \/ y = d
  <2> SUFFICES ASSUME NEW i \in DOMAIN t, NEW j \in DOMAIN t, i <= j, t[j] # d
               PROVE  i \in DOMAIN s /\ j \in DOMAIN s
    BY <1>1 DEF Precedes
  <2>1. j \in DOMAIN s
    BY <1>1, <1>2
  <2> QED BY <1>1, <2>1
<1> QED BY <1>1, <1>3, <1>4, <1>5

-----------------------------------------------------------------------------
(* What holds of an io manager m, between the calls and within them        *)

Managers ==
  [devs : [Idevs -> DevRecords \cup {Closed}], dev_tree : [Paths -> Idevs \cup {NoDev}],
   dev_lru : Seq(Idevs), nr_open : Nat, nr_fds : Nat,
   frames : [Frames -> FrameRecords \cup {Free}]]

OpenIn(m) == {d \in Idevs : m.devs[d] # Closed}

\* The tree, the lru list and the counts agree on what is open.
TableIn(m) ==
  /\ m \in Managers
  /\ \A p \in Paths, d \in Idevs : m.dev_tree[p] = d <=> d \in OpenIn(m) /\ m.devs[d].path = p
  /\ NoDups(m.dev_lru) /\ Range(m.dev_lru) = OpenIn(m) /\ Len(m.dev_lru) = m.nr_open
  /\ m.nr_open = Cardinality(OpenIn(m)) /\ m.nr_fds = m.nr_open /\ m.nr_open <= max_cache_devs

Holders(m, d) == IF m.devs[d] = Closed THEN 0 ELSE m.devs[d].holders
Blocks(m, d) == IF m.devs[d] = Closed THEN 0 ELSE m.devs[d].blocks

\* A device counts its blocks in the tree, and closes with the last of them
\* when nobody holds it.
CountedIn(m) == \A d \in Idevs : Blocks(m, d) = Cardinality(InTree(m, d))
InUse(m) == \A d \in OpenIn(m) : m.devs[d].holders + m.devs[d].blocks > 0

\* r is m but for the device d.
OthersSame(m, r, d) == \A e \in Idevs \ {d} : r.devs[e] = m.devs[e]
LruKept(m, r) == \A x, y : Precedes(r.dev_lru, x, y) => Precedes(m.dev_lru, x, y)

-----------------------------------------------------------------------------
(* Closing a device                                                        *)

\* The record of a device may change, but for the path.
WithDev(m, d, rec) == [m EXCEPT !.devs[d] = rec]

LEMMA Rewritten ==
  ASSUME NEW m, TableIn(m), NEW d \in OpenIn(m), NEW rec \in DevRecords,
         rec.path = m.devs[d].path, NEW r, r = WithDev(m, d, rec)
  PROVE  /\ TableIn(r) /\ OpenIn(r) = OpenIn(m)
         /\ r.devs[d] = rec /\ r.frames = m.frames /\ r.nr_open = m.nr_open
         /\ OthersSame(m, r, d) /\ LruKept(m, r)
<1>1. m \in Managers /\ d \in Idevs
  BY DEF TableIn, OpenIn
<1>2. /\ r.devs = [m.devs EXCEPT ![d] = rec]
      /\ r.frames = m.frames /\ r.dev_tree = m.dev_tree /\ r.dev_lru = m.dev_lru
      /\ r.nr_open = m.nr_open /\ r.nr_fds = m.nr_fds
      /\ r = [m EXCEPT !.devs[d] = rec]
  BY <1>1 DEF Managers, WithDev
<1>3. rec # Closed
  BY DevAssumption
<1>4. r \in Managers
  <2>1. r.devs \in [Idevs -> DevRecords \cup {Closed}]
    BY <1>1, <1>2 DEF Managers
  <2> QED BY <1>1, <1>2, <2>1 DEF Managers
<1>5. m.devs \in [Idevs -> DevRecords \cup {Closed}]
  BY <1>1 DEF Managers
<1>6. /\ OpenIn(r) = OpenIn(m) /\ r.devs[d] = rec
      /\ \A e \in Idevs : e # d => r.devs[e] = m.devs[e]
  BY <1>1, <1>2, <1>3, <1>5 DEF OpenIn
<1>7. TableIn(r)
  BY <1>2, <1>4, <1>6 DEF TableIn
<1> QED BY <1>2, <1>6, <1>7 DEF OthersSame, LruKept

WithoutDev(m, d) ==
  [m EXCEPT !.devs[d] = Closed,
            !.dev_tree[m.devs[d].path] = NoDev,
            !.dev_lru = RemoveFirst(@, d),
            !.nr_open = @ - 1,
            !.nr_fds = @ - 1]

LEMMA Closes ==
  ASSUME NEW m, TableIn(m), NEW d \in OpenIn(m), NEW r, r = WithoutDev(m, d)
  PROVE  /\ TableIn(r) /\ r.devs[d] = Closed
         /\ r.frames = m.frames /\ r.nr_open = m.nr_open - 1
         /\ OthersSame(m, r, d) /\ LruKept(m, r)
<1>1. m \in Managers /\ d \in Idevs /\ d \in Range(m.dev_lru)
  BY DEF TableIn, OpenIn
<1>2. /\ r.devs = [m.devs EXCEPT ![d] = Closed]
      /\ r.dev_tree = [m.dev_tree EXCEPT ![m.devs[d].path] = NoDev]
      /\ r.dev_lru = RemoveFirst(m.dev_lru, d)
      /\ r.nr_open = m.nr_open - 1 /\ r.nr_fds = m.nr_fds - 1 /\ r.frames = m.frames
      /\ DOMAIN r = DOMAIN m /\ r = [f \in DOMAIN m |-> r[f]]
  BY <1>1 DEF Managers, WithoutDev
<1>3. /\ m.devs \in [Idevs -> DevRecords \cup {Closed}]
      /\ m.dev_tree \in [Paths -> Idevs \cup {NoDev}]
      /\ m.dev_lru \in Seq(Idevs) /\ NoDups(m.dev_lru) /\ m.nr_open \in Nat
  BY DEF TableIn, Managers
<1>4. m.devs[d] \in DevRecords /\ m.devs[d].path \in Paths
  BY <1>1, <1>3 DEF OpenIn, DevRecords
<1>5. /\ r.dev_lru \in Seq(Idevs) /\ NoDups(r.dev_lru) /\ Len(r.dev_lru) = Len(m.dev_lru) - 1
      /\ Range(r.dev_lru) = Range(m.dev_lru) \ {d} /\ LruKept(m, r)
  BY <1>1, <1>2, <1>3, Removed DEF LruKept
<1>6. /\ r.devs[d] = Closed /\ \A e \in Idevs : e # d => r.devs[e] = m.devs[e]
      /\ OpenIn(r) = OpenIn(m) \ {d}
  BY <1>1, <1>2, <1>3 DEF OpenIn
<1>7. IsFiniteSet(OpenIn(m))
  BY DevAssumption, FS_Subset DEF OpenIn
<1>8. /\ Cardinality(OpenIn(r)) = Cardinality(OpenIn(m)) - 1
      /\ Cardinality(OpenIn(r)) \in Nat
  BY <1>6, <1>7, FS_RemoveElement, FS_CardinalityType
<1>9. /\ r.nr_open = Cardinality(OpenIn(r)) /\ r.nr_fds = r.nr_open
      /\ r.nr_open \in Nat /\ r.nr_fds \in Nat /\ r.nr_open <= max_cache_devs
      /\ Len(r.dev_lru) = r.nr_open
  <2>1. m.nr_open = Cardinality(OpenIn(m)) /\ m.nr_fds = m.nr_open
        /\ m.nr_open <= max_cache_devs /\ Len(m.dev_lru) = m.nr_open
    BY DEF TableIn
  <2>2. max_cache_devs \in Nat
    BY DevAssumption
  <2> QED BY <1>2, <1>3, <1>5, <1>8, <2>1, <2>2
<1>10. \A p \in Paths, e \in Idevs : r.dev_tree[p] = e <=> e \in OpenIn(r) /\ r.devs[e].path = p
  <2> TAKE p \in Paths, e \in Idevs
  <2>1. NoDev # e
    BY DevAssumption
  <2>2. m.dev_tree[p] = e <=> e \in OpenIn(m) /\ m.devs[e].path = p
    BY DEF TableIn
  <2>3. m.dev_tree[m.devs[d].path] = d
    BY <1>1, <1>4 DEF TableIn
  <2>4. CASE p = m.devs[d].path
    <3>1. r.dev_tree[p] = NoDev
      BY <1>2, <1>3, <1>4, <2>4
    <3>2. m.dev_tree[p] = d
      BY <2>3, <2>4
    <3> QED BY <1>6, <2>1, <2>2, <3>1, <3>2
  <2>5. CASE p # m.devs[d].path
    <3>1. r.dev_tree[p] = m.dev_tree[p]
      BY <1>2, <1>3, <2>5
    <3> QED BY <1>6, <2>2, <2>5, <3>1
  <2> QED BY <2>4, <2>5
<1>11. r \in Managers
  <2>1. r.devs \in [Idevs -> DevRecords \cup {Closed}]
    BY <1>2, <1>3
  <2>2. r.dev_tree \in [Paths -> Idevs \cup {NoDev}]
    BY <1>2, <1>3
  <2> QED BY <1>1, <1>2, <1>5, <1>9, <2>1, <2>2 DEF Managers
<1>12. TableIn(r)
  <2>1. Range(r.dev_lru) = OpenIn(r)
    BY <1>5, <1>6 DEF TableIn
  <2> QED BY <1>5, <1>9, <1>10, <1>11, <2>1 DEF TableIn
<1> QED BY <1>2, <1>5, <1>6, <1>12 DEF OthersSame

LEMMA MaybeCloses ==
  ASSUME NEW m, TableIn(m), NEW d \in OpenIn(m), NEW r, r = _dev_maybe_close(m, d)
  PROVE  /\ TableIn(r) /\ r.frames = m.frames /\ OthersSame(m, r, d) /\ LruKept(m, r)
         /\ IF m.devs[d].holders = 0 /\ m.devs[d].blocks = 0
            THEN r.devs[d] = Closed /\ r.nr_open = m.nr_open - 1
            ELSE r = m
<1>1. m.devs[d].holders \in Nat /\ m.devs[d].blocks \in Nat
  <2>1. m.devs[d] \in DevRecords
    BY DEF TableIn, Managers, OpenIn
  <2> QED BY <2>1 DEF DevRecords
<1>2. CASE m.devs[d].holders > 0 \/ m.devs[d].blocks > 0
  <2>1. r = m
    BY <1>2 DEF _dev_maybe_close
  <2> QED BY <1>1, <1>2, <2>1 DEF OthersSame, LruKept
<1>3. CASE ~(m.devs[d].holders > 0 \/ m.devs[d].blocks > 0)
  <2>1. r = WithoutDev(m, d)
    BY <1>3 DEF _dev_maybe_close, WithoutDev
  <2>2. m.devs[d].holders = 0 /\ m.devs[d].blocks = 0
    BY <1>1, <1>3
  <2>3. /\ TableIn(r) /\ r.devs[d] = Closed
        /\ r.frames = m.frames /\ r.nr_open = m.nr_open - 1
        /\ OthersSame(m, r, d) /\ LruKept(m, r)
    BY <2>1, Closes
  <2> QED BY <2>2, <2>3
<1> QED BY <1>2, <1>3

WithHolders(rec, n) == [rec EXCEPT !.holders = n]
WithBlocks(rec, n) == [rec EXCEPT !.blocks = n]

LEMMA DecHolders ==
  ASSUME NEW m, TableIn(m), NEW d \in OpenIn(m), m.devs[d].holders > 0, NEW r, r = _dec_holders(m, d)
  PROVE  /\ TableIn(r) /\ r.frames = m.frames /\ OthersSame(m, r, d) /\ LruKept(m, r)
         /\ IF m.devs[d].holders = 1 /\ m.devs[d].blocks = 0
            THEN r.devs[d] = Closed /\ r.nr_open = m.nr_open - 1
            ELSE /\ r.devs[d] = WithHolders(m.devs[d], m.devs[d].holders - 1)
                 /\ r.nr_open = m.nr_open
<1>1. m.devs[d] \in DevRecords /\ m \in Managers /\ d \in Idevs
  BY DEF TableIn, Managers, OpenIn
<1>2. m.devs[d].holders \in Nat \ {0} /\ m.devs[d].blocks \in Nat
  BY <1>1 DEF DevRecords
<1> DEFINE rec == [m.devs[d] EXCEPT !.holders = @ - 1]
           n == [m EXCEPT !.devs[d] = rec]
<1>3. /\ rec \in DevRecords /\ rec.path = m.devs[d].path
      /\ rec.holders = m.devs[d].holders - 1 /\ rec.blocks = m.devs[d].blocks
  BY <1>1, <1>2 DEF DevRecords
<1>4. r = _dev_maybe_close(n, d)
  <2>1. n = [m EXCEPT !.devs[d].holders = @ - 1]
    BY <1>1 DEF Managers
  <2>2. m.devs[d] # Closed /\ m.devs[d].holders # 0
    BY <1>2 DEF OpenIn
  <2> QED BY <2>1, <2>2 DEF _dec_holders
<1>n. n = WithDev(m, d, rec)
  BY DEF WithDev
<1> HIDE DEF rec, n
<1>5. /\ TableIn(n) /\ OpenIn(n) = OpenIn(m) /\ n.devs[d] = rec
      /\ n.frames = m.frames /\ n.nr_open = m.nr_open
      /\ OthersSame(m, n, d) /\ LruKept(m, n)
  <2>1. TableIn(m) /\ d \in OpenIn(m) /\ rec \in DevRecords /\ rec.path = m.devs[d].path
    BY <1>3
  <2> QED BY ONLY <2>1, <1>n, Rewritten
<1>6. /\ TableIn(r) /\ r.frames = n.frames /\ OthersSame(n, r, d) /\ LruKept(n, r)
      /\ IF n.devs[d].holders = 0 /\ n.devs[d].blocks = 0
         THEN r.devs[d] = Closed /\ r.nr_open = n.nr_open - 1
         ELSE r = n
  BY <1>4, <1>5, MaybeCloses
<1>7. OthersSame(m, r, d) /\ LruKept(m, r)
  BY <1>5, <1>6 DEF OthersSame, LruKept
<1>8. rec.holders = 0 <=> m.devs[d].holders = 1
  BY <1>2, <1>3
<1> QED BY <1>3, <1>5, <1>6, <1>7, <1>8 DEF rec, WithHolders

LEMMA DecBlocks ==
  ASSUME NEW m, TableIn(m), NEW d \in OpenIn(m), NEW n \in Nat, n <= m.devs[d].blocks,
         NEW r, r = _dec_blocks(m, d, n)
  PROVE  /\ TableIn(r) /\ r.frames = m.frames /\ OthersSame(m, r, d) /\ LruKept(m, r)
         /\ IF n # 0 /\ m.devs[d].holders = 0 /\ m.devs[d].blocks = n
            THEN r.devs[d] = Closed /\ r.nr_open = m.nr_open - 1
            ELSE /\ r.devs[d] = WithBlocks(m.devs[d], m.devs[d].blocks - n)
                 /\ r.nr_open = m.nr_open
<1>1. m.devs[d] \in DevRecords /\ m \in Managers /\ d \in Idevs
  BY DEF TableIn, Managers, OpenIn
<1>2. m.devs[d].holders \in Nat /\ m.devs[d].blocks \in Nat
  BY <1>1 DEF DevRecords
<1> DEFINE rec == [m.devs[d] EXCEPT !.blocks = @ - n]
           k == [m EXCEPT !.devs[d] = rec]
<1>3. /\ rec \in DevRecords /\ rec.path = m.devs[d].path
      /\ rec.holders = m.devs[d].holders /\ rec.blocks = m.devs[d].blocks - n
  BY <1>1, <1>2 DEF DevRecords
<1>4. CASE n = 0
  <2>1. r = m
    BY <1>4 DEF _dec_blocks
  <2>2. rec = m.devs[d]
    BY <1>1, <1>2, <1>4 DEF DevRecords
  <2> QED BY <1>4, <2>1, <2>2 DEF OthersSame, LruKept, WithBlocks
<1>5. CASE n # 0
  <2>1. r = _dev_maybe_close(k, d)
    <3>1. k = [m EXCEPT !.devs[d].blocks = @ - n]
      BY <1>1 DEF Managers
    <3> QED BY <1>5, <3>1 DEF _dec_blocks
  <2>k. k = WithDev(m, d, rec)
    BY DEF WithDev
  <2> HIDE DEF rec, k
  <2>2. /\ TableIn(k) /\ OpenIn(k) = OpenIn(m) /\ k.devs[d] = rec
        /\ k.frames = m.frames /\ k.nr_open = m.nr_open
        /\ OthersSame(m, k, d) /\ LruKept(m, k)
    <3> HIDE DEF k
    <3> QED BY <1>3, <2>k, Rewritten
  <2>3. /\ TableIn(r) /\ r.frames = k.frames /\ OthersSame(k, r, d) /\ LruKept(k, r)
        /\ IF k.devs[d].holders = 0 /\ k.devs[d].blocks = 0
           THEN r.devs[d] = Closed /\ r.nr_open = k.nr_open - 1
           ELSE r = k
    BY <2>1, <2>2, MaybeCloses
  <2>4. OthersSame(m, r, d) /\ LruKept(m, r)
    BY <2>2, <2>3 DEF OthersSame, LruKept
  <2>5. rec.blocks = 0 <=> m.devs[d].blocks = n
    BY <1>2, <1>3
  <2> QED BY <1>3, <1>5, <2>2, <2>3, <2>4, <2>5 DEF rec, WithBlocks
<1> QED BY <1>4, <1>5

-----------------------------------------------------------------------------
(* Emptying a device                                                       *)

Sound(m) == TableIn(m) /\ CountedIn(m)

\* Devices that lose frames are not held by anyone else, and frames only stay in
\* use when they are held or could not be written.
FramesEffect(m, r, D) ==
  \A f \in Frames : r.frames[f] # Free =>
    /\ m.frames[f] # Free /\ r.frames[f].dev = m.frames[f].dev
    /\ r.frames[f].ref = m.frames[f].ref /\ (r.frames[f].dirty => m.frames[f].dirty)
    /\ \/ r.frames[f] = m.frames[f]
       \/ m.frames[f].dev \in D /\ (m.frames[f].ref \/ "write" \in Faults)

LEMMA TreeIsFinite ==
  ASSUME NEW m, NEW d
  PROVE  IsFiniteSet(InTree(m, d)) /\ Cardinality(InTree(m, d)) \in Nat
<1>1. InTree(m, d) \in SUBSET Frames
  BY DEF InTree
<1> QED BY <1>1, DevAssumption, FS_Subset, FS_CardinalityType

\* Once its frames have left the tree, the count of a device drops to what is
\* left of it there.
LEMMA CountedAgain ==
  ASSUME NEW m, TableIn(m), NEW d \in OpenIn(m), NEW n \in Nat,
         m.devs[d].blocks = Cardinality(InTree(m, d)) + n,
         \A e \in Idevs \ {d} : Blocks(m, e) = Cardinality(InTree(m, e)),
         n # 0 \/ m.devs[d].holders + m.devs[d].blocks > 0,
         NEW r, r = _dec_blocks(m, d, n)
  PROVE  /\ Sound(r) /\ r.frames = m.frames /\ OthersSame(m, r, d) /\ LruKept(m, r)
         /\ IF m.devs[d].holders = 0 /\ Cardinality(InTree(m, d)) = 0
            THEN r.devs[d] = Closed /\ r.nr_open = m.nr_open - 1
            ELSE /\ r.devs[d] = WithBlocks(m.devs[d], Cardinality(InTree(m, d)))
                 /\ r.nr_open = m.nr_open
<1> DEFINE c == Cardinality(InTree(m, d))
<1>1. m.devs[d] \in DevRecords /\ d \in Idevs /\ m.devs[d] # Closed
  BY DEF TableIn, Managers, OpenIn
<1>2. m.devs[d].holders \in Nat /\ m.devs[d].blocks \in Nat /\ c \in Nat
  BY <1>1, TreeIsFinite DEF DevRecords
<1> HIDE DEF c
<1>3. /\ m.devs[d].blocks = c + n /\ n <= m.devs[d].blocks
  BY <1>2 DEF c
<1>4. /\ TableIn(r) /\ r.frames = m.frames /\ OthersSame(m, r, d) /\ LruKept(m, r)
      /\ IF n # 0 /\ m.devs[d].holders = 0 /\ m.devs[d].blocks = n
         THEN r.devs[d] = Closed /\ r.nr_open = m.nr_open - 1
         ELSE /\ r.devs[d] = WithBlocks(m.devs[d], m.devs[d].blocks - n)
              /\ r.nr_open = m.nr_open
  BY <1>3, DecBlocks
<1>5. \A e : InTree(r, e) = InTree(m, e)
  BY <1>4 DEF InTree
<1>6. (n # 0 /\ m.devs[d].holders = 0 /\ m.devs[d].blocks = n) <=> (m.devs[d].holders = 0 /\ c = 0)
  BY <1>2, <1>3
<1>7. m.devs[d].blocks - n = c
  BY <1>2, <1>3
<1>8. IF m.devs[d].holders = 0 /\ c = 0
      THEN r.devs[d] = Closed /\ r.nr_open = m.nr_open - 1
      ELSE r.devs[d] = WithBlocks(m.devs[d], c) /\ r.nr_open = m.nr_open
  BY <1>4, <1>6, <1>7
<1>9. Blocks(r, d) = c
  <2>1. CASE m.devs[d].holders = 0 /\ c = 0
    BY <1>8, <2>1 DEF Blocks
  <2>2. CASE ~(m.devs[d].holders = 0 /\ c = 0)
    <3>1. r.devs[d].blocks = c /\ r.devs[d] \in DevRecords
      BY <1>1, <1>2, <1>8, <2>2 DEF DevRecords, WithBlocks
    <3> QED BY <3>1, DevAssumption DEF Blocks
  <2> QED BY <2>1, <2>2
<1>10. CountedIn(r)
  <2> SUFFICES ASSUME NEW e \in Idevs PROVE Blocks(r, e) = Cardinality(InTree(r, e))
    BY DEF CountedIn
  <2>1. CASE e = d
    BY <1>5, <1>9, <2>1 DEF c
  <2>2. CASE e # d
    <3>1. Blocks(r, e) = Blocks(m, e)
      BY <1>4, <2>2 DEF OthersSame, Blocks
    <3> QED BY <1>5, <2>2, <3>1
  <2> QED BY <2>1, <2>2
<1> QED BY <1>4, <1>8, <1>10 DEF Sound, c

LEMMA Invalidated ==
  ASSUME NEW m, Sound(m), NEW d \in OpenIn(m), m.devs[d].holders + m.devs[d].blocks > 0,
         NEW failed \in Failures(m, d), NEW r, r = _invalidate_dev(m, d, failed)
  PROVE  /\ Sound(r) /\ OthersSame(m, r, d) /\ LruKept(m, r) /\ InTree(r, d) = {}
         /\ FramesEffect(m, r, {d})
         /\ r.devs[d] = IF m.devs[d].holders = 0 THEN Closed ELSE WithBlocks(m.devs[d], 0)
<1> DEFINE visited == InTree(m, d)
           kept == {f \in visited : m.frames[f].ref \/ f \in failed}
           frame(f) == IF f \in visited \ kept THEN Free
                       ELSE IF f \in kept
                       THEN [m.frames[f] EXCEPT !.in_tree = FALSE, !.dirty = f \in failed]
                       ELSE m.frames[f]
           n == [m EXCEPT !.frames = [f \in Frames |-> frame(f)]]
<1>1. r = _dec_blocks(n, d, Cardinality(visited))
  BY DEF _invalidate_dev
<1>2. m \in Managers /\ TableIn(m) /\ CountedIn(m) /\ d \in Idevs
  BY DEF Sound, TableIn, OpenIn
<1>3. \A f \in Frames : m.frames[f] # Free => m.frames[f] \in FrameRecords
  BY <1>2 DEF Managers
<1>4. failed \subseteq {f \in visited : m.frames[f].dirty} /\ (failed # {} => "write" \in Faults)
  BY DEF Failures
<1>5. \A f \in Frames : frame(f) # Free =>
        /\ m.frames[f] # Free /\ frame(f) \in FrameRecords
        /\ frame(f).dev = m.frames[f].dev /\ frame(f).ref = m.frames[f].ref
        /\ (frame(f).dirty => m.frames[f].dirty)
        /\ \/ frame(f) = m.frames[f] /\ f \notin visited
           \/ /\ f \in visited /\ ~frame(f).in_tree
              /\ m.frames[f].ref \/ "write" \in Faults
  <2> SUFFICES ASSUME NEW f \in Frames, frame(f) # Free
               PROVE  /\ m.frames[f] # Free /\ frame(f) \in FrameRecords
                      /\ frame(f).dev = m.frames[f].dev /\ frame(f).ref = m.frames[f].ref
                      /\ (frame(f).dirty => m.frames[f].dirty)
                      /\ \/ frame(f) = m.frames[f] /\ f \notin visited
                         \/ /\ f \in visited /\ ~frame(f).in_tree
                            /\ m.frames[f].ref \/ "write" \in Faults
    OBVIOUS
  <2>1. CASE f \in kept
    <3>1. frame(f) = [m.frames[f] EXCEPT !.in_tree = FALSE, !.dirty = f \in failed]
      BY <2>1
    <3>2. m.frames[f] # Free /\ m.frames[f] \in FrameRecords /\ f \in visited
      BY <1>3, <2>1 DEF InTree
    <3>3. /\ frame(f) \in FrameRecords /\ frame(f).dev = m.frames[f].dev
          /\ frame(f).ref = m.frames[f].ref /\ frame(f).in_tree = FALSE
          /\ frame(f).dirty = (f \in failed)
      <4>1. PICK b \in BOOLEAN : b = (f \in failed)
        <5>1. (f \in failed) = TRUE \/ (f \in failed) = FALSE
          BY SMT
        <5> QED BY <5>1, Zenon
      <4> HIDE DEF frame
      <4>2. frame(f) = [m.frames[f] EXCEPT !.in_tree = FALSE, !.dirty = b]
        BY ONLY <3>1, <4>1
      <4>3. /\ frame(f) \in FrameRecords /\ frame(f).dev = m.frames[f].dev
            /\ frame(f).ref = m.frames[f].ref /\ frame(f).in_tree = FALSE
            /\ frame(f).dirty = b
        BY ONLY <3>2, <4>2, b \in BOOLEAN DEF FrameRecords
      <4> QED BY <4>1, <4>3
    <3> QED BY <1>4, <2>1, <3>2, <3>3
  <2>2. CASE f \notin kept
    BY <1>3, <2>2
  <2> QED BY <2>1, <2>2
<1>6. \A f \in Frames : m.frames[f] # Free /\ f \notin visited => frame(f) = m.frames[f]
  OBVIOUS
<1> HIDE DEF frame
<1>7. /\ n.frames = [f \in Frames |-> frame(f)] /\ n.devs = m.devs /\ n.dev_tree = m.dev_tree
      /\ n.dev_lru = m.dev_lru /\ n.nr_open = m.nr_open /\ n.nr_fds = m.nr_fds
  BY <1>2 DEF Managers
<1>8. n \in Managers
  <2>1. [f \in Frames |-> frame(f)] \in [Frames -> FrameRecords \cup {Free}]
    BY <1>5
  <2> QED BY <1>2, <2>1 DEF Managers
<1> HIDE DEF n
<1>9. OpenIn(n) = OpenIn(m)
  BY <1>7 DEF OpenIn
<1>10. TableIn(n)
  BY <1>2, <1>7, <1>8, <1>9 DEF TableIn
<1>11. InTree(n, d) = {}
  BY <1>5, <1>7 DEF InTree
<1>12. ASSUME NEW e \in Idevs, e # d PROVE InTree(n, e) = InTree(m, e)
  <2>1. \A f \in InTree(n, e) : f \in InTree(m, e)
    BY <1>5, <1>7, <1>12 DEF InTree
  <2>2. \A f \in InTree(m, e) : f \in InTree(n, e)
    BY <1>6, <1>7, <1>12 DEF InTree
  <2> QED BY <2>1, <2>2
<1>13. /\ Cardinality(visited) \in Nat /\ Cardinality(InTree(n, d)) = 0
       /\ m.devs[d].blocks = Cardinality(visited)
  <2>1. Blocks(m, d) = Cardinality(visited)
    BY <1>2 DEF CountedIn
  <2> QED BY <1>11, <2>1, TreeIsFinite, FS_EmptySet DEF Blocks, OpenIn
<1>14. \A e \in Idevs \ {d} : Blocks(n, e) = Cardinality(InTree(n, e))
  BY <1>2, <1>7, <1>12 DEF CountedIn, Blocks
<1>15. /\ Sound(r) /\ r.frames = n.frames /\ OthersSame(n, r, d) /\ LruKept(n, r)
       /\ IF n.devs[d].holders = 0 /\ Cardinality(InTree(n, d)) = 0
          THEN r.devs[d] = Closed /\ r.nr_open = n.nr_open - 1
          ELSE /\ r.devs[d] = WithBlocks(n.devs[d], Cardinality(InTree(n, d)))
               /\ r.nr_open = n.nr_open
  <2>1. n.devs[d].blocks = Cardinality(InTree(n, d)) + Cardinality(visited)
    BY <1>7, <1>13
  <2>2. n.devs[d].holders + n.devs[d].blocks > 0 /\ d \in OpenIn(n)
    BY <1>7, <1>9
  <2> HIDE DEF visited
  <2> QED BY <1>1, <1>10, <1>13, <1>14, <2>1, <2>2, CountedAgain
<1>16. OthersSame(m, r, d) /\ LruKept(m, r)
  BY <1>7, <1>15 DEF OthersSame, LruKept
<1>17. InTree(r, d) = {}
  BY <1>11, <1>15 DEF InTree
<1>18. FramesEffect(m, r, {d})
  <2>1. \A f \in visited : m.frames[f].dev = d
    BY DEF InTree
  <2>2. \A f \in Frames : r.frames[f] = frame(f)
    BY <1>7, <1>15
  <2> QED BY <1>5, <2>1, <2>2 DEF FramesEffect
<1> QED BY <1>7, <1>13, <1>15, <1>16, <1>17, <1>18

-----------------------------------------------------------------------------
(* Opening a device                                                        *)

\* There is memory for a device as long as the limit is not reached, and the
\* device is new to the table.
NewRecord(path, flags) == [path |-> path, flags |-> flags, holders |-> 1, blocks |-> 0]

LEMMA Opening ==
  ASSUME NEW m, Sound(m), NEW path \in Paths, NEW flags \in Flags, m.dev_tree[path] = NoDev,
         NEW outcome \in Opened(m, path, flags), outcome # <<m, NoDev>>,
         NEW r, r = outcome[1], NEW e, e = outcome[2]
  PROVE  /\ e \in Idevs \ OpenIn(m) /\ Sound(r) /\ OthersSame(m, r, e)
         /\ r.devs[e] = NewRecord(path, flags) /\ r.frames = m.frames
         /\ \A x, y : Precedes(r.dev_lru, x, y) => Precedes(m.dev_lru, x, y) \/ y = e
<1> DEFINE c == CHOOSE c \in Idevs : m.devs[c] = Closed
           rec == NewRecord(path, flags)
           n == [m EXCEPT !.devs[c] = rec, !.dev_tree[path] = c, !.dev_lru = Append(@, c),
                          !.nr_open = @ + 1, !.nr_fds = @ + 1]
<1>1. m.nr_open < max_cache_devs /\ outcome = <<n, c>>
  <2>1. m.nr_open < max_cache_devs
    <3>1. m.nr_open \in Nat /\ max_cache_devs \in Nat
      BY DevAssumption DEF Sound, TableIn, Managers
    <3> QED BY <3>1 DEF Opened
  <2>2. outcome \in {<<n, c>>}
    BY <2>1 DEF Opened, NewRecord
  <2> QED BY <2>1, <2>2
<1>2. r = n /\ e = c
  BY <1>1
<1>3. m \in Managers /\ TableIn(m) /\ CountedIn(m)
  BY DEF Sound, TableIn
<1>4. c \in Idevs /\ m.devs[c] = Closed
  <2>1. OpenIn(m) # Idevs
    <3>1. Cardinality(OpenIn(m)) = m.nr_open /\ m.nr_open \in Nat
      BY <1>3 DEF TableIn, Managers
    <3>2. Cardinality(Idevs) > max_cache_devs /\ Cardinality(Idevs) \in Nat /\ max_cache_devs \in Nat
      BY DevAssumption, FS_CardinalityType
    <3> QED BY <1>1, <3>1, <3>2
  <2>2. \E x \in Idevs : m.devs[x] = Closed
    BY <2>1 DEF OpenIn
  <2> QED BY <2>2
<1> HIDE DEF c
<1>5. rec \in DevRecords /\ rec # Closed /\ rec.path = path /\ rec.blocks = 0
  <2>1. rec \in DevRecords /\ rec.path = path /\ rec.blocks = 0
    BY DEF DevRecords, NewRecord
  <2> QED BY <2>1, DevAssumption
<1> HIDE DEF rec
<1>6. /\ n.devs = [m.devs EXCEPT ![c] = rec] /\ n.dev_tree = [m.dev_tree EXCEPT ![path] = c]
      /\ n.dev_lru = Append(m.dev_lru, c) /\ n.frames = m.frames
      /\ n.nr_open = m.nr_open + 1 /\ n.nr_fds = m.nr_fds + 1
      /\ DOMAIN n = DOMAIN m /\ n = [f \in DOMAIN m |-> n[f]]
  BY <1>3 DEF Managers
<1> HIDE DEF n
<1>7. /\ m.devs \in [Idevs -> DevRecords \cup {Closed}]
      /\ m.dev_tree \in [Paths -> Idevs \cup {NoDev}]
      /\ m.dev_lru \in Seq(Idevs) /\ NoDups(m.dev_lru) /\ m.nr_open \in Nat
  BY <1>3 DEF TableIn, Managers
<1>8. /\ n.devs[c] = rec /\ \A d \in Idevs : d # c => n.devs[d] = m.devs[d]
      /\ OpenIn(n) = OpenIn(m) \cup {c} /\ c \notin OpenIn(m)
  BY <1>4, <1>5, <1>6, <1>7 DEF OpenIn
<1>9. c \notin Range(m.dev_lru)
  BY <1>3, <1>8 DEF TableIn
<1>10. /\ n.dev_lru \in Seq(Idevs) /\ NoDups(n.dev_lru) /\ Len(n.dev_lru) = Len(m.dev_lru) + 1
       /\ Range(n.dev_lru) = Range(m.dev_lru) \cup {c}
       /\ \A x, y : Precedes(n.dev_lru, x, y) => Precedes(m.dev_lru, x, y) \/ y = c
  <2>1. n.dev_lru = WithLast(m.dev_lru, c)
    BY <1>6 DEF WithLast
  <2> QED BY <1>4, <1>7, <1>9, <2>1, Added
<1>11. Cardinality(OpenIn(n)) = Cardinality(OpenIn(m)) + 1
  <2>1. IsFiniteSet(OpenIn(m))
    BY DevAssumption, FS_Subset DEF OpenIn
  <2> QED BY <1>8, <2>1, FS_AddElement
<1>12. /\ n.nr_open = Cardinality(OpenIn(n)) /\ n.nr_fds = n.nr_open /\ n.nr_open \in Nat
       /\ n.nr_open <= max_cache_devs /\ Len(n.dev_lru) = n.nr_open
  <2>1. max_cache_devs \in Nat
    BY DevAssumption
  <2> QED BY <1>1, <1>3, <1>6, <1>7, <1>10, <1>11, <2>1 DEF TableIn
<1>13. \A p \in Paths, d \in Idevs : n.dev_tree[p] = d <=> d \in OpenIn(n) /\ n.devs[d].path = p
  <2> TAKE p \in Paths, d \in Idevs
  <2>1. m.dev_tree[p] = d <=> d \in OpenIn(m) /\ m.devs[d].path = p
    BY <1>3 DEF TableIn
  <2>2. d # NoDev
    BY DevAssumption
  <2>3. n.dev_tree[p] = IF p = path THEN c ELSE m.dev_tree[p]
    BY <1>6, <1>7
  <2>4. CASE p = path
    BY <1>5, <1>8, <2>1, <2>2, <2>3, <2>4
  <2>5. CASE p # path
    BY <1>5, <1>8, <2>1, <2>3, <2>5
  <2> QED BY <2>4, <2>5
<1>14. n \in Managers
  <2>1. n.devs \in [Idevs -> DevRecords \cup {Closed}]
    BY <1>5, <1>6, <1>7
  <2>2. n.dev_tree \in [Paths -> Idevs \cup {NoDev}]
    BY <1>4, <1>6, <1>7
  <2>3. n.frames \in [Frames -> FrameRecords \cup {Free}]
    BY <1>3, <1>6 DEF Managers
  <2> QED BY <1>3, <1>6, <1>10, <1>12, <2>1, <2>2, <2>3 DEF Managers
<1>15. TableIn(n)
  <2>1. Range(n.dev_lru) = OpenIn(n)
    BY <1>3, <1>8, <1>10 DEF TableIn
  <2> QED BY <1>10, <1>12, <1>13, <1>14, <2>1 DEF TableIn
<1>16. CountedIn(n)
  <2> SUFFICES ASSUME NEW d \in Idevs PROVE Blocks(n, d) = Cardinality(InTree(n, d))
    BY DEF CountedIn
  <2>1. InTree(n, d) = InTree(m, d)
    BY <1>6 DEF InTree
  <2>2. Blocks(n, d) = Blocks(m, d)
    BY <1>4, <1>5, <1>8 DEF Blocks
  <2> QED BY <1>3, <2>1, <2>2 DEF CountedIn
<1>17. OthersSame(m, n, c)
  BY <1>8 DEF OthersSame
<1> QED BY <1>2, <1>4, <1>6, <1>8, <1>10, <1>15, <1>16, <1>17 DEF Sound, rec

\* The device that is evicted was got before all others that are not held.
LEMMA VictimIs ==
  ASSUME NEW m, Sound(m), Victims(m) # {}
  PROVE  /\ Victim(m) \in OpenIn(m) /\ m.devs[Victim(m)].holders = 0
         /\ \A d \in OpenIn(m) : m.devs[d].holders = 0 => Precedes(m.dev_lru, Victim(m), d)
<1> DEFINE s == m.dev_lru
           I == {i \in 1 .. Len(s) : m.devs[s[i]].holders = 0}
<1>1. s \in Seq(Idevs) /\ Range(s) = OpenIn(m) /\ Len(s) \in Nat /\ DOMAIN s = 1 .. Len(s)
  BY LenProperties DEF Sound, TableIn, Managers
<1>2. I # {} /\ I \in SUBSET (1 .. Len(s))
  BY <1>1 DEF Victims, Unheld, Range
<1>3. Victim(m) = s[Min(I)]
  BY <1>2 DEF Victim, SelectInSeq, Unheld
<1>4. Min(I) \in I /\ \A i \in I : Min(I) <= i
  <2> HIDE DEF I, s
  <2> QED BY <1>1, <1>2, FirstPlace
<1>5. PICK k \in I : k = Min(I)
  BY <1>4
<1>6. s[k] \in OpenIn(m) /\ m.devs[s[k]].holders = 0
  BY <1>1 DEF Range
<1>7. ASSUME NEW d \in OpenIn(m), m.devs[d].holders = 0 PROVE Precedes(s, s[k], d)
  <2>1. PICK i \in DOMAIN s : s[i] = d
    BY <1>1 DEF Range
  <2>2. k <= i /\ k \in DOMAIN s
    BY <1>1, <1>4, <1>5, <1>7, <2>1
  <2> QED BY <2>1, <2>2 DEF Precedes
<1> QED BY <1>3, <1>5, <1>6, <1>7

-----------------------------------------------------------------------------
(* io_get_dev: from the io manager m to r, with the device e or NoDev      *)

\* Only e gets a holder.
HoldersEffect(m, r, e) ==
  \A d \in Idevs : Holders(r, d) = IF d = e THEN Holders(m, d) + 1 ELSE Holders(m, d)

\* What else is open was so before, with the same flags.
OpenEffect(m, r, e) ==
  \A d \in OpenIn(r) : d # e =>
    d \in OpenIn(m) /\ r.devs[d].path = m.devs[d].path /\ r.devs[d].flags = m.devs[d].flags

\* What was got before path is in the order it was.
LruEffect(m, r, path) ==
  \A x, y : Precedes(r.dev_lru, x, y) /\ r.devs[y].path # path =>
    Precedes(m.dev_lru, x, y) /\ r.devs[x].path # path

\* e is open for path, with the flags asked for: they were granted before, or are
\* in place of those the device was opened with, or e is open anew.
FlagsEffect(m, r, e, path, flags) ==
  e # NoDev =>
    /\ e \in OpenIn(r) /\ r.devs[e].path = path
    /\ \/ /\ e \in OpenIn(m) /\ m.devs[e].path = path /\ r.devs[e].flags = m.devs[e].flags
          /\ ~_need_upgrade_dev(m, e, flags)
       \/ /\ e \in OpenIn(m) /\ m.devs[e].path = path /\ r.devs[e].flags = flags
          /\ m.devs[e].flags.ro /\ ~flags.ro /\ ~flags.excl /\ ~m.devs[e].flags.excl
       \/ r.devs[e].flags = flags /\ Holders(m, e) = 0 /\ InTree(r, e) = {}

\* Another device only closes when it is the least recently used one.
ClosesEffect(m, r, path) ==
  \A d \in OpenIn(m) : m.devs[d].path # path =>
    \/ d \in OpenIn(r) /\ r.devs[d].path = m.devs[d].path
    \/ /\ m.devs[d].holders = 0
       /\ \A o \in OpenIn(m) : m.devs[o].holders = 0 => Precedes(m.dev_lru, d, o)

Unused(m) == {d \in Idevs : Holders(m, d) = 0}

Effect(m, r, e, path, flags) ==
  /\ Sound(r) /\ InUse(r) /\ e \in Idevs \cup {NoDev}
  /\ HoldersEffect(m, r, e) /\ OpenEffect(m, r, e) /\ LruEffect(m, r, path)
  /\ FramesEffect(m, r, Unused(m)) /\ FlagsEffect(m, r, e, path, flags)
  /\ ClosesEffect(m, r, path)

\* path is opened, after a device v may have closed.
LEMMA OpensAfter ==
  ASSUME NEW m, NEW path \in Paths, NEW flags \in Flags, NEW n, Sound(n), InUse(n),
         n.dev_tree[path] = NoDev,
         NEW v, \A d \in Idevs : d # v => n.devs[d] = m.devs[d],
         v \in Idevs => n.devs[v] = Closed /\ Holders(m, v) = 0,
         v \in OpenIn(m) => \/ m.devs[v].path = path
                           \/ \A o \in OpenIn(m) : m.devs[o].holders = 0 => Precedes(m.dev_lru, v, o),
         LruKept(m, n), FramesEffect(m, n, Unused(m)),
         NEW outcome \in Opened(n, path, flags),
         NEW r, r = outcome[1], NEW e, e = outcome[2]
  PROVE  Effect(m, r, e, path, flags)
<1>1. TableIn(n) /\ CountedIn(n) /\ NoDev \notin Idevs
  BY DevAssumption DEF Sound
<1>2. \A d \in OpenIn(n) : d \in OpenIn(m) /\ n.devs[d] = m.devs[d] /\ n.devs[d].path # path
  <2> SUFFICES ASSUME NEW d \in OpenIn(n)
               PROVE  d \in OpenIn(m) /\ n.devs[d] = m.devs[d] /\ n.devs[d].path # path
    OBVIOUS
  <2>1. d \in Idevs /\ n.devs[d] # Closed /\ d # v
    BY DEF OpenIn
  <2>2. n.devs[d].path # path
    BY <1>1, <2>1 DEF TableIn
  <2> QED BY <2>1, <2>2 DEF OpenIn
<1>3. \A d \in Idevs : Holders(n, d) = Holders(m, d)
  BY DEF Holders
<1>4. \A d \in OpenIn(m) : d \in OpenIn(n) \/ (d = v /\ m.devs[d].holders = 0)
  BY DEF OpenIn, Holders
<1>5. \A x, y : Precedes(n.dev_lru, x, y) => x \in OpenIn(n) /\ y \in OpenIn(n)
  BY <1>1 DEF TableIn, Precedes, Range
<1>6. CASE outcome = <<n, NoDev>>
  <2>1. r = n /\ e = NoDev
    BY <1>6
  <2>2. HoldersEffect(m, n, NoDev)
    BY <1>1, <1>3 DEF HoldersEffect
  <2>3. OpenEffect(m, n, NoDev) /\ FlagsEffect(m, n, NoDev, path, flags)
    BY <1>2 DEF OpenEffect, FlagsEffect
  <2>4. LruEffect(m, n, path)
    BY <1>2, <1>5 DEF LruEffect, LruKept
  <2>5. ClosesEffect(m, n, path)
    BY <1>2, <1>4 DEF ClosesEffect
  <2> QED BY <2>1, <2>2, <2>3, <2>4, <2>5 DEF Effect
<1>7. CASE outcome # <<n, NoDev>>
  <2>1. /\ e \in Idevs \ OpenIn(n) /\ Sound(r) /\ OthersSame(n, r, e)
        /\ r.devs[e] = NewRecord(path, flags) /\ r.frames = n.frames
        /\ \A x, y : Precedes(r.dev_lru, x, y) => Precedes(n.dev_lru, x, y) \/ y = e
    BY <1>7, Opening
  <2>2. /\ r.devs[e].path = path /\ r.devs[e].flags = flags /\ r.devs[e].holders = 1
        /\ r.devs[e].blocks = 0 /\ r.devs[e] # Closed
    <3>1. NewRecord(path, flags) \in DevRecords
      BY DEF NewRecord, DevRecords
    <3> QED BY <2>1, <3>1, DevAssumption DEF NewRecord
  <2>3. e # NoDev /\ e \in Idevs /\ e \in OpenIn(r) /\ OpenIn(r) = OpenIn(n) \cup {e}
    BY <1>1, <2>1, <2>2 DEF OthersSame, OpenIn
  <2>4. Holders(n, e) = 0 /\ Holders(m, e) = 0
    BY <1>3, <2>1 DEF OpenIn, Holders
  <2>5. HoldersEffect(m, r, e)
    <3> SUFFICES ASSUME NEW d \in Idevs
                 PROVE  Holders(r, d) = IF d = e THEN Holders(m, d) + 1 ELSE Holders(m, d)
      BY DEF HoldersEffect
    <3>1. CASE d = e
      BY <2>2, <2>4, <3>1 DEF Holders
    <3>2. CASE d # e
      <4>1. Holders(r, d) = Holders(n, d)
        BY <2>1, <3>2 DEF Holders, OthersSame
      <4> QED BY <1>3, <3>2, <4>1
    <3> QED BY <3>1, <3>2
  <2>6. OpenEffect(m, r, e)
    BY <1>2, <2>1, <2>3 DEF OpenEffect, OthersSame, OpenIn
  <2>7. LruEffect(m, r, path)
    <3> SUFFICES ASSUME NEW x, NEW y, Precedes(r.dev_lru, x, y), r.devs[y].path # path
                 PROVE  Precedes(m.dev_lru, x, y) /\ r.devs[x].path # path
      BY DEF LruEffect
    <3>1. Precedes(n.dev_lru, x, y)
      BY <2>1, <2>2
    <3>2. x \in OpenIn(n) /\ r.devs[x] = n.devs[x]
      BY <1>5, <2>1, <3>1 DEF OthersSame, OpenIn
    <3> QED BY <1>2, <3>1, <3>2 DEF LruKept
  <2>8. FramesEffect(m, r, Unused(m))
    BY <2>1 DEF FramesEffect
  <2>9. InTree(r, e) = {}
    <3>1. Cardinality(InTree(n, e)) = 0
      BY <1>1, <2>1 DEF CountedIn, Blocks, OpenIn
    <3>2. InTree(n, e) = {}
      BY <3>1, TreeIsFinite, FS_EmptySet
    <3> QED BY <2>1, <3>2 DEF InTree
  <2>10. FlagsEffect(m, r, e, path, flags)
    BY <2>2, <2>3, <2>4, <2>9 DEF FlagsEffect
  <2>11. ClosesEffect(m, r, path)
    <3> SUFFICES ASSUME NEW d \in OpenIn(m), m.devs[d].path # path
                 PROVE  \/ d \in OpenIn(r) /\ r.devs[d].path = m.devs[d].path
                        \/ /\ m.devs[d].holders = 0
                           /\ \A o \in OpenIn(m) : m.devs[o].holders = 0 => Precedes(m.dev_lru, d, o)
      BY DEF ClosesEffect
    <3>1. CASE d \in OpenIn(n)
      <4>1. r.devs[d] = n.devs[d] /\ d \in OpenIn(r)
        BY <2>1, <2>3, <3>1 DEF OthersSame, OpenIn
      <4> QED BY <1>2, <3>1, <4>1
    <3>2. CASE d \notin OpenIn(n)
      BY <1>4, <3>2
    <3> QED BY <3>1, <3>2
  <2>12. InUse(r)
    <3> SUFFICES ASSUME NEW d \in OpenIn(r) PROVE r.devs[d].holders + r.devs[d].blocks > 0
      BY DEF InUse
    <3>1. CASE d = e
      BY <2>2, <3>1
    <3>2. CASE d # e
      <4>1. r.devs[d] = n.devs[d] /\ d \in OpenIn(n)
        BY <2>1, <2>3, <3>2 DEF OthersSame, OpenIn
      <4> QED BY <4>1 DEF InUse
    <3> QED BY <3>1, <3>2
  <2> QED BY <2>1, <2>3, <2>5, <2>6, <2>7, <2>8, <2>10, <2>11, <2>12 DEF Effect
<1> QED BY <1>6, <1>7

LEMMA NewDev ==
  ASSUME NEW m, Sound(m), InUse(m), NEW path \in Paths, NEW flags \in Flags,
         m.dev_tree[path] = NoDev, NEW outcome \in _new_dev(m, path, flags)
  PROVE  Effect(m, outcome[1], outcome[2], path, flags)
<1>1. CASE m.nr_open < max_cache_devs \/ Victims(m) = {}
  <2>1. outcome \in Opened(m, path, flags)
    BY <1>1 DEF _new_dev
  <2>2. LruKept(m, m) /\ FramesEffect(m, m, Unused(m))
    BY DEF LruKept, FramesEffect
  <2>3. NoDev \notin Idevs /\ NoDev \notin OpenIn(m)
    BY DevAssumption DEF OpenIn
  <2> QED BY <2>1, <2>2, <2>3, OpensAfter
<1>2. CASE ~(m.nr_open < max_cache_devs \/ Victims(m) = {})
  <2> DEFINE v == Victim(m)
  <2>1. PICK failed \in Failures(m, v) : outcome \in Opened(_invalidate_dev(m, v, failed), path, flags)
    BY <1>2 DEF _new_dev
  <2> DEFINE n == _invalidate_dev(m, v, failed)
  <2>2. /\ v \in OpenIn(m) /\ m.devs[v].holders = 0
        /\ \A d \in OpenIn(m) : m.devs[d].holders = 0 => Precedes(m.dev_lru, v, d)
    BY <1>2, VictimIs
  <2>3. n = _invalidate_dev(m, v, failed)
    OBVIOUS
  <2> HIDE DEF n, v
  <2>4. /\ Sound(n) /\ OthersSame(m, n, v) /\ LruKept(m, n) /\ InTree(n, v) = {}
        /\ FramesEffect(m, n, {v}) /\ n.devs[v] = Closed
    <3>1. m.devs[v].holders + m.devs[v].blocks > 0
      BY <2>2 DEF InUse
    <3>2. /\ Sound(n) /\ OthersSame(m, n, v) /\ LruKept(m, n) /\ InTree(n, v) = {}
          /\ FramesEffect(m, n, {v})
      BY <2>1, <2>2, <2>3, <3>1, Invalidated
    <3>3. n.devs[v] = Closed
      <4>1. /\ Sound(m) /\ v \in OpenIn(m) /\ m.devs[v].holders = 0
            /\ failed \in Failures(m, v)
        BY <2>1, <2>2
      <4> QED BY ONLY <2>3, <3>1, <4>1, Invalidated
    <3> QED BY <3>2, <3>3
  <2>5. Holders(m, v) = 0 /\ v \in Idevs
    BY <2>2 DEF Holders, OpenIn
  <2>6. FramesEffect(m, n, Unused(m))
    BY <2>4, <2>5 DEF FramesEffect, Unused
  <2>7. InUse(n)
    BY <2>4 DEF InUse, OthersSame, OpenIn
  <2>8. n.dev_tree[path] = NoDev
    <3>1. n.dev_tree[path] \in Idevs \cup {NoDev}
      BY <2>4 DEF Sound, TableIn, Managers
    <3>2. ASSUME n.dev_tree[path] \in Idevs PROVE FALSE
      <4>1. PICK d \in Idevs : n.dev_tree[path] = d
        BY <3>2
      <4>2. d \in OpenIn(n) /\ n.devs[d].path = path
        BY <2>4, <4>1 DEF Sound, TableIn
      <4>3. d \in OpenIn(m) /\ m.devs[d].path = path
        BY <2>4, <4>2 DEF OthersSame, OpenIn
      <4>4. m.dev_tree[path] = d
        BY <4>3 DEF Sound, TableIn, OpenIn
      <4> QED BY <4>1, <4>4, DevAssumption
    <3> QED BY <3>1, <3>2
  <2>9. \A d \in Idevs : d # v => n.devs[d] = m.devs[d]
    BY <2>4 DEF OthersSame
  <2>10. outcome \in Opened(n, path, flags)
    BY <2>1, <2>3
  <2> QED BY <2>2, <2>4, <2>5, <2>6, <2>7, <2>8, <2>9, <2>10, OpensAfter
<1> QED BY <1>1, <1>2

\* A device that is got gets a holder and is the last of the lru list.
HeldIn(m, d) == [m EXCEPT !.devs[d].holders = @ + 1, !.dev_lru = Used(@, d)]

LEMMA Holding ==
  ASSUME NEW m, Sound(m), NEW d \in OpenIn(m), NEW r, r = HeldIn(m, d)
  PROVE  /\ Sound(r) /\ OthersSame(m, r, d) /\ r.frames = m.frames /\ d \in OpenIn(r)
         /\ r.devs[d] = WithHolders(m.devs[d], m.devs[d].holders + 1)
         /\ \A x, y : Precedes(r.dev_lru, x, y) => y = d \/ (x # d /\ Precedes(m.dev_lru, x, y))
<1> DEFINE rec == WithHolders(m.devs[d], m.devs[d].holders + 1)
           k == WithDev(m, d, rec)
           s == RemoveFirst(m.dev_lru, d)
           t == WithLast(s, d)
<1>1. TableIn(m) /\ CountedIn(m) /\ m \in Managers /\ d \in Idevs /\ m.devs[d] \in DevRecords
  BY DEF Sound, TableIn, Managers, OpenIn
<1>2. /\ rec \in DevRecords /\ rec.path = m.devs[d].path /\ rec.blocks = m.devs[d].blocks
  BY <1>1 DEF DevRecords, WithHolders
<1>3. k = WithDev(m, d, rec) /\ s = RemoveFirst(m.dev_lru, d) /\ t = WithLast(s, d)
  OBVIOUS
<1>4. /\ r.devs = k.devs /\ r.dev_lru = t /\ r.frames = k.frames /\ r.dev_tree = k.dev_tree
      /\ r.nr_open = k.nr_open /\ r.nr_fds = k.nr_fds /\ k.dev_lru = m.dev_lru
      /\ DOMAIN r = DOMAIN k /\ r = [f \in DOMAIN k |-> r[f]]
  BY <1>1 DEF Managers, HeldIn, WithDev, WithHolders, Used, WithLast
<1> HIDE DEF rec, k, s, t
<1>5. /\ TableIn(k) /\ OpenIn(k) = OpenIn(m) /\ k.devs[d] = rec /\ k.frames = m.frames
      /\ OthersSame(m, k, d)
  BY <1>1, <1>2, <1>3, Rewritten
<1>6. m.dev_lru \in Seq(Idevs) /\ NoDups(m.dev_lru) /\ d \in Range(m.dev_lru)
  BY <1>1 DEF TableIn, Managers
<1>7. /\ s \in Seq(Idevs) /\ NoDups(s) /\ Len(s) = Len(m.dev_lru) - 1
      /\ Range(s) = Range(m.dev_lru) \ {d}
      /\ \A x, y : Precedes(s, x, y) => Precedes(m.dev_lru, x, y)
  BY <1>3, <1>6, Removed
<1>8. /\ t \in Seq(Idevs) /\ NoDups(t) /\ Len(t) = Len(s) + 1 /\ Range(t) = Range(s) \cup {d}
      /\ \A x, y : Precedes(t, x, y) => Precedes(s, x, y) \/ y = d
  <2>1. d \notin Range(s)
    BY <1>7
  <2> QED BY <1>1, <1>3, <1>7, <2>1, Added
<1>9. Len(t) = Len(m.dev_lru) /\ Range(t) = Range(m.dev_lru)
  <2>1. Len(m.dev_lru) \in Nat
    BY <1>6, LenProperties
  <2> QED BY <1>6, <1>7, <1>8, <2>1
<1>10. TableIn(r)
  <2>1. k \in Managers
    BY <1>5 DEF TableIn
  <2>2. r \in Managers
    BY <1>4, <1>8, <2>1 DEF Managers
  <2>3. OpenIn(r) = OpenIn(k)
    BY <1>4 DEF OpenIn
  <2> QED BY <1>4, <1>5, <1>8, <1>9, <2>2, <2>3 DEF TableIn
<1>11. CountedIn(r)
  <2> SUFFICES ASSUME NEW e \in Idevs PROVE Blocks(r, e) = Cardinality(InTree(r, e))
    BY DEF CountedIn
  <2>1. InTree(r, e) = InTree(m, e)
    BY <1>4, <1>5 DEF InTree
  <2>2. Blocks(r, e) = Blocks(m, e)
    <3>1. CASE e = d
      BY <1>1, <1>2, <1>4, <1>5, <3>1, DevAssumption DEF Blocks
    <3>2. CASE e # d
      BY <1>4, <1>5, <3>2 DEF Blocks, OthersSame
    <3> QED BY <3>1, <3>2
  <2> QED BY <1>1, <2>1, <2>2 DEF CountedIn
<1>12. \A x, y : Precedes(t, x, y) => y = d \/ (x # d /\ Precedes(m.dev_lru, x, y))
  <2>1. \A x, y : Precedes(s, x, y) => x # d
    BY <1>7 DEF Precedes, Range
  <2> QED BY <1>7, <1>8, <2>1
<1>13. d \in OpenIn(r) /\ OthersSame(m, r, d)
  BY <1>4, <1>5 DEF OpenIn, OthersSame
<1> QED BY <1>4, <1>5, <1>10, <1>11, <1>12, <1>13 DEF Sound, rec

\* What is got was open, and stays so, with the flags it had or others.
LEMMA StaysOpen ==
  ASSUME NEW m, Sound(m), InUse(m), NEW path \in Paths, NEW flags \in Flags,
         NEW d \in OpenIn(m), m.devs[d].path = path,
         NEW r, Sound(r), OthersSame(m, r, d), r.frames = m.frames, d \in OpenIn(r),
         r.devs[d].path = path, r.devs[d].holders = m.devs[d].holders + 1,
         \/ r.devs[d].flags = m.devs[d].flags /\ ~_need_upgrade_dev(m, d, flags)
         \/ /\ r.devs[d].flags = flags
            /\ m.devs[d].flags.ro /\ ~flags.ro /\ ~flags.excl /\ ~m.devs[d].flags.excl,
         \A x, y : Precedes(r.dev_lru, x, y) => y = d \/ (x # d /\ Precedes(m.dev_lru, x, y))
  PROVE  Effect(m, r, d, path, flags)
<1>1. TableIn(m) /\ TableIn(r) /\ d \in Idevs /\ m.dev_tree[path] = d
  BY DEF Sound, TableIn, OpenIn
<1>2. \A e \in Idevs : e # d => r.devs[e] = m.devs[e]
  BY DEF OthersSame
<1>3. OpenIn(r) = OpenIn(m)
  BY <1>1, <1>2 DEF OpenIn
<1>4. HoldersEffect(m, r, d)
  <2>1. Holders(r, d) = Holders(m, d) + 1
    BY DEF Holders, OpenIn
  <2> QED BY <1>2, <2>1 DEF HoldersEffect, Holders
<1>5. OpenEffect(m, r, d)
  BY <1>1, <1>2, <1>3 DEF OpenEffect, OpenIn
<1>6. LruEffect(m, r, path)
  <2> SUFFICES ASSUME NEW x, NEW y, Precedes(r.dev_lru, x, y), r.devs[y].path # path
               PROVE  Precedes(m.dev_lru, x, y) /\ r.devs[x].path # path
    BY DEF LruEffect
  <2>1. x # d /\ Precedes(m.dev_lru, x, y)
    OBVIOUS
  <2>2. x \in OpenIn(m) /\ x \in Idevs
    BY <1>1, <2>1 DEF TableIn, Precedes, Range, OpenIn
  <2>3. m.devs[x].path # path
    BY <1>1, <2>1, <2>2 DEF TableIn
  <2> QED BY <1>2, <2>1, <2>2, <2>3
<1>7. FramesEffect(m, r, Unused(m))
  BY DEF FramesEffect
<1>8. FlagsEffect(m, r, d, path, flags)
  BY DEF FlagsEffect
<1>9. ClosesEffect(m, r, path)
  BY <1>2, <1>3 DEF ClosesEffect, OpenIn
<1>10. InUse(r)
  <2> SUFFICES ASSUME NEW e \in OpenIn(r) PROVE r.devs[e].holders + r.devs[e].blocks > 0
    BY DEF InUse
  <2>1. CASE e = d
    <3>1. m.devs[d].holders \in Nat /\ r.devs[d].blocks \in Nat
      BY <1>1 DEF TableIn, Managers, OpenIn, DevRecords
    <3> QED BY <2>1, <3>1
  <2>2. CASE e # d
    BY <1>2, <1>3, <2>2 DEF InUse, OpenIn
  <2> QED BY <2>1, <2>2
<1> QED BY <1>1, <1>4, <1>5, <1>6, <1>7, <1>8, <1>9, <1>10 DEF Effect

\* A get that fails gives up the holder it took.
LEMMA GivesUp ==
  ASSUME NEW m, Sound(m), InUse(m), NEW path \in Paths, NEW flags \in Flags,
         NEW d \in OpenIn(m), m.devs[d].path = path,
         NEW h, h = HeldIn(m, d), NEW r, r = _dec_holders(h, d)
  PROVE  Effect(m, r, NoDev, path, flags)
<1>1. /\ Sound(h) /\ OthersSame(m, h, d) /\ h.frames = m.frames /\ d \in OpenIn(h)
      /\ h.devs[d] = WithHolders(m.devs[d], m.devs[d].holders + 1)
      /\ \A x, y : Precedes(h.dev_lru, x, y) => y = d \/ (x # d /\ Precedes(m.dev_lru, x, y))
  BY Holding
<1>2. /\ TableIn(m) /\ TableIn(h) /\ CountedIn(m) /\ d \in Idevs /\ m.dev_tree[path] = d
      /\ m.devs[d] \in DevRecords /\ NoDev \notin Idevs
  BY <1>1, DevAssumption DEF Sound, TableIn, OpenIn, Managers
<1>3. m.devs[d].holders \in Nat /\ m.devs[d].blocks \in Nat /\ m.devs[d].holders + m.devs[d].blocks > 0
  BY <1>2 DEF DevRecords, InUse
<1>4. h.devs[d].holders = m.devs[d].holders + 1 /\ h.devs[d].blocks = m.devs[d].blocks
  BY <1>1, <1>2 DEF DevRecords, WithHolders
<1>5. h.devs[d].holders > 0 /\ ~(h.devs[d].holders = 1 /\ h.devs[d].blocks = 0)
  BY <1>3, <1>4
<1>6. /\ TableIn(r) /\ r.frames = h.frames /\ OthersSame(h, r, d) /\ LruKept(h, r)
      /\ r.devs[d] = WithHolders(h.devs[d], h.devs[d].holders - 1)
  BY <1>1, <1>2, <1>5, DecHolders
<1>7. r.devs[d] = m.devs[d]
  <2>1. h.devs[d].holders - 1 = m.devs[d].holders
    BY <1>3, <1>4
  <2>2. ASSUME NEW rec \in DevRecords, NEW n PROVE WithHolders(WithHolders(rec, n), rec.holders) = rec
    BY DEF DevRecords, WithHolders
  <2> QED BY <1>1, <1>2, <1>6, <2>1, <2>2
<1>8. \A e \in Idevs : r.devs[e] = m.devs[e]
  BY <1>1, <1>6, <1>7 DEF OthersSame
<1>9. OpenIn(r) = OpenIn(m)
  BY <1>8 DEF OpenIn
<1>10. CountedIn(r)
  BY <1>1, <1>2, <1>6, <1>8 DEF CountedIn, Blocks, InTree
<1>11. InUse(r)
  BY <1>8, <1>9 DEF InUse, OpenIn
<1>12. HoldersEffect(m, r, NoDev) /\ OpenEffect(m, r, NoDev)
  BY <1>2, <1>8, <1>9 DEF HoldersEffect, Holders, OpenEffect, OpenIn
<1>13. LruEffect(m, r, path)
  <2> SUFFICES ASSUME NEW x, NEW y, Precedes(r.dev_lru, x, y), r.devs[y].path # path
               PROVE  Precedes(m.dev_lru, x, y) /\ r.devs[x].path # path
    BY DEF LruEffect
  <2>1. y # d
    BY <1>7
  <2>2. x # d /\ Precedes(m.dev_lru, x, y)
    BY <1>1, <1>6, <2>1 DEF LruKept
  <2>3. x \in OpenIn(m) /\ x \in Idevs
    BY <1>2, <2>2 DEF TableIn, Precedes, Range, OpenIn
  <2>4. m.devs[x].path # path
    BY <1>2, <2>2, <2>3 DEF TableIn
  <2> QED BY <1>8, <2>2, <2>3, <2>4
<1>14. FramesEffect(m, r, Unused(m)) /\ FlagsEffect(m, r, NoDev, path, flags)
  BY <1>1, <1>6 DEF FramesEffect, FlagsEffect
<1>15. ClosesEffect(m, r, path)
  BY <1>8, <1>9 DEF ClosesEffect, OpenIn
<1> QED BY <1>6, <1>10, <1>11, <1>12, <1>13, <1>14, <1>15 DEF Effect, Sound

\* A device nobody else holds is emptied, closed, and opened anew.
LEMMA StartsAgain ==
  ASSUME NEW m, Sound(m), InUse(m), NEW path \in Paths, NEW flags \in Flags,
         NEW d \in OpenIn(m), m.devs[d].path = path, m.devs[d].holders = 0,
         NEW h, h = HeldIn(m, d), NEW failed \in Failures(h, d),
         NEW n, n = _dec_holders(_invalidate_dev(h, d, failed), d),
         NEW outcome \in _new_dev(n, path, flags)
  PROVE  Effect(m, outcome[1], outcome[2], path, flags)
<1>1. /\ Sound(h) /\ OthersSame(m, h, d) /\ h.frames = m.frames /\ d \in OpenIn(h)
      /\ h.devs[d] = WithHolders(m.devs[d], m.devs[d].holders + 1)
      /\ \A x, y : Precedes(h.dev_lru, x, y) => y = d \/ (x # d /\ Precedes(m.dev_lru, x, y))
  BY Holding
<1>2. /\ TableIn(m) /\ TableIn(h) /\ d \in Idevs /\ m.devs[d] \in DevRecords
      /\ h.devs[d] \in DevRecords /\ NoDev \notin Idevs
  BY <1>1, DevAssumption DEF Sound, TableIn, OpenIn, Managers
<1>3. h.devs[d].holders = 1 /\ h.devs[d].blocks \in Nat
  BY <1>1, <1>2 DEF DevRecords, WithHolders
<1> DEFINE k == _invalidate_dev(h, d, failed)
<1>4. n = _dec_holders(k, d) /\ k = _invalidate_dev(h, d, failed)
  OBVIOUS
<1> HIDE DEF k
<1>5. h.devs[d].holders + h.devs[d].blocks > 0 /\ h.devs[d].holders # 0
  BY <1>3
<1>6. /\ Sound(k) /\ OthersSame(h, k, d) /\ LruKept(h, k) /\ InTree(k, d) = {}
      /\ FramesEffect(h, k, {d})
      /\ k.devs[d] = WithBlocks(h.devs[d], 0)
  <2>1. /\ Sound(h) /\ d \in OpenIn(h) /\ failed \in Failures(h, d)
        /\ k = _invalidate_dev(h, d, failed)
    BY <1>1, <1>4
  <2> QED BY ONLY <1>5, <2>1, Invalidated
<1>7. k.devs[d].holders = 1 /\ k.devs[d].blocks = 0 /\ k.devs[d] \in DevRecords
  BY <1>2, <1>3, <1>6 DEF DevRecords, WithBlocks
<1>8. TableIn(k) /\ CountedIn(k) /\ d \in OpenIn(k)
  BY <1>2, <1>6, <1>7, DevAssumption DEF Sound, OpenIn
<1>9. /\ TableIn(n) /\ n.frames = k.frames /\ OthersSame(k, n, d) /\ LruKept(k, n)
      /\ n.devs[d] = Closed /\ n.nr_open = k.nr_open - 1
  <2>1. k.devs[d].holders > 0
    BY <1>7
  <2> QED BY <1>4, <1>7, <1>8, <2>1, DecHolders
<1>10. n.nr_open < max_cache_devs
  <2>1. k.nr_open <= max_cache_devs /\ k.nr_open \in Nat /\ max_cache_devs \in Nat
    BY <1>8, DevAssumption DEF TableIn, Managers
  <2> QED BY <1>9, <2>1
<1>11. outcome \in Opened(n, path, flags)
  BY <1>10 DEF _new_dev
<1>12. \A e \in Idevs : e # d => n.devs[e] = m.devs[e]
  BY <1>1, <1>6, <1>9 DEF OthersSame
<1>13. CountedIn(n)
  <2> SUFFICES ASSUME NEW e \in Idevs PROVE Blocks(n, e) = Cardinality(InTree(n, e))
    BY DEF CountedIn
  <2>1. InTree(n, e) = InTree(k, e)
    BY <1>9 DEF InTree
  <2>2. CASE e = d
    BY <1>6, <1>9, <2>1, <2>2, FS_EmptySet DEF Blocks
  <2>3. CASE e # d
    BY <1>8, <1>9, <2>1, <2>3 DEF OthersSame, Blocks, CountedIn
  <2> QED BY <2>2, <2>3
<1>14. InUse(n)
  BY <1>9, <1>12 DEF InUse, OpenIn
<1>15. \A p \in Paths, e \in Idevs : n.dev_tree[p] = e <=> e \in OpenIn(n) /\ n.devs[e].path = p
  BY <1>9 DEF TableIn
<1>16. n.dev_tree[path] = NoDev
  <2>1. n.dev_tree[path] \in Idevs \cup {NoDev}
    BY <1>9 DEF TableIn, Managers
  <2>2. ASSUME NEW e \in Idevs, n.dev_tree[path] = e PROVE FALSE
    <3>1. e \in OpenIn(n) /\ n.devs[e].path = path
      BY <1>15, <2>2
    <3>2. e # d
      BY <1>9, <3>1 DEF OpenIn
    <3>3. e \in OpenIn(m) /\ m.devs[e].path = path
      BY <1>12, <3>1, <3>2 DEF OpenIn
    <3>4. m.dev_tree[path] = e /\ m.dev_tree[path] = d
      BY <1>2, <3>3 DEF TableIn, OpenIn
    <3> QED BY <3>2, <3>4
  <2> QED BY <2>1, <2>2
<1>17. LruKept(m, n)
  <2> SUFFICES ASSUME NEW x, NEW y, Precedes(n.dev_lru, x, y) PROVE Precedes(m.dev_lru, x, y)
    BY DEF LruKept
  <2>1. y \in OpenIn(n)
    BY <1>9 DEF TableIn, Precedes, Range
  <2>2. y # d
    BY <1>9, <2>1 DEF OpenIn
  <2> QED BY <1>1, <1>6, <1>9, <2>2 DEF LruKept
<1>18. Holders(m, d) = 0
  BY DEF Holders
<1>19. FramesEffect(m, n, Unused(m))
  BY <1>1, <1>2, <1>6, <1>9, <1>18 DEF FramesEffect, Unused
<1>20. Sound(n)
  BY <1>9, <1>13 DEF Sound
<1> QED BY <1>2, <1>9, <1>11, <1>12, <1>14, <1>16, <1>17, <1>18, <1>19, <1>20, OpensAfter

LEMMA GetEffect ==
  ASSUME Sound(iom), InUse(iom), "renamed" \notin Faults, NEW path \in Paths, NEW flags \in Flags,
         NEW outcome \in _get_dev(path, flags)
  PROVE  Effect(iom, outcome[1], outcome[2], path, flags)
<1> DEFINE d == iom.dev_tree[path]
           held == HeldIn(iom, d)
<1>1. TableIn(iom) /\ iom \in Managers
  BY DEF Sound, TableIn
<1>2. CASE d = NoDev
  <2>1. outcome \in _new_dev(iom, path, flags)
    BY <1>2 DEF _get_dev
  <2> QED BY <1>2, <2>1, NewDev
<1>3. CASE d # NoDev
  <2>1. d \in Idevs
    BY <1>1, <1>3 DEF Managers
  <2>2. d \in OpenIn(iom) /\ iom.devs[d].path = path
    BY <1>1, <2>1 DEF TableIn
  <2>3. \/ outcome \in {<<held, d>>} /\ ~_need_upgrade_dev(held, d, flags)
        \/ /\ outcome \in Reopened(held, path, d, flags)
           /\ SlowPath(iom, d, flags)
        \/ /\ outcome \in Upgraded(held, d, flags)
           /\ ~SlowPath(iom, d, flags) /\ _need_upgrade_dev(held, d, flags)
    BY <1>3 DEF _get_dev, HeldIn
  <2> DEFINE h == held
  <2>h. h = HeldIn(iom, d)
    OBVIOUS
  <2> HIDE DEF h
  <2>4. /\ Sound(h) /\ OthersSame(iom, h, d) /\ h.frames = iom.frames /\ d \in OpenIn(h)
        /\ h.devs[d] = WithHolders(iom.devs[d], iom.devs[d].holders + 1)
        /\ \A x, y : Precedes(h.dev_lru, x, y) => y = d \/ (x # d /\ Precedes(iom.dev_lru, x, y))
    <3>1. Sound(iom) /\ d \in OpenIn(iom)
      BY <2>2
    <3> HIDE DEF d
    <3> QED BY ONLY <2>h, <3>1, Holding
  <2>5. /\ iom.devs[d] \in DevRecords /\ h.devs[d] \in DevRecords
        /\ h.devs[d].path = path /\ h.devs[d].flags = iom.devs[d].flags
        /\ h.devs[d].holders = iom.devs[d].holders + 1 /\ iom.devs[d].holders \in Nat
    <3>1. iom.devs[d] \in DevRecords
      BY <1>1, <2>2 DEF Managers, OpenIn
    <3> QED BY <2>2, <2>4, <3>1 DEF DevRecords, WithHolders
  <2>6. CASE outcome = <<h, d>> /\ ~_need_upgrade_dev(h, d, flags)
    <3>1. ~_need_upgrade_dev(iom, d, flags)
      BY <2>5, <2>6 DEF _need_upgrade_dev
    <3>2. Effect(iom, h, d, path, flags)
      BY <2>2, <2>4, <2>5, <3>1, StaysOpen
    <3> QED BY <2>6, <3>2
  <2>7. CASE outcome \in Reopened(h, path, d, flags)
    <3>1. CASE OtherHolders(h, d)
      <4>1. outcome \in {<<_dec_holders(h, d), NoDev>>}
        BY <2>7, <3>1 DEF Reopened
      <4>2. outcome[1] = _dec_holders(h, d) /\ outcome[2] = NoDev
        BY <4>1
      <4> QED BY <2>2, <2>h, <4>2, GivesUp
    <3>2. CASE ~OtherHolders(h, d)
      <4>1. iom.devs[d].holders = 0
        BY <2>5, <3>2 DEF OtherHolders
      <4>2. PICK failed \in Failures(h, d) :
              outcome \in _new_dev(_dec_holders(_invalidate_dev(h, d, failed), d), path, flags)
        BY <2>7, <3>2 DEF Reopened
      <4> QED BY <2>2, <2>h, <4>1, <4>2, StartsAgain
    <3> QED BY <3>1, <3>2
  <2>8. CASE outcome \in Upgraded(h, d, flags) /\ ~SlowPath(iom, d, flags) /\ _need_upgrade_dev(h, d, flags)
    <3> DEFINE rec == [h.devs[d] EXCEPT !.flags = flags]
               r == WithDev(h, d, rec)
    <3>1. outcome = <<r, d>> \/ outcome = <<_dec_holders(h, d), NoDev>>
      <4>1. [h EXCEPT !.devs[d].flags = flags] = r
        BY <2>4 DEF WithDev, Sound, TableIn, Managers
      <4> QED BY <2>8, <4>1 DEF Upgraded
    <3>2. /\ rec \in DevRecords /\ rec.path = path /\ rec.flags = flags
          /\ rec.holders = h.devs[d].holders /\ rec.blocks = h.devs[d].blocks
      BY <2>5 DEF DevRecords
    <3>3. r = WithDev(h, d, rec)
      OBVIOUS
    <3> HIDE DEF r, rec
    <3>4. CASE outcome = <<r, d>>
      <4>1. /\ TableIn(r) /\ OpenIn(r) = OpenIn(h)
            /\ r.devs[d] = rec /\ r.frames = h.frames /\ OthersSame(h, r, d) /\ LruKept(h, r)
        BY <2>4, <2>5, <3>2, <3>3, Rewritten DEF Sound
      <4>2. CountedIn(r)
        <5> SUFFICES ASSUME NEW e \in Idevs PROVE Blocks(r, e) = Cardinality(InTree(r, e))
          BY DEF CountedIn
        <5>1. InTree(r, e) = InTree(h, e)
          BY <4>1 DEF InTree
        <5>2. Blocks(r, e) = Blocks(h, e)
          <6>1. CASE e = d
            BY <2>5, <3>2, <4>1, <6>1, DevAssumption DEF Blocks
          <6>2. CASE e # d
            BY <4>1, <6>2 DEF OthersSame, Blocks
          <6> QED BY <6>1, <6>2
        <5> QED BY <2>4, <5>1, <5>2 DEF Sound, CountedIn
      <4>3. OthersSame(iom, r, d)
        BY <2>4, <4>1 DEF OthersSame
      <4>4. \A x, y : Precedes(r.dev_lru, x, y) => y = d \/ (x # d /\ Precedes(iom.dev_lru, x, y))
        BY <2>4, <4>1 DEF LruKept
      <4>5. iom.devs[d].flags.ro /\ ~flags.ro /\ ~flags.excl /\ ~iom.devs[d].flags.excl
        BY <2>5, <2>8 DEF SlowPath, _need_upgrade_dev
      <4>6. /\ Sound(r) /\ d \in OpenIn(r) /\ r.frames = iom.frames /\ r.devs[d].path = path
            /\ r.devs[d].holders = iom.devs[d].holders + 1 /\ r.devs[d].flags = flags
        BY <2>4, <2>5, <3>2, <4>1, <4>2 DEF Sound
      <4>7. Effect(iom, r, d, path, flags)
        BY <2>2, <4>3, <4>4, <4>5, <4>6, StaysOpen
      <4> QED BY <3>4, <4>7
    <3>5. CASE outcome = <<_dec_holders(h, d), NoDev>>
      <4>1. outcome[1] = _dec_holders(h, d) /\ outcome[2] = NoDev
        BY <3>5
      <4> QED BY <2>2, <2>h, <4>1, GivesUp
    <3> QED BY <3>1, <3>4, <3>5
  <2> QED BY <2>3, <2>6, <2>7, <2>8 DEF h
<1> QED BY <1>2, <1>3

-----------------------------------------------------------------------------
(* The other calls, from the io manager m to r                             *)

OpenKept(m, r) ==
  \A d \in OpenIn(r) :
    d \in OpenIn(m) /\ r.devs[d].path = m.devs[d].path /\ r.devs[d].flags = m.devs[d].flags
HoldersKept(m, r) == \A d \in Idevs : Holders(r, d) = Holders(m, d)

Kept(m, r) == Sound(r) /\ InUse(r) /\ HoldersKept(m, r) /\ OpenKept(m, r) /\ LruKept(m, r)

\* Frames do not matter to the table.
LEMMA OtherFrames ==
  ASSUME NEW m, TableIn(m), NEW frames \in [Frames -> FrameRecords \cup {Free}],
         NEW r, r = [m EXCEPT !.frames = frames]
  PROVE  /\ TableIn(r) /\ OpenIn(r) = OpenIn(m) /\ r.devs = m.devs /\ r.frames = frames
         /\ LruKept(m, r)
<1>1. m \in Managers
  BY DEF TableIn
<1>2. /\ r.devs = m.devs /\ r.frames = frames /\ r.dev_tree = m.dev_tree /\ r.dev_lru = m.dev_lru
      /\ r.nr_open = m.nr_open /\ r.nr_fds = m.nr_fds /\ r \in Managers
  BY <1>1 DEF Managers
<1>3. OpenIn(r) = OpenIn(m)
  BY <1>2 DEF OpenIn
<1> QED BY <1>2, <1>3 DEF TableIn, LruKept

\* io_put_dev
LEMMA Putting ==
  ASSUME NEW m, Sound(m), InUse(m), NEW d \in OpenIn(m), m.devs[d].holders > 0,
         NEW r, r = _dec_holders(m, d)
  PROVE  /\ Sound(r) /\ InUse(r) /\ OpenKept(m, r) /\ LruKept(m, r) /\ r.frames = m.frames
         /\ \A e \in Idevs : Holders(r, e) = IF e = d THEN Holders(m, e) - 1 ELSE Holders(m, e)
<1>1. /\ TableIn(m) /\ CountedIn(m) /\ d \in Idevs /\ m.devs[d] \in DevRecords /\ m.devs[d] # Closed
  BY DEF Sound, TableIn, OpenIn, Managers
<1>2. /\ TableIn(r) /\ r.frames = m.frames /\ OthersSame(m, r, d) /\ LruKept(m, r)
      /\ IF m.devs[d].holders = 1 /\ m.devs[d].blocks = 0
         THEN r.devs[d] = Closed
         ELSE r.devs[d] = WithHolders(m.devs[d], m.devs[d].holders - 1)
  BY <1>1, DecHolders
<1>3. m.devs[d].holders \in Nat \ {0} /\ m.devs[d].blocks \in Nat
  BY <1>1 DEF DevRecords
<1>4. \A e \in Idevs : e # d => r.devs[e] = m.devs[e]
  BY <1>2 DEF OthersSame
<1>5. \/ r.devs[d] = Closed /\ m.devs[d].holders = 1 /\ m.devs[d].blocks = 0
      \/ /\ r.devs[d] # Closed /\ r.devs[d].path = m.devs[d].path /\ r.devs[d].flags = m.devs[d].flags
         /\ r.devs[d].holders = m.devs[d].holders - 1 /\ r.devs[d].blocks = m.devs[d].blocks
         /\ r.devs[d].holders + r.devs[d].blocks > 0
  <2>1. CASE m.devs[d].holders = 1 /\ m.devs[d].blocks = 0
    BY <1>2, <2>1
  <2>2. CASE ~(m.devs[d].holders = 1 /\ m.devs[d].blocks = 0)
    <3>1. r.devs[d] = WithHolders(m.devs[d], m.devs[d].holders - 1)
      BY <1>2, <2>2
    <3>2. /\ r.devs[d] \in DevRecords
          /\ r.devs[d].path = m.devs[d].path /\ r.devs[d].flags = m.devs[d].flags
          /\ r.devs[d].holders = m.devs[d].holders - 1 /\ r.devs[d].blocks = m.devs[d].blocks
      BY <1>1, <1>3, <3>1 DEF WithHolders, DevRecords
    <3> QED BY <1>3, <2>2, <3>2, DevAssumption
  <2> QED BY <2>1, <2>2
<1>6. CountedIn(r)
  <2> SUFFICES ASSUME NEW e \in Idevs PROVE Blocks(r, e) = Cardinality(InTree(r, e))
    BY DEF CountedIn
  <2>1. InTree(r, e) = InTree(m, e)
    BY <1>2 DEF InTree
  <2>2. Blocks(r, e) = Blocks(m, e)
    BY <1>1, <1>4, <1>5 DEF Blocks
  <2> QED BY <1>1, <2>1, <2>2 DEF CountedIn
<1>7. InUse(r) /\ OpenKept(m, r)
  BY <1>1, <1>4, <1>5 DEF InUse, OpenKept, OpenIn
<1>8. ASSUME NEW e \in Idevs PROVE Holders(r, e) = IF e = d THEN Holders(m, e) - 1 ELSE Holders(m, e)
  <2>1. CASE e = d
    BY <1>1, <1>3, <1>5, <2>1 DEF Holders
  <2>2. CASE e # d
    BY <1>4, <2>2 DEF Holders
  <2> QED BY <2>1, <2>2
<1> QED BY <1>2, <1>6, <1>7, <1>8 DEF Sound

\* io_invalidate_dev
LEMMA Invalidating ==
  ASSUME NEW m, Sound(m), InUse(m), NEW d \in OpenIn(m), m.devs[d].holders > 0,
         NEW failed \in Failures(m, d), NEW r, r = _invalidate_dev(m, d, failed)
  PROVE  Kept(m, r) /\ FramesEffect(m, r, {d})
<1>1. TableIn(m) /\ d \in Idevs /\ m.devs[d] \in DevRecords /\ m.devs[d] # Closed
  BY DEF Sound, TableIn, OpenIn, Managers
<1>2. m.devs[d].holders \in Nat /\ m.devs[d].blocks \in Nat
  BY <1>1 DEF DevRecords
<1>3. m.devs[d].holders + m.devs[d].blocks > 0 /\ m.devs[d].holders # 0
  BY <1>2
<1>4. /\ Sound(r) /\ OthersSame(m, r, d) /\ LruKept(m, r) /\ FramesEffect(m, r, {d})
      /\ r.devs[d] = WithBlocks(m.devs[d], 0)
  BY <1>3, Invalidated
<1>5. /\ r.devs[d] \in DevRecords
      /\ r.devs[d].path = m.devs[d].path /\ r.devs[d].flags = m.devs[d].flags
      /\ r.devs[d].holders = m.devs[d].holders /\ r.devs[d].blocks = 0
  BY <1>1, <1>4 DEF WithBlocks, DevRecords
<1>6. r.devs[d] # Closed /\ r.devs[d].holders + r.devs[d].blocks > 0
  BY <1>2, <1>5, DevAssumption
<1>7. \A e \in Idevs : e # d => r.devs[e] = m.devs[e]
  BY <1>4 DEF OthersSame
<1> QED BY <1>1, <1>4, <1>5, <1>6, <1>7 DEF Kept, InUse, OpenKept, HoldersKept, Holders, OpenIn

WithFrame(m, f, rec) == [m EXCEPT !.frames[f] = rec]

\* A frame that stays where it is changes.
LEMMA FrameRewritten ==
  ASSUME NEW m, Sound(m), InUse(m), NEW f \in Frames, m.frames[f] # Free, NEW rec \in FrameRecords,
         rec.dev = m.frames[f].dev, rec.in_tree = m.frames[f].in_tree,
         NEW r, r = WithFrame(m, f, rec)
  PROVE  /\ Kept(m, r) /\ r.frames[f] = rec
         /\ \A g \in Frames : g # f => r.frames[g] = m.frames[g]
<1>1. TableIn(m) /\ CountedIn(m) /\ m.frames \in [Frames -> FrameRecords \cup {Free}] /\ m \in Managers
  BY DEF Sound, TableIn, Managers
<1> DEFINE frames == [m.frames EXCEPT ![f] = rec]
<1>2. frames \in [Frames -> FrameRecords \cup {Free}] /\ r = [m EXCEPT !.frames = frames]
  BY <1>1 DEF WithFrame
<1>3. frames[f] = rec /\ \A g \in Frames : g # f => frames[g] = m.frames[g]
  BY <1>1
<1>4. rec # Free
  BY DevAssumption
<1> HIDE DEF frames
<1>5. /\ TableIn(r) /\ OpenIn(r) = OpenIn(m) /\ r.devs = m.devs /\ r.frames = frames /\ LruKept(m, r)
  BY <1>1, <1>2, OtherFrames
<1>6. \A d : InTree(r, d) = InTree(m, d)
  BY <1>3, <1>4, <1>5 DEF InTree
<1>7. CountedIn(r)
  BY <1>1, <1>5, <1>6 DEF CountedIn, Blocks
<1>8. InUse(r) /\ HoldersKept(m, r) /\ OpenKept(m, r)
  BY <1>5 DEF InUse, HoldersKept, Holders, OpenKept
<1>9. r.frames[f] = rec /\ \A g \in Frames : g # f => r.frames[g] = m.frames[g]
  BY <1>3, <1>5
<1> QED BY <1>5, <1>7, <1>8, <1>9 DEF Kept, Sound

\* miss
LEMMA Caching ==
  ASSUME NEW m, Sound(m), InUse(m), NEW d \in OpenIn(m), NEW f \in Frames, m.frames[f] = Free,
         NEW rec \in FrameRecords, rec.dev = d, rec.in_tree,
         NEW r, r = WithFrame(_inc_blocks(m, d), f, rec)
  PROVE  /\ Kept(m, r) /\ r.frames[f] = rec
         /\ \A g \in Frames : g # f => r.frames[g] = m.frames[g]
<1>1. /\ TableIn(m) /\ CountedIn(m) /\ m.frames \in [Frames -> FrameRecords \cup {Free}]
      /\ m \in Managers /\ d \in Idevs /\ m.devs[d] \in DevRecords /\ m.devs[d] # Closed
  BY DEF Sound, TableIn, Managers, OpenIn
<1> DEFINE dev == WithBlocks(m.devs[d], m.devs[d].blocks + 1)
           k == WithDev(m, d, dev)
           frames == [m.frames EXCEPT ![f] = rec]
<1>2. /\ dev \in DevRecords /\ dev.path = m.devs[d].path /\ dev.flags = m.devs[d].flags
      /\ dev.holders = m.devs[d].holders /\ dev.blocks = m.devs[d].blocks + 1
  BY <1>1 DEF DevRecords, WithBlocks
<1>k. k = WithDev(m, d, dev)
  OBVIOUS
<1>3. k = _inc_blocks(m, d)
  BY <1>1 DEF Managers, WithDev, WithBlocks, _inc_blocks
<1>4. k.frames = m.frames
  BY <1>1 DEF Managers, WithDev
<1> HIDE DEF dev, k
<1>5. /\ TableIn(k) /\ OpenIn(k) = OpenIn(m) /\ k.devs[d] = dev /\ OthersSame(m, k, d) /\ LruKept(m, k)
  <2>1. TableIn(m) /\ d \in OpenIn(m) /\ dev \in DevRecords /\ dev.path = m.devs[d].path
    BY <1>1, <1>2
  <2> QED BY ONLY <1>k, <2>1, Rewritten
<1>6. frames \in [Frames -> FrameRecords \cup {Free}] /\ r = [k EXCEPT !.frames = frames]
  BY <1>1, <1>3, <1>4, <1>5 DEF TableIn, Managers, WithFrame
<1>7. frames[f] = rec /\ \A g \in Frames : g # f => frames[g] = m.frames[g]
  BY <1>1
<1>8. rec # Free
  BY DevAssumption
<1> HIDE DEF frames
<1>9. /\ TableIn(r) /\ OpenIn(r) = OpenIn(k) /\ r.devs = k.devs /\ r.frames = frames /\ LruKept(k, r)
  BY <1>5, <1>6, OtherFrames
<1>10. r.devs[d] = dev /\ \A e \in Idevs : e # d => r.devs[e] = m.devs[e]
  BY <1>5, <1>9 DEF OthersSame
<1>11. CountedIn(r)
  <2> SUFFICES ASSUME NEW e \in Idevs PROVE Blocks(r, e) = Cardinality(InTree(r, e))
    BY DEF CountedIn
  <2>1. CASE e = d
    <3>1. InTree(r, d) = InTree(m, d) \cup {f} /\ f \notin InTree(m, d)
      <4>1. \A g \in Frames : g # f => (g \in InTree(r, d) <=> g \in InTree(m, d))
        BY <1>7, <1>9 DEF InTree
      <4>2. f \in InTree(r, d) /\ f \notin InTree(m, d)
        <5>1. r.frames[f] = rec
          BY <1>7, <1>9
        <5>2. r.frames[f] # Free /\ r.frames[f].dev = d /\ r.frames[f].in_tree
          BY <1>8, <5>1
        <5> QED BY <5>2 DEF InTree
      <4>3. \A g \in InTree(r, d) \cup InTree(m, d) : g \in Frames
        BY DEF InTree
      <4> QED BY <4>1, <4>2, <4>3
    <3>2. Cardinality(InTree(r, d)) = Cardinality(InTree(m, d)) + 1
      <4>1. IsFiniteSet(InTree(m, d))
        BY TreeIsFinite
      <4> QED BY ONLY <3>1, <4>1, FS_AddElement
    <3>3. Blocks(r, d) = Blocks(m, d) + 1
      BY <1>1, <1>2, <1>10, DevAssumption DEF Blocks
    <3> QED BY <1>1, <2>1, <3>2, <3>3 DEF CountedIn
  <2>2. CASE e # d
    <3>1. InTree(r, e) = InTree(m, e)
      BY <1>7, <1>8, <1>9, <2>2 DEF InTree
    <3>2. Blocks(r, e) = Blocks(m, e)
      BY <1>10, <2>2 DEF Blocks
    <3> QED BY <1>1, <3>1, <3>2 DEF CountedIn
  <2> QED BY <2>1, <2>2
<1>12. InUse(r)
  <2>1. m.devs[d].holders \in Nat /\ m.devs[d].blocks \in Nat
    BY <1>1 DEF DevRecords
  <2>2. dev.holders + dev.blocks > 0
    BY <1>2, <2>1
  <2> QED BY <1>5, <1>9, <1>10, <2>2 DEF InUse, OpenIn
<1>13. HoldersKept(m, r) /\ OpenKept(m, r)
  BY <1>1, <1>2, <1>5, <1>9, <1>10, DevAssumption DEF HoldersKept, Holders, OpenKept, OpenIn
<1>14. LruKept(m, r)
  BY <1>5, <1>9 DEF LruKept
<1> QED BY <1>7, <1>9, <1>11, <1>12, <1>13, <1>14 DEF Kept, Sound

\* evicted
LEMMA Evicting ==
  ASSUME NEW m, Sound(m), InUse(m), NEW f \in Frames, m.frames[f] # Free,
         NEW n, n = WithFrame(m, f, Free),
         NEW r, r = IF m.frames[f].in_tree THEN _dec_blocks(n, m.frames[f].dev, 1) ELSE n
  PROVE  /\ Kept(m, r) /\ r.frames[f] = Free
         /\ \A g \in Frames : g # f => r.frames[g] = m.frames[g]
<1>1. /\ TableIn(m) /\ CountedIn(m) /\ m.frames \in [Frames -> FrameRecords \cup {Free}]
      /\ m \in Managers /\ m.frames[f] \in FrameRecords
  BY DEF Sound, TableIn, Managers
<1> DEFINE frames == [m.frames EXCEPT ![f] = Free]
           d == m.frames[f].dev
<1>2. frames \in [Frames -> FrameRecords \cup {Free}] /\ n = [m EXCEPT !.frames = frames]
  BY <1>1 DEF WithFrame
<1>3. frames[f] = Free /\ \A g \in Frames : g # f => frames[g] = m.frames[g]
  BY <1>1
<1> HIDE DEF frames
<1>4. /\ TableIn(n) /\ OpenIn(n) = OpenIn(m) /\ n.devs = m.devs /\ n.frames = frames /\ LruKept(m, n)
  BY <1>1, <1>2, OtherFrames
<1>5. d \in Idevs
  BY <1>1 DEF FrameRecords
<1>6. ASSUME NEW e, e # d \/ ~m.frames[f].in_tree PROVE InTree(n, e) = InTree(m, e)
  BY <1>3, <1>4, <1>6 DEF InTree
<1>7. CASE ~m.frames[f].in_tree
  <2>1. r = n
    BY <1>7
  <2>2. CountedIn(n)
    BY <1>1, <1>4, <1>6, <1>7 DEF CountedIn, Blocks
  <2> QED BY <1>3, <1>4, <2>1, <2>2 DEF Kept, Sound, InUse, HoldersKept, Holders, OpenKept
<1>8. CASE m.frames[f].in_tree
  <2>1. r = _dec_blocks(n, d, 1)
    BY <1>8
  <2>2. InTree(n, d) = InTree(m, d) \ {f} /\ f \in InTree(m, d)
    BY <1>3, <1>4, <1>8 DEF InTree
  <2> HIDE DEF d
  <2>3. Cardinality(InTree(n, d)) = Cardinality(InTree(m, d)) - 1
    BY <2>2, TreeIsFinite, FS_RemoveElement
  <2>4. Cardinality(InTree(n, d)) \in Nat /\ Cardinality(InTree(m, d)) \in Nat
    BY TreeIsFinite
  <2>5. Blocks(m, d) = Cardinality(InTree(n, d)) + 1
    BY <1>1, <1>5, <2>3, <2>4 DEF CountedIn
  <2>6. m.devs[d] # Closed /\ d \in OpenIn(n) /\ d \in OpenIn(m)
    BY <1>4, <1>5, <2>4, <2>5 DEF Blocks, OpenIn
  <2>7. n.devs[d].blocks = Cardinality(InTree(n, d)) + 1 /\ m.devs[d] \in DevRecords
    BY <1>1, <1>4, <1>5, <2>5, <2>6 DEF Blocks, Managers
  <2>8. \A e \in Idevs \ {d} : Blocks(n, e) = Cardinality(InTree(n, e))
    BY <1>1, <1>4, <1>6 DEF CountedIn, Blocks, d
  <2>9. /\ Sound(r) /\ r.frames = n.frames /\ OthersSame(n, r, d) /\ LruKept(n, r)
        /\ IF n.devs[d].holders = 0 /\ Cardinality(InTree(n, d)) = 0
           THEN r.devs[d] = Closed
           ELSE r.devs[d] = WithBlocks(n.devs[d], Cardinality(InTree(n, d)))
    <3> DEFINE one == 1
    <3>1. one \in Nat /\ one # 0
      OBVIOUS
    <3>2. n.devs[d].blocks = Cardinality(InTree(n, d)) + one /\ r = _dec_blocks(n, d, one)
      BY <2>1, <2>7
    <3> HIDE DEF one
    <3>3. TableIn(n) /\ d \in OpenIn(n)
      BY <1>4, <2>6
    <3> QED BY ONLY <2>8, <3>1, <3>2, <3>3, CountedAgain
  <2>10. m.devs[d].holders \in Nat
    BY <2>7 DEF DevRecords
  <2>11. \/ r.devs[d] = Closed /\ m.devs[d].holders = 0
         \/ /\ r.devs[d] # Closed
            /\ r.devs[d].path = m.devs[d].path /\ r.devs[d].flags = m.devs[d].flags
            /\ r.devs[d].holders = m.devs[d].holders
            /\ r.devs[d].holders + r.devs[d].blocks > 0
    <3>1. CASE n.devs[d].holders = 0 /\ Cardinality(InTree(n, d)) = 0
      BY <1>4, <2>9, <3>1
    <3>2. CASE ~(n.devs[d].holders = 0 /\ Cardinality(InTree(n, d)) = 0)
      <4>1. r.devs[d] = WithBlocks(m.devs[d], Cardinality(InTree(n, d)))
        BY <1>4, <2>9, <3>2
      <4>2. /\ r.devs[d] \in DevRecords
            /\ r.devs[d].path = m.devs[d].path /\ r.devs[d].flags = m.devs[d].flags
            /\ r.devs[d].holders = m.devs[d].holders /\ r.devs[d].blocks = Cardinality(InTree(n, d))
        BY <2>4, <2>7, <4>1 DEF WithBlocks, DevRecords
      <4> QED BY <1>4, <2>4, <2>10, <3>2, <4>2, DevAssumption
    <3> QED BY <3>1, <3>2
  <2>12. \A e \in Idevs : e # d => r.devs[e] = m.devs[e]
    BY <1>4, <2>9 DEF OthersSame
  <2>13. InUse(r) /\ HoldersKept(m, r) /\ OpenKept(m, r)
    <3>1. d \in Idevs /\ m.devs[d] # Closed
      BY <2>6 DEF OpenIn
    <3>2. InUse(r)
      BY <2>11, <2>12 DEF InUse, OpenIn
    <3>3. HoldersKept(m, r)
      BY <2>11, <2>12, <3>1 DEF HoldersKept, Holders
    <3>4. OpenKept(m, r)
      BY <2>11, <2>12, <3>1 DEF OpenKept, OpenIn
    <3> QED BY <3>2, <3>3, <3>4
  <2>14. LruKept(m, r)
    BY <1>4, <2>9 DEF LruKept
  <2> QED BY <1>3, <1>4, <2>9, <2>13, <2>14 DEF Kept
<1> QED BY <1>7, <1>8

-----------------------------------------------------------------------------
(* The invariant                                                           *)

Handed == [dev : Idevs, flags : Flags]

HandlesOK == handles \in [Handles -> Handed \cup {NoHandle}]

\* A device counts its holders, ...
HoldersOK == \A d \in Idevs : Holders(iom, d) = Cardinality(HandlesOf(d))

\* ... and a client that holds a block holds its device too.
HeldOK ==
  \A f \in Frames : iom.frames[f] # Free /\ iom.frames[f].ref => HandlesOf(iom.frames[f].dev) # {}

\* The lru list is in the order the devices were got.
RecentOK ==
  \A x, y : Precedes(iom.dev_lru, x, y) => <<iom.devs[x].path, iom.devs[y].path>> \in recent

IInv == HandlesOK /\ Sound(iom) /\ InUse(iom) /\ HoldersOK /\ HeldOK /\ RecentOK

\* A device that is held is open.
LEMMA HeldIsOpen ==
  ASSUME IInv, NEW h \in Handles, handles[h] # NoHandle
  PROVE  /\ handles[h] \in Handed /\ handles[h].dev \in OpenIn(iom)
         /\ iom.devs[handles[h].dev].holders > 0
<1>1. handles[h] \in Handed
  BY DEF IInv, HandlesOK
<1>2. handles[h].dev \in Idevs /\ h \in HandlesOf(handles[h].dev)
  BY <1>1 DEF Handed, HandlesOf
<1>3. PICK d \in Idevs : d = handles[h].dev
  BY <1>2
<1>4. IsFiniteSet(HandlesOf(d))
  BY DevAssumption, FS_Subset DEF HandlesOf
<1>5. Cardinality(HandlesOf(d)) # 0 /\ Cardinality(HandlesOf(d)) \in Nat
  BY <1>2, <1>3, <1>4, FS_EmptySet, FS_CardinalityType
<1>6. Holders(iom, d) = Cardinality(HandlesOf(d))
  BY DEF IInv, HoldersOK
<1>7. iom.devs[d] # Closed /\ iom.devs[d].holders > 0
  BY <1>5, <1>6 DEF Holders
<1> QED BY <1>1, <1>3, <1>7 DEF OpenIn

LEMMA HandlesAreFinite ==
  ASSUME NEW d
  PROVE  IsFiniteSet(HandlesOf(d)) /\ Cardinality(HandlesOf(d)) \in Nat
<1>1. HandlesOf(d) \in SUBSET Handles
  BY DEF HandlesOf
<1> QED BY <1>1, DevAssumption, FS_Subset, FS_CardinalityType

\* A device nobody holds has no block that is held.
LEMMA UnusedFramesFree ==
  ASSUME IInv, NEW f \in Frames, iom.frames[f] # Free, iom.frames[f].ref
  PROVE  iom.frames[f].dev \notin Unused(iom)
<1> SUFFICES ASSUME NEW d \in Unused(iom), d = iom.frames[f].dev PROVE FALSE
  OBVIOUS
<1>1. HandlesOf(d) # {}
  BY DEF IInv, HeldOK
<1>2. d \in Idevs /\ Holders(iom, d) = 0
  BY DEF Unused
<1>3. Cardinality(HandlesOf(d)) = 0
  BY <1>2 DEF IInv, HoldersOK
<1> QED BY <1>1, <1>3, HandlesAreFinite, FS_EmptySet

\* The order is kept when nothing is got.
LEMMA RecentKept ==
  ASSUME IInv, TableIn(iom'), OpenKept(iom, iom'), LruKept(iom, iom'),
         recent' = recent \/ recent' = StillOpen(recent)
  PROVE  RecentOK'
<1> SUFFICES ASSUME NEW x, NEW y, Precedes(iom'.dev_lru, x, y)
             PROVE  <<iom'.devs[x].path, iom'.devs[y].path>> \in recent'
  BY DEF RecentOK
<1>1. x \in OpenIn(iom') /\ y \in OpenIn(iom')
  BY DEF TableIn, Precedes, Range
<1>2. iom'.devs[x].path = iom.devs[x].path /\ iom'.devs[y].path = iom.devs[y].path
  BY <1>1 DEF OpenKept
<1>3. <<iom'.devs[x].path, iom'.devs[y].path>> \in recent
  BY <1>2 DEF IInv, RecentOK, LruKept
<1>4. /\ iom'.dev_tree[iom'.devs[x].path] # NoDev
      /\ iom'.dev_tree[iom'.devs[y].path] # NoDev
  <2> SUFFICES ASSUME NEW z \in OpenIn(iom') PROVE iom'.dev_tree[iom'.devs[z].path] # NoDev
    BY <1>1
  <2>1. z \in Idevs /\ iom'.devs[z].path \in Paths
    BY DEF TableIn, Managers, OpenIn, DevRecords
  <2>2. iom'.dev_tree[iom'.devs[z].path] = z
    BY <2>1 DEF TableIn
  <2> QED BY <2>1, <2>2, DevAssumption
<1>5. <<iom'.devs[x].path, iom'.devs[y].path>> \in StillOpen(recent)
  BY <1>3, <1>4 DEF StillOpen
<1> QED BY <1>3, <1>5

\* What the blocks do leaves the holders alone.
LEMMA BlockStep ==
  ASSUME IInv, Kept(iom, iom'), handles' = handles, HeldOK',
         recent' = recent \/ recent' = StillOpen(recent)
  PROVE  IInv'
<1>1. RecentOK'
  BY RecentKept DEF Kept, Sound
<1>2. HandlesOK'
  BY DEF IInv, HandlesOK
<1>3. HoldersOK'
  <2>1. \A d \in Idevs : HandlesOf(d)' = HandlesOf(d)
    BY DEF HandlesOf
  <2>2. \A d \in Idevs : Holders(iom', d) = Cardinality(HandlesOf(d))
    BY DEF Kept, HoldersKept, IInv, HoldersOK
  <2>3. \A d \in Idevs : Holders(iom', d) = Cardinality(HandlesOf(d)')
    BY <2>1, <2>2
  <2> QED BY <2>3 DEF HoldersOK
<1> QED BY <1>1, <1>2, <1>3 DEF IInv, Kept

LEMMA NothingIsOpen ==
  ASSUME NEW m, m = NothingOpen
  PROVE  /\ Sound(m) /\ InUse(m) /\ OpenIn(m) = {}
         /\ \A d \in Idevs : Holders(m, d) = 0
         /\ \A f \in Frames : m.frames[f] = Free
         /\ \A x, y : ~Precedes(m.dev_lru, x, y)
<1>1. /\ m.devs = [d \in Idevs |-> Closed] /\ m.dev_tree = [p \in Paths |-> NoDev]
      /\ m.dev_lru = << >> /\ m.nr_open = 0 /\ m.nr_fds = 0
      /\ m.frames = [f \in Frames |-> Free]
  BY DEF NothingOpen
<1>2. m \in Managers
  BY DEF NothingOpen, Managers
<1>3. OpenIn(m) = {}
  BY <1>1 DEF OpenIn
<1>4. Cardinality(OpenIn(m)) = 0
  BY <1>3, FS_EmptySet
<1>5. Range(m.dev_lru) = {} /\ NoDups(m.dev_lru) /\ \A x, y : ~Precedes(m.dev_lru, x, y)
  BY <1>1 DEF Range, NoDups, Precedes
<1>6. TableIn(m)
  <2>1. \A p \in Paths, d \in Idevs : m.dev_tree[p] # d
    BY <1>1, DevAssumption
  <2> QED BY <1>1, <1>2, <1>3, <1>4, <1>5, <2>1, DevAssumption DEF TableIn
<1>7. CountedIn(m)
  <2> SUFFICES ASSUME NEW d \in Idevs PROVE Blocks(m, d) = Cardinality(InTree(m, d))
    BY DEF CountedIn
  <2>1. InTree(m, d) = {} /\ Blocks(m, d) = 0
    BY <1>1 DEF InTree, Blocks
  <2> QED BY <2>1, FS_EmptySet
<1>8. InUse(m) /\ \A d \in Idevs : Holders(m, d) = 0
  BY <1>1, <1>3 DEF InUse, Holders
<1> QED BY <1>1, <1>3, <1>5, <1>6, <1>7, <1>8 DEF Sound

LEMMA InitInv == Init => IInv
<1> SUFFICES ASSUME Init PROVE IInv
  OBVIOUS
<1>1. iom = NothingOpen /\ handles = [h \in Handles |-> NoHandle] /\ recent = {}
  BY DEF Init
<1>2. /\ Sound(iom) /\ InUse(iom) /\ \A d \in Idevs : Holders(iom, d) = 0
      /\ \A f \in Frames : iom.frames[f] = Free
      /\ \A x, y : ~Precedes(iom.dev_lru, x, y)
  BY <1>1, NothingIsOpen
<1>3. HandlesOK /\ HeldOK /\ RecentOK
  BY <1>1, <1>2 DEF HandlesOK, HeldOK, RecentOK
<1>4. HoldersOK
  <2> SUFFICES ASSUME NEW d \in Idevs PROVE Holders(iom, d) = Cardinality(HandlesOf(d))
    BY DEF HoldersOK
  <2>1. HandlesOf(d) = {}
    BY <1>1 DEF HandlesOf
  <2> QED BY <1>2, <2>1, FS_EmptySet
<1> QED BY <1>2, <1>3, <1>4 DEF IInv

-----------------------------------------------------------------------------
(* Every call keeps it                                                     *)

LEMMA GetDevInv ==
  ASSUME IInv, "renamed" \notin Faults,
         NEW h \in Handles, NEW path \in Paths, NEW flags \in Flags, io_get_dev(h, path, flags)
  PROVE  /\ IInv'
         /\ \E e : /\ Effect(iom, iom', e, path, flags)
                   /\ handles' = IF e = NoDev THEN handles
                                 ELSE [handles EXCEPT ![h] = [dev |-> e, flags |-> flags]]
<1>1. PICK outcome \in _get_dev(path, flags) :
        /\ iom' = outcome[1]
        /\ handles' = IF outcome[2] = NoDev THEN handles
                      ELSE [handles EXCEPT ![h] = [dev |-> outcome[2], flags |-> flags]]
  BY DEF io_get_dev
<1> DEFINE e == outcome[2]
<1>2. Effect(iom, iom', e, path, flags)
  <2>1. Sound(iom) /\ InUse(iom)
    BY DEF IInv
  <2>2. Effect(iom, outcome[1], outcome[2], path, flags)
    BY <2>1, GetEffect
  <2> QED BY <1>1, <2>2
<1>3. handles' = IF e = NoDev THEN handles ELSE [handles EXCEPT ![h] = [dev |-> e, flags |-> flags]]
  BY <1>1
<1>4. recent' = StillOpen(NowLast(path)) /\ handles[h] = NoHandle
  BY DEF io_get_dev
<1> HIDE DEF e
<1>5. /\ Sound(iom') /\ InUse(iom') /\ e \in Idevs \cup {NoDev}
      /\ HoldersEffect(iom, iom', e) /\ OpenEffect(iom, iom', e) /\ LruEffect(iom, iom', path)
      /\ FramesEffect(iom, iom', Unused(iom)) /\ FlagsEffect(iom, iom', e, path, flags)
  BY <1>2 DEF Effect
<1>6. handles \in [Handles -> Handed \cup {NoHandle}] /\ NoDev \notin Idevs /\ NoHandle \notin Handed
  BY DevAssumption DEF IInv, HandlesOK, Handed
<1>7. HandlesOK'
  BY <1>3, <1>5, <1>6 DEF HandlesOK, Handed
<1>8. \A d \in Idevs : HandlesOf(d)' = IF d = e THEN HandlesOf(d) \cup {h} ELSE HandlesOf(d)
  <2> SUFFICES ASSUME NEW d \in Idevs
               PROVE  HandlesOf(d)' = IF d = e THEN HandlesOf(d) \cup {h} ELSE HandlesOf(d)
    OBVIOUS
  <2>1. CASE e = NoDev
    BY <1>3, <1>6, <2>1 DEF HandlesOf
  <2>2. CASE e # NoDev
    <3>1. [dev |-> e, flags |-> flags] \in Handed
      BY <1>5, <2>2 DEF Handed
    <3>2. \A g \in Handles : handles'[g] = IF g = h THEN [dev |-> e, flags |-> flags] ELSE handles[g]
      BY <1>3, <1>6, <2>2
    <3>3. handles'[h] # NoHandle /\ handles'[h].dev = e /\ \A g \in Handles : g # h => handles'[g] = handles[g]
      BY <1>6, <3>1, <3>2
    <3>4. HandlesOf(d)' = {g \in Handles : handles'[g] # NoHandle /\ handles'[g].dev = d}
      BY DEF HandlesOf
    <3> QED BY <1>4, <3>3, <3>4 DEF HandlesOf
  <2> QED BY <2>1, <2>2
<1>9. \A d \in Idevs : h \notin HandlesOf(d)
  BY <1>4 DEF HandlesOf
<1>10. HoldersOK'
  <2> SUFFICES ASSUME NEW d \in Idevs PROVE Holders(iom', d) = Cardinality(HandlesOf(d)')
    BY DEF HoldersOK
  <2>1. Holders(iom, d) = Cardinality(HandlesOf(d))
    BY DEF IInv, HoldersOK
  <2>2. CASE d = e
    <3>1. Cardinality(HandlesOf(d) \cup {h}) = Cardinality(HandlesOf(d)) + 1
      BY <1>9, HandlesAreFinite, FS_AddElement
    <3> QED BY <1>5, <1>8, <2>1, <2>2, <3>1 DEF HoldersEffect
  <2>3. CASE d # e
    BY <1>5, <1>8, <2>1, <2>3 DEF HoldersEffect
  <2> QED BY <2>2, <2>3
<1>11. HeldOK'
  <2> SUFFICES ASSUME NEW f \in Frames, iom'.frames[f] # Free, iom'.frames[f].ref
               PROVE  HandlesOf(iom.frames[f].dev)' # {}
    BY DEF HeldOK
  <2>1. iom.frames[f] # Free /\ iom.frames[f].dev = iom'.frames[f].dev /\ iom.frames[f].ref
    BY <1>5 DEF FramesEffect
  <2>2. PICK d \in Idevs : d = iom.frames[f].dev
    BY <2>1 DEF IInv, Sound, TableIn, Managers, FrameRecords
  <2>3. HandlesOf(d) # {}
    BY <2>1, <2>2 DEF IInv, HeldOK
  <2>4. \E g \in Handles : handles'[g] # NoHandle /\ handles'[g].dev = d
    BY <1>8, <2>3 DEF HandlesOf
  <2> QED BY <2>1, <2>2, <2>4 DEF HandlesOf
<1>12. RecentOK'
  <2> SUFFICES ASSUME NEW x, NEW y, Precedes(iom'.dev_lru, x, y)
               PROVE  <<iom'.devs[x].path, iom'.devs[y].path>> \in recent'
    BY DEF RecentOK
  <2> DEFINE p == iom'.devs[x].path
             q == iom'.devs[y].path
  <2>1. x \in OpenIn(iom') /\ y \in OpenIn(iom') /\ TableIn(iom')
    BY <1>5 DEF Sound, TableIn, Precedes, Range
  <2>2. /\ p \in Paths /\ q \in Paths /\ iom'.dev_tree[p] # NoDev /\ iom'.dev_tree[q] # NoDev
    <3> SUFFICES ASSUME NEW z \in OpenIn(iom')
                 PROVE  iom'.devs[z].path \in Paths /\ iom'.dev_tree[iom'.devs[z].path] # NoDev
      BY <2>1
    <3>1. z \in Idevs /\ iom'.devs[z].path \in Paths
      BY <2>1 DEF TableIn, Managers, OpenIn, DevRecords
    <3>2. iom'.dev_tree[iom'.devs[z].path] = z
      BY <2>1, <3>1 DEF TableIn
    <3> QED BY <1>6, <3>1, <3>2
  <2>3. <<p, q>> \in NowLast(path)
    <3>1. CASE q = path
      BY <2>2, <3>1 DEF NowLast
    <3>2. CASE q # path
      <4>1. Precedes(iom.dev_lru, x, y) /\ p # path
        BY <1>5, <3>2 DEF LruEffect
      <4>2. x # e /\ y # e
        BY <1>5, <1>6, <2>1, <3>2, <4>1 DEF FlagsEffect, OpenIn
      <4>3. iom'.devs[x].path = iom.devs[x].path /\ iom'.devs[y].path = iom.devs[y].path
        BY <1>5, <2>1, <4>2 DEF OpenEffect
      <4>4. <<p, q>> \in recent
        BY <4>1, <4>3 DEF IInv, RecentOK
      <4> QED BY <4>1, <4>4 DEF NowLast
    <3> QED BY <3>1, <3>2
  <2> HIDE DEF p, q
  <2>4. <<p, q>> \in StillOpen(NowLast(path))
    BY <2>2, <2>3 DEF StillOpen
  <2> QED BY <1>4, <2>4 DEF p, q
<1>13. IInv'
  BY <1>5, <1>7, <1>10, <1>11, <1>12 DEF IInv
<1> QED BY <1>2, <1>3, <1>13

LEMMA PutDevInv ==
  ASSUME IInv, NEW h \in Handles, io_put_dev(h)
  PROVE  /\ IInv' /\ OpenKept(iom, iom') /\ iom'.frames = iom.frames
         /\ \A g \in Handles : handles'[g] = handles[g] \/ handles'[g] = NoHandle
<1>1. /\ handles[h] # NoHandle
      /\ iom' = _dec_holders(iom, handles[h].dev)
      /\ handles' = [handles EXCEPT ![h] = NoHandle]
      /\ recent' = StillOpen(recent)
      /\ \/ HeldOf(handles[h].dev) = {}
         \/ \E g \in Handles \ {h} : handles[g] # NoHandle /\ handles[g].dev = handles[h].dev
  BY DEF io_put_dev
<1>2. /\ handles[h] \in Handed /\ handles[h].dev \in OpenIn(iom)
      /\ iom.devs[handles[h].dev].holders > 0
  BY <1>1, HeldIsOpen
<1>3. PICK d \in OpenIn(iom) : d = handles[h].dev
  BY <1>2
<1>4. d \in Idevs
  BY DEF OpenIn
<1>5. /\ Sound(iom') /\ InUse(iom') /\ OpenKept(iom, iom') /\ LruKept(iom, iom')
      /\ iom'.frames = iom.frames
      /\ \A e \in Idevs : Holders(iom', e) = IF e = d THEN Holders(iom, e) - 1 ELSE Holders(iom, e)
  <2>1. Sound(iom) /\ InUse(iom) /\ iom.devs[d].holders > 0 /\ iom' = _dec_holders(iom, d)
    BY <1>1, <1>2, <1>3 DEF IInv
  <2> QED BY <2>1, Putting
<1>6. handles \in [Handles -> Handed \cup {NoHandle}]
  BY DEF IInv, HandlesOK
<1>7. \A g \in Handles : handles'[g] = IF g = h THEN NoHandle ELSE handles[g]
  BY <1>1, <1>6
<1>8. HandlesOK'
  BY <1>1, <1>6 DEF HandlesOK
<1>9. \A e \in Idevs : HandlesOf(e)' = HandlesOf(e) \ {h}
  BY <1>7 DEF HandlesOf
<1>10. HoldersOK'
  <2> SUFFICES ASSUME NEW e \in Idevs PROVE Holders(iom', e) = Cardinality(HandlesOf(e)')
    BY DEF HoldersOK
  <2>1. Holders(iom, e) = Cardinality(HandlesOf(e))
    BY DEF IInv, HoldersOK
  <2>2. CASE e = d
    <3>1. h \in HandlesOf(e)
      BY <1>1, <1>3, <2>2 DEF HandlesOf
    <3>2. Cardinality(HandlesOf(e) \ {h}) = Cardinality(HandlesOf(e)) - 1
      BY <3>1, HandlesAreFinite, FS_RemoveElement
    <3> QED BY <1>5, <1>9, <2>1, <2>2, <3>2
  <2>3. CASE e # d
    <3>1. HandlesOf(e) \ {h} = HandlesOf(e)
      BY <1>3, <2>3 DEF HandlesOf
    <3> QED BY <1>5, <1>9, <2>1, <2>3, <3>1
  <2> QED BY <2>2, <2>3
<1>11. HeldOK'
  <2> SUFFICES ASSUME NEW f \in Frames, iom.frames[f] # Free, iom.frames[f].ref
               PROVE  \E i \in Handles : handles'[i] # NoHandle /\ handles'[i].dev = iom.frames[f].dev
    BY <1>5 DEF HeldOK, HandlesOf
  <2>1. PICK e \in Idevs : e = iom.frames[f].dev
    BY DEF IInv, Sound, TableIn, Managers, FrameRecords
  <2>2. PICK g \in HandlesOf(e) : TRUE
    BY <2>1 DEF IInv, HeldOK
  <2>3. CASE e = d
    <3>1. f \in HeldOf(handles[h].dev)
      BY <1>3, <2>1, <2>3 DEF HeldOf, BlocksOf
    <3>2. \E i \in Handles \ {h} : handles[i] # NoHandle /\ handles[i].dev = handles[h].dev
      BY <1>1, <3>1
    <3>3. \E i \in Handles \ {h} : i \in HandlesOf(e)
      BY <1>3, <2>3, <3>2 DEF HandlesOf
    <3> QED BY <1>7, <2>1, <3>3 DEF HandlesOf
  <2>4. CASE e # d
    <3>1. g # h
      BY <1>3, <2>4 DEF HandlesOf
    <3> QED BY <1>7, <2>1, <2>2, <3>1 DEF HandlesOf
  <2> QED BY <2>3, <2>4
<1>12. RecentOK'
  BY <1>1, <1>5, RecentKept DEF Sound
<1> QED BY <1>5, <1>7, <1>8, <1>10, <1>11, <1>12 DEF IInv

LEMMA DestroyInv ==
  ASSUME IInv, io_manager_destroy
  PROVE  IInv' /\ OpenIn(iom') = {} /\ handles' = handles
         /\ \A f \in Frames : iom'.frames[f] = Free
<1>1. iom' = NothingOpen /\ handles' = handles /\ \A h \in Handles : handles[h] = NoHandle
  BY DEF io_manager_destroy
<1>2. /\ Sound(iom') /\ InUse(iom') /\ OpenIn(iom') = {} /\ \A d \in Idevs : Holders(iom', d) = 0
      /\ \A f \in Frames : iom'.frames[f] = Free
      /\ \A x, y : ~Precedes(iom'.dev_lru, x, y)
  BY <1>1, NothingIsOpen
<1>3. HandlesOK' /\ HeldOK' /\ RecentOK'
  BY <1>1, <1>2 DEF IInv, HandlesOK, HeldOK, RecentOK
<1>4. HoldersOK'
  <2> SUFFICES ASSUME NEW d \in Idevs PROVE Holders(iom', d) = Cardinality(HandlesOf(d)')
    BY DEF HoldersOK
  <2>1. HandlesOf(d)' = {}
    BY <1>1 DEF HandlesOf
  <2>2. Cardinality(HandlesOf(d)') = 0
    BY <2>1, FS_EmptySet
  <2> QED BY <1>2, <2>2
<1> QED BY <1>1, <1>2, <1>3, <1>4 DEF IInv

\* No frame changes but f.
OnlyFrame(f) == \A g \in Frames : g # f => iom'.frames[g] = iom.frames[g]

LEMMA FrameIs ==
  ASSUME IInv, NEW f \in Frames, iom.frames[f] # Free
  PROVE  iom.frames[f] \in FrameRecords
BY DEF IInv, Sound, TableIn, Managers

\* A step on a frame of a device that is held, or that leaves the frame unheld.
LEMMA HeldKept ==
  ASSUME IInv, handles' = handles, NEW f \in Frames, OnlyFrame(f),
         iom'.frames[f] # Free /\ iom'.frames[f].ref =>
           \E h \in Handles : handles[h] # NoHandle /\ handles[h].dev = iom'.frames[f].dev
  PROVE  HeldOK'
<1> SUFFICES ASSUME NEW g \in Frames, iom'.frames[g] # Free, iom'.frames[g].ref
             PROVE  \E h \in Handles : handles[h] # NoHandle /\ handles[h].dev = iom'.frames[g].dev
  BY DEF HeldOK, HandlesOf
<1>1. CASE g = f
  BY <1>1
<1>2. CASE g # f
  <2>1. iom'.frames[g] = iom.frames[g]
    BY <1>2 DEF OnlyFrame
  <2>2. HandlesOf(iom.frames[g].dev) # {}
    BY <2>1 DEF IInv, HeldOK
  <2> QED BY <2>1, <2>2 DEF HandlesOf
<1> QED BY <1>1, <1>2

LEMMA MissInv ==
  ASSUME IInv, NEW h \in Handles, NEW f \in Frames, miss(h, f)
  PROVE  /\ IInv' /\ Kept(iom, iom') /\ handles' = handles /\ OnlyFrame(f)
         /\ iom'.frames[f].in_tree /\ ~iom'.frames[f].dirty
<1> DEFINE rec == [dev |-> handles[h].dev, in_tree |-> TRUE, dirty |-> FALSE, ref |-> FALSE]
<1>1. /\ handles[h] # NoHandle /\ iom.frames[f] = Free
      /\ iom' = [_inc_blocks(iom, handles[h].dev) EXCEPT !.frames[f] = rec]
      /\ handles' = handles /\ recent' = recent
  BY DEF miss
<1>2. PICK d \in OpenIn(iom) : d = handles[h].dev
  BY <1>1, HeldIsOpen
<1>3. d \in Idevs
  BY DEF OpenIn
<1>4. /\ rec \in FrameRecords /\ rec.dev = d /\ rec.in_tree /\ ~rec.dirty /\ ~rec.ref
      /\ rec.in_tree = TRUE
  BY <1>2, <1>3 DEF FrameRecords
<1> HIDE DEF rec
<1>5. Kept(iom, iom') /\ iom'.frames[f] = rec /\ OnlyFrame(f)
  <2>1. /\ Sound(iom) /\ InUse(iom) /\ iom' = WithFrame(_inc_blocks(iom, d), f, rec)
    BY <1>1, <1>2 DEF IInv, WithFrame
  <2>2. f \in Frames /\ iom.frames[f] = Free /\ d \in OpenIn(iom)
    BY <1>1
  <2> QED BY ONLY <1>4, <2>1, <2>2, Caching DEF OnlyFrame
<1>6. HeldOK'
  BY <1>1, <1>4, <1>5, HeldKept
<1> QED BY <1>1, <1>4, <1>5, <1>6, BlockStep

LEMMA EvictedInv ==
  ASSUME IInv, NEW f \in Frames, evicted(f)
  PROVE  IInv' /\ Kept(iom, iom') /\ handles' = handles /\ OnlyFrame(f) /\ iom'.frames[f] = Free
<1> DEFINE n == [iom EXCEPT !.frames[f] = Free]
<1>1. /\ iom.frames[f] # Free
      /\ iom' = IF iom.frames[f].in_tree THEN _dec_blocks(n, iom.frames[f].dev, 1) ELSE n
      /\ handles' = handles /\ recent' = StillOpen(recent)
  BY DEF evicted
<1>2. n = WithFrame(iom, f, Free)
  BY DEF WithFrame
<1> HIDE DEF n
<1>3. Kept(iom, iom') /\ iom'.frames[f] = Free /\ OnlyFrame(f)
  <2>1. Sound(iom) /\ InUse(iom)
    BY DEF IInv
  <2> QED BY <1>1, <1>2, <2>1, Evicting DEF OnlyFrame
<1>4. HeldOK'
  BY <1>1, <1>3, HeldKept
<1> QED BY <1>1, <1>3, <1>4, BlockStep

LEMMA HitInv ==
  ASSUME IInv, NEW h \in Handles, NEW f \in Frames, hit(h, f)
  PROVE  /\ IInv' /\ Kept(iom, iom') /\ handles' = handles /\ OnlyFrame(f)
         /\ iom.frames[f] # Free /\ iom'.frames[f].dev = iom.frames[f].dev
         /\ iom'.frames[f].in_tree = iom.frames[f].in_tree
         /\ iom'.frames[f].dirty =>
              \/ iom.frames[f].dirty
              \/ /\ handles[h] # NoHandle /\ handles[h].dev = iom.frames[f].dev
                 /\ ~handles[h].flags.ro
<1>1. PICK dirty \in BOOLEAN :
        /\ dirty => ~handles[h].flags.ro
        /\ iom' = [iom EXCEPT !.frames[f].dirty = @ \/ dirty, !.frames[f].ref = TRUE]
  BY DEF hit
<1>2. /\ handles[h] # NoHandle /\ iom.frames[f] # Free /\ iom.frames[f].dev = handles[h].dev
      /\ handles' = handles /\ recent' = recent
  BY DEF hit, InTree
<1>3. iom.frames[f] \in FrameRecords
  BY <1>2, FrameIs
<1>4. PICK b \in BOOLEAN : b = (iom.frames[f].dirty \/ dirty)
  <2>1. (iom.frames[f].dirty \/ dirty) = TRUE \/ (iom.frames[f].dirty \/ dirty) = FALSE
    BY SMT
  <2> QED BY <2>1, Zenon
<1> DEFINE rec == [iom.frames[f] EXCEPT !.dirty = b, !.ref = TRUE]
<1>5. iom' = [iom EXCEPT !.frames[f] = rec]
  <2>1. iom \in Managers
    BY DEF IInv, Sound, TableIn
  <2>2. iom' = [iom EXCEPT !.frames[f].dirty = b, !.frames[f].ref = TRUE]
    <3> HIDE DEF rec
    <3> QED BY ONLY <1>1, <1>4, Zenon
  <2> QED BY <2>1, <2>2 DEF Managers
<1>6. /\ rec \in FrameRecords /\ rec.dev = iom.frames[f].dev
      /\ rec.in_tree = iom.frames[f].in_tree /\ rec.dirty = b
  BY <1>3 DEF FrameRecords
<1> HIDE DEF rec
<1>7. Kept(iom, iom') /\ iom'.frames[f] = rec /\ OnlyFrame(f)
  <2>1. Sound(iom) /\ InUse(iom) /\ iom' = WithFrame(iom, f, rec)
    BY <1>5 DEF IInv, WithFrame
  <2> QED BY <1>2, <1>6, <2>1, FrameRewritten DEF OnlyFrame
<1>8. HeldOK'
  BY <1>2, <1>6, <1>7, HeldKept
<1>9. IInv'
  BY <1>2, <1>7, <1>8, BlockStep
<1>10. b => iom.frames[f].dirty \/ ~handles[h].flags.ro
  BY <1>1, <1>4
<1> QED BY <1>2, <1>6, <1>7, <1>9, <1>10

\* The dirty flag or the hold of a block is gone.
LEMMA PutBlockInv ==
  ASSUME IInv, NEW f \in Frames, io_put_block(f) \/ written(f)
  PROVE  /\ IInv' /\ Kept(iom, iom') /\ handles' = handles /\ OnlyFrame(f)
         /\ iom.frames[f] # Free /\ iom'.frames[f].dev = iom.frames[f].dev
         /\ iom'.frames[f].in_tree = iom.frames[f].in_tree
         /\ iom'.frames[f].dirty => iom.frames[f].dirty
<1> DEFINE put == [iom.frames[f] EXCEPT !.ref = FALSE]
           clean == [iom.frames[f] EXCEPT !.dirty = FALSE]
<1>1. /\ iom.frames[f] # Free /\ handles' = handles /\ recent' = recent
  BY DEF io_put_block, written
<1>2. iom.frames[f] \in FrameRecords /\ iom \in Managers
  BY <1>1, FrameIs DEF IInv, Sound, TableIn
<1>3. PICK rec : /\ iom' = [iom EXCEPT !.frames[f] = rec]
                 /\ rec \in FrameRecords /\ rec.dev = iom.frames[f].dev
                 /\ rec.in_tree = iom.frames[f].in_tree
                 /\ rec.dirty => iom.frames[f].dirty
                 /\ rec.ref => iom.frames[f].ref
  <2>1. CASE io_put_block(f)
    <3>1. iom' = [iom EXCEPT !.frames[f] = put]
      BY <1>2, <2>1 DEF io_put_block, Managers
    <3>2. /\ put \in FrameRecords /\ put.dev = iom.frames[f].dev
          /\ put.in_tree = iom.frames[f].in_tree /\ put.dirty = iom.frames[f].dirty /\ put.ref = FALSE
      BY <1>2 DEF FrameRecords
    <3> QED BY <3>1, <3>2
  <2>2. CASE written(f)
    <3>1. iom' = [iom EXCEPT !.frames[f] = clean]
      BY <1>2, <2>2 DEF written, Managers
    <3>2. /\ clean \in FrameRecords /\ clean.dev = iom.frames[f].dev
          /\ clean.in_tree = iom.frames[f].in_tree /\ clean.dirty = FALSE
          /\ clean.ref = iom.frames[f].ref
      BY <1>2 DEF FrameRecords
    <3> QED BY <3>1, <3>2
  <2> QED BY <2>1, <2>2
<1>4. Kept(iom, iom') /\ iom'.frames[f] = rec /\ OnlyFrame(f)
  <2>1. Sound(iom) /\ InUse(iom) /\ iom' = WithFrame(iom, f, rec)
    BY <1>3 DEF IInv, WithFrame
  <2>2. /\ f \in Frames /\ iom.frames[f] # Free /\ rec \in FrameRecords
        /\ rec.dev = iom.frames[f].dev /\ rec.in_tree = iom.frames[f].in_tree
    BY <1>1, <1>3
  <2> QED BY ONLY <2>1, <2>2, FrameRewritten DEF OnlyFrame
<1>5. HeldOK'
  <2>1. iom.frames[f].ref => HandlesOf(iom.frames[f].dev) # {}
    BY <1>1 DEF IInv, HeldOK
  <2> QED BY <1>1, <1>3, <1>4, <2>1, HeldKept DEF HandlesOf
<1>6. IInv'
  BY <1>1, <1>4, <1>5, BlockStep
<1> QED BY <1>1, <1>3, <1>4, <1>6

LEMMA InvalidateInv ==
  ASSUME IInv, NEW h \in Handles, io_invalidate_dev(h)
  PROVE  /\ IInv' /\ Kept(iom, iom') /\ handles' = handles
         /\ FramesEffect(iom, iom', {handles[h].dev}) /\ HeldOf(handles[h].dev) = {}
<1>1. /\ handles[h] # NoHandle /\ HeldOf(handles[h].dev) = {}
      /\ handles' = handles /\ recent' = recent
  BY DEF io_invalidate_dev
<1>2. /\ handles[h].dev \in OpenIn(iom) /\ iom.devs[handles[h].dev].holders > 0
  BY <1>1, HeldIsOpen
<1>3. PICK d \in OpenIn(iom) : d = handles[h].dev
  BY <1>2
<1>4. PICK failed \in Failures(iom, d) : iom' = _invalidate_dev(iom, d, failed)
  BY <1>3 DEF io_invalidate_dev
<1>5. Kept(iom, iom') /\ FramesEffect(iom, iom', {d})
  <2>1. Sound(iom) /\ InUse(iom) /\ iom.devs[d].holders > 0
    BY <1>2, <1>3 DEF IInv
  <2> QED BY <1>4, <2>1, Invalidating
<1>6. HeldOK'
  <2> SUFFICES ASSUME NEW f \in Frames, iom'.frames[f] # Free, iom'.frames[f].ref
               PROVE  HandlesOf(iom.frames[f].dev)' # {}
    BY DEF HeldOK
  <2>1. iom.frames[f] # Free /\ iom.frames[f].dev = iom'.frames[f].dev /\ iom.frames[f].ref
    BY <1>5 DEF FramesEffect
  <2>2. HandlesOf(iom.frames[f].dev) # {}
    BY <2>1 DEF IInv, HeldOK
  <2> QED BY <1>1, <2>1, <2>2 DEF HandlesOf
<1>7. IInv'
  BY <1>1, <1>5, <1>6, BlockStep
<1> QED BY <1>1, <1>3, <1>5, <1>7

LEMMA Invariance ==
  ASSUME "renamed" \notin Faults, IInv, [Next]_vars
  PROVE  IInv'
<1>1. ASSUME NEW h \in Handles, NEW path \in Paths, NEW flags \in Flags, io_get_dev(h, path, flags)
      PROVE  IInv'
  BY <1>1, GetDevInv
<1>2. ASSUME NEW h \in Handles, io_put_dev(h) PROVE IInv'
  BY <1>2, PutDevInv
<1>3. ASSUME NEW h \in Handles, io_invalidate_dev(h) PROVE IInv'
  BY <1>3, InvalidateInv
<1>4. ASSUME NEW h \in Handles, NEW f \in Frames, miss(h, f) PROVE IInv'
  BY <1>4, MissInv
<1>5. ASSUME NEW h \in Handles, NEW f \in Frames, hit(h, f) PROVE IInv'
  BY <1>5, HitInv
<1>6. ASSUME NEW f \in Frames, evicted(f) PROVE IInv'
  BY <1>6, EvictedInv
<1>7. ASSUME NEW f \in Frames, io_put_block(f) \/ written(f) PROVE IInv'
  BY <1>7, PutBlockInv
<1>8. CASE io_manager_destroy
  BY <1>8, DestroyInv
<1>9. CASE UNCHANGED vars
  <2>1. iom' = iom /\ handles' = handles /\ recent' = recent
    BY <1>9 DEF vars
  <2> QED BY <2>1 DEF IInv, HandlesOK, HoldersOK, HeldOK, RecentOK, HandlesOf
<1> QED BY <1>1, <1>2, <1>3, <1>4, <1>5, <1>6, <1>7, <1>8, <1>9 DEF Next

\* The tree, the lru list and the counts agree on what is open, and no device stays
\* open that is neither held nor cached: whatever fails to open or to be written, as
\* long as no path comes to lead to another device (_check_same_device leaks a file
\* descriptor then, and takes one holder too many).
THEOREM TableKept ==
  ASSUME "renamed" \notin Faults
  PROVE  Spec => []TableOK
<1>1. Init => IInv
  BY InitInv
<1>2. IInv /\ [Next]_vars => IInv'
  BY Invariance
<1>3. IInv => TableOK
  <2> SUFFICES ASSUME IInv PROVE TableOK
    OBVIOUS
  <2>1. Open = OpenIn(iom)
    BY DEF Open, OpenIn
  <2> QED BY <2>1 DEF IInv, Sound, TableIn, TableOK, InUse
<1> QED BY <1>1, <1>2, <1>3, PTL DEF Spec

-----------------------------------------------------------------------------
(* Which devices open and close                                            *)

\* What a step does to the devices: a client gets one, or none opens and the
\* clients only give handles back.
Gets(h, path, flags, e) ==
  /\ handles[h] = NoHandle
  /\ Effect(iom, iom', e, path, flags)
  /\ handles' = IF e = NoDev THEN handles
                ELSE [handles EXCEPT ![h] = [dev |-> e, flags |-> flags]]
GetsOne ==
  \E h \in Handles, path \in Paths, flags \in Flags, e \in Idevs \cup {NoDev} :
    Gets(h, path, flags, e)
Quiet ==
  /\ OpenKept(iom, iom')
  /\ \A h \in Handles : handles'[h] = handles[h] \/ handles'[h] = NoHandle

LEMMA Steps ==
  ASSUME "renamed" \notin Faults, IInv, [Next]_vars
  PROVE  GetsOne \/ Quiet
<1>1. ASSUME NEW h \in Handles, NEW path \in Paths, NEW flags \in Flags, io_get_dev(h, path, flags)
      PROVE  GetsOne
  <2>1. handles[h] = NoHandle
    BY <1>1 DEF io_get_dev
  <2>2. PICK e : /\ Effect(iom, iom', e, path, flags)
                 /\ handles' = IF e = NoDev THEN handles
                               ELSE [handles EXCEPT ![h] = [dev |-> e, flags |-> flags]]
    BY <1>1, GetDevInv
  <2>3. e \in Idevs \cup {NoDev}
    BY <2>2 DEF Effect
  <2> QED BY <2>1, <2>2, <2>3 DEF GetsOne, Gets
<1>2. ASSUME NEW h \in Handles, io_put_dev(h) PROVE Quiet
  BY <1>2, PutDevInv DEF Quiet
<1>3. ASSUME NEW h \in Handles, io_invalidate_dev(h) PROVE Quiet
  BY <1>3, InvalidateInv DEF Kept, Quiet
<1>4. ASSUME NEW h \in Handles, NEW f \in Frames, miss(h, f) PROVE Quiet
  BY <1>4, MissInv DEF Kept, Quiet
<1>5. ASSUME NEW h \in Handles, NEW f \in Frames, hit(h, f) PROVE Quiet
  BY <1>5, HitInv DEF Kept, Quiet
<1>6. ASSUME NEW f \in Frames, evicted(f) PROVE Quiet
  BY <1>6, EvictedInv DEF Kept, Quiet
<1>7. ASSUME NEW f \in Frames, io_put_block(f) \/ written(f) PROVE Quiet
  BY <1>7, PutBlockInv DEF Kept, Quiet
<1>8. CASE io_manager_destroy
  <2>1. Quiet
    BY <1>8, DestroyInv DEF OpenKept, Quiet
  <2> QED BY <2>1
<1>9. CASE UNCHANGED vars
  <2>1. Quiet
    BY <1>9 DEF vars, OpenKept, Quiet
  <2> QED BY <2>1
<1> QED
  <2>1. \/ \E h \in Handles, path \in Paths, flags \in Flags : io_get_dev(h, path, flags)
        \/ \E h \in Handles : io_put_dev(h) \/ io_invalidate_dev(h)
        \/ \E h \in Handles, f \in Frames : miss(h, f) \/ hit(h, f)
        \/ \E f \in Frames : evicted(f) \/ io_put_block(f) \/ written(f)
        \/ io_manager_destroy \/ UNCHANGED vars
    BY DEF Next
  <2> QED BY <1>1, <1>2, <1>3, <1>4, <1>5, <1>6, <1>7, <1>8, <1>9, <2>1

\* A device that is opened exclusively, or becomes so, has no block in the cache then:
\* those that others read there are gone (io_get_dev, _upgrade_dev).
THEOREM ExclusiveIsEmpty ==
  ASSUME "renamed" \notin Faults
  PROVE  Spec => ExclusiveStartsEmpty
<1> DEFINE A == \A d \in Idevs :
                  /\ iom'.devs[d] # Closed /\ iom'.devs[d].flags.excl
                  /\ iom.devs[d] = Closed \/ ~iom.devs[d].flags.excl
                  => InTree(iom', d) = {}
<1>1. Init => IInv
  BY InitInv
<1>2. IInv /\ [Next]_vars => IInv'
  BY Invariance
<1>3. IInv /\ [Next]_vars => A
  <2> SUFFICES ASSUME IInv, [Next]_vars, NEW d \in Idevs,
                      iom'.devs[d] # Closed, iom'.devs[d].flags.excl,
                      iom.devs[d] = Closed \/ ~iom.devs[d].flags.excl
               PROVE  InTree(iom', d) = {}
    OBVIOUS
  <2>1. d \in OpenIn(iom')
    BY DEF OpenIn
  <2>2. ~Quiet
    BY <2>1 DEF OpenKept, OpenIn, Quiet
  <2>3. PICK h \in Handles, path \in Paths, flags \in Flags, e \in Idevs \cup {NoDev} :
           Effect(iom, iom', e, path, flags)
    BY <2>2, Steps DEF GetsOne, Gets
  <2>4. OpenEffect(iom, iom', e) /\ FlagsEffect(iom, iom', e, path, flags) /\ e \in Idevs \cup {NoDev}
    BY <2>3 DEF Effect
  <2>5. d = e
    BY <2>1, <2>4 DEF OpenEffect, OpenIn
  <2>6. e # NoDev
    BY <2>5, DevAssumption
  <2>7. ~(e \in OpenIn(iom) /\ iom'.devs[e].flags = iom.devs[e].flags)
    BY <2>5 DEF OpenIn
  <2>8. ~(iom'.devs[e].flags = flags /\ ~flags.excl)
    BY <2>5
  <2> QED BY <2>4, <2>5, <2>6, <2>7, <2>8 DEF FlagsEffect
<1> QED BY <1>1, <1>2, <1>3, PTL DEF Spec, ExclusiveStartsEmpty

\* A device that is closed to make room for another one had no holder, and was got
\* before every other device that had none (_evict_lru_dev).
THEOREM ClosesOldest ==
  ASSUME "renamed" \notin Faults
  PROVE  Spec => ClosesLeastRecentlyUsed
<1> DEFINE A == \A h \in Handles : handles[h] = NoHandle /\ handles'[h] # NoHandle =>
                  LET got == iom'.devs[handles'[h].dev].path
                      others == {d \in Open : iom.devs[d].path # got}
                      idle == {d \in others : HandlesOf(d) = {}}
                  IN \A d \in others : iom'.dev_tree[iom.devs[d].path] = NoDev =>
                       /\ d \in idle
                       /\ \A e \in idle : <<iom.devs[d].path, iom.devs[e].path>> \in recent
<1>1. Init => IInv
  BY InitInv
<1>2. IInv /\ [Next]_vars => IInv'
  BY Invariance
<1>3. IInv /\ [Next]_vars => A
  <2> SUFFICES ASSUME IInv, [Next]_vars, NEW h \in Handles,
                      handles[h] = NoHandle, handles'[h] # NoHandle,
                      NEW d \in OpenIn(iom),
                      iom.devs[d].path # iom'.devs[handles'[h].dev].path,
                      iom'.dev_tree[iom.devs[d].path] = NoDev
               PROVE  /\ HandlesOf(d) = {}
                      /\ \A o \in OpenIn(iom) : HandlesOf(o) = {} =>
                           <<iom.devs[d].path, iom.devs[o].path>> \in recent
    BY DEF Open, OpenIn
  <2>1. PICK g \in Handles, path \in Paths, flags \in Flags, e \in Idevs \cup {NoDev} :
          /\ handles[g] = NoHandle
          /\ Effect(iom, iom', e, path, flags)
          /\ handles' = IF e = NoDev THEN handles
                        ELSE [handles EXCEPT ![g] = [dev |-> e, flags |-> flags]]
    <3>1. ~Quiet
      BY DEF Quiet
    <3> QED BY <3>1, Steps DEF GetsOne, Gets
  <2>2. /\ ClosesEffect(iom, iom', path) /\ FlagsEffect(iom, iom', e, path, flags)
        /\ Sound(iom') /\ e \in Idevs \cup {NoDev}
    BY <2>1 DEF Effect
  <2>3. handles'[h] = [dev |-> e, flags |-> flags] /\ e # NoDev
    <3>1. handles \in [Handles -> Handed \cup {NoHandle}]
      BY DEF IInv, HandlesOK
    <3>2. e # NoDev
      BY <2>1
    <3>3. handles'[h] = IF h = g THEN [dev |-> e, flags |-> flags] ELSE handles[h]
      BY <2>1, <3>1, <3>2
    <3> QED BY <3>2, <3>3
  <2>4. iom'.devs[handles'[h].dev].path = path
    <3>1. handles'[h].dev = e
      BY <2>3
    <3> QED BY <2>2, <2>3, <3>1 DEF FlagsEffect
  <2>5. d \notin OpenIn(iom') \/ iom'.devs[d].path # iom.devs[d].path
    <3>1. iom.devs[d].path \in Paths /\ d \in Idevs /\ d # NoDev
      BY DevAssumption DEF IInv, Sound, TableIn, Managers, OpenIn, DevRecords
    <3> QED BY <2>2, <3>1 DEF Sound, TableIn
  <2>6. /\ iom.devs[d].holders = 0
        /\ \A o \in OpenIn(iom) : iom.devs[o].holders = 0 => Precedes(iom.dev_lru, d, o)
    BY <2>2, <2>4, <2>5 DEF ClosesEffect
  <2>7. \A o \in OpenIn(iom) : HandlesOf(o) = {} <=> iom.devs[o].holders = 0
    <3> SUFFICES ASSUME NEW o \in OpenIn(iom) PROVE HandlesOf(o) = {} <=> iom.devs[o].holders = 0
      OBVIOUS
    <3>1. o \in Idevs /\ Holders(iom, o) = iom.devs[o].holders
      BY DEF OpenIn, Holders
    <3>2. iom.devs[o].holders = Cardinality(HandlesOf(o))
      BY <3>1 DEF IInv, HoldersOK
    <3> QED BY <3>2, HandlesAreFinite, FS_EmptySet
  <2> QED BY <2>6, <2>7 DEF IInv, RecentOK
<1> QED BY <1>1, <1>2, <1>3, PTL DEF Spec, ClosesLeastRecentlyUsed

-----------------------------------------------------------------------------
(* When only opens fail                                                    *)

AllInTree == \A f \in Frames : iom.frames[f] # Free => iom.frames[f].in_tree

HandlesGranted ==
  \A h \in Handles : handles[h] # NoHandle =>
    /\ iom.devs[handles[h].dev].flags.ro => handles[h].flags.ro
    /\ handles[h].flags.excl => iom.devs[handles[h].dev].flags.excl

DirtyWritable ==
  \A f \in Frames : iom.frames[f] # Free /\ iom.frames[f].dirty =>
    ~iom.devs[iom.frames[f].dev].flags.ro

FullInv == IInv /\ AllInTree /\ HandlesGranted /\ DirtyWritable

\* A device is open as long as there are blocks of it.
LEMMA CachedIsOpen ==
  ASSUME NEW m, Sound(m), NEW f \in Frames, m.frames[f] # Free, m.frames[f].in_tree
  PROVE  m.frames[f].dev \in OpenIn(m) /\ f \in InTree(m, m.frames[f].dev)
<1>1. CountedIn(m) /\ m.frames[f] \in FrameRecords
  BY DEF Sound, TableIn, Managers
<1>2. PICK d \in Idevs : d = m.frames[f].dev
  BY <1>1 DEF FrameRecords
<1>3. f \in InTree(m, d)
  BY <1>2 DEF InTree
<1>4. Cardinality(InTree(m, d)) # 0
  BY <1>3, TreeIsFinite, FS_EmptySet
<1>5. Blocks(m, d) # 0
  BY <1>1, <1>4 DEF CountedIn
<1>6. d \in OpenIn(m)
  BY <1>5 DEF Blocks, OpenIn
<1> QED BY <1>2, <1>3, <1>6

LEMMA StaysHeld ==
  ASSUME IInv, IInv', NEW h \in Handles, handles[h] # NoHandle, handles'[h] = handles[h]
  PROVE  handles[h].dev \in OpenIn(iom')
<1>1. PICK d \in Idevs : d = handles[h].dev
  BY DEF IInv, HandlesOK, Handed
<1> DEFINE H == {g \in Handles : handles'[g] # NoHandle /\ handles'[g].dev = d}
<1>2. HandlesOf(d)' = H
  BY DEF HandlesOf
<1>3. h \in H /\ IsFiniteSet(H)
  BY <1>1, DevAssumption, FS_Subset
<1> HIDE DEF H
<1>4. Cardinality(H) # 0
  BY <1>3, FS_EmptySet
<1>5. Holders(iom', d) = Cardinality(H)
  BY <1>2 DEF IInv, HoldersOK
<1>6. d \in OpenIn(iom')
  BY <1>4, <1>5 DEF Holders, OpenIn
<1> QED BY <1>1, <1>6

\* When nothing opens, holders keep the rights they have.
LEMMA GrantsKept ==
  ASSUME FullInv, IInv', OpenKept(iom, iom'),
         \A h \in Handles : handles'[h] = handles[h] \/ handles'[h] = NoHandle
  PROVE  HandlesGranted'
<1> SUFFICES ASSUME NEW h \in Handles, handles'[h] # NoHandle
             PROVE  /\ iom'.devs[handles'[h].dev].flags.ro => handles'[h].flags.ro
                    /\ handles'[h].flags.excl => iom'.devs[handles'[h].dev].flags.excl
  BY DEF HandlesGranted
<1>1. handles'[h] = handles[h] /\ handles[h] # NoHandle
  OBVIOUS
<1>2. handles[h].dev \in OpenIn(iom')
  BY <1>1, StaysHeld DEF FullInv
<1>3. iom'.devs[handles'[h].dev].flags = iom.devs[handles[h].dev].flags
  BY <1>1, <1>2 DEF OpenKept
<1> QED BY <1>1, <1>3 DEF FullInv, HandlesGranted

\* The frames of a get are as they were.
LEMMA GetFrames ==
  ASSUME IInv, "write" \notin Faults, FramesEffect(iom, iom', Unused(iom)),
         NEW f \in Frames, iom'.frames[f] # Free
  PROVE  iom'.frames[f] = iom.frames[f]
<1>1. \/ iom'.frames[f] = iom.frames[f]
      \/ iom.frames[f].dev \in Unused(iom) /\ iom.frames[f].ref
  BY DEF FramesEffect
<1>2. iom.frames[f] # Free
  BY DEF FramesEffect
<1> QED BY <1>1, <1>2, UnusedFramesFree

LEMMA GetDevFull ==
  ASSUME FullInv, IInv', "write" \notin Faults, NEW h \in Handles, handles[h] = NoHandle,
         NEW path \in Paths, NEW flags \in Flags, NEW e, Effect(iom, iom', e, path, flags),
         handles' = IF e = NoDev THEN handles ELSE [handles EXCEPT ![h] = [dev |-> e, flags |-> flags]]
  PROVE  FullInv'
<1>1. /\ Sound(iom') /\ e \in Idevs \cup {NoDev} /\ HoldersEffect(iom, iom', e)
      /\ OpenEffect(iom, iom', e) /\ FlagsEffect(iom, iom', e, path, flags)
      /\ FramesEffect(iom, iom', Unused(iom))
  BY DEF Effect
<1>2. IInv /\ handles \in [Handles -> Handed \cup {NoHandle}] /\ NoDev \notin Idevs
  BY DevAssumption DEF FullInv, IInv, HandlesOK
<1>3. \A f \in Frames : iom'.frames[f] # Free => iom'.frames[f] = iom.frames[f]
  BY <1>1, <1>2, GetFrames
<1>4. AllInTree'
  BY <1>3 DEF FullInv, AllInTree
\* What is open with the same flags, but for e
<1>5. \A d \in OpenIn(iom') : d # e => iom'.devs[d].flags = iom.devs[d].flags
  BY <1>1 DEF OpenEffect
<1>6. HandlesGranted'
  <2> SUFFICES ASSUME NEW g \in Handles, handles'[g] # NoHandle
               PROVE  /\ iom'.devs[handles'[g].dev].flags.ro => handles'[g].flags.ro
                      /\ handles'[g].flags.excl => iom'.devs[handles'[g].dev].flags.excl
    BY DEF HandlesGranted
  <2>1. CASE handles'[g] = handles[g]
    <3>1. handles[g].dev \in OpenIn(iom') /\ handles[g].dev \in OpenIn(iom)
      BY <1>2, <2>1, StaysHeld, HeldIsOpen
    <3>2. /\ iom.devs[handles[g].dev].flags.ro => handles[g].flags.ro
          /\ handles[g].flags.excl => iom.devs[handles[g].dev].flags.excl
      BY <2>1 DEF FullInv, HandlesGranted
    <3>3. CASE handles[g].dev # e
      BY <1>5, <2>1, <3>1, <3>2, <3>3
    <3>4. CASE handles[g].dev = e
      <4>1. e # NoDev
        BY <1>2, <3>1, <3>4 DEF OpenIn
      <4>2. Holders(iom, e) # 0
        <5>1. iom.devs[handles[g].dev].holders > 0
          BY <1>2, <2>1, HeldIsOpen
        <5> QED BY <3>1, <3>4, <5>1 DEF Holders, OpenIn
      <4>3. \/ iom'.devs[e].flags = iom.devs[e].flags
            \/ iom'.devs[e].flags = flags /\ ~flags.ro /\ ~iom.devs[e].flags.excl
        BY <1>1, <4>1, <4>2 DEF FlagsEffect
      <4> QED BY <2>1, <3>2, <3>4, <4>3
    <3> QED BY <3>3, <3>4
  <2>2. CASE handles'[g] # handles[g]
    <3>1. e # NoDev
      BY <2>2
    <3>2. handles'[g] = [dev |-> e, flags |-> flags]
      BY <1>2, <2>2, <3>1
    <3>3. handles'[g].dev = e /\ handles'[g].flags = flags
      BY <3>2
    <3>4. \/ iom'.devs[e].flags = iom.devs[e].flags /\ ~_need_upgrade_dev(iom, e, flags)
          \/ iom'.devs[e].flags = flags
      BY <1>1, <3>1 DEF FlagsEffect
    <3>5. /\ iom'.devs[e].flags.ro => flags.ro
          /\ flags.excl => iom'.devs[e].flags.excl
      BY <3>4 DEF _need_upgrade_dev
    <3> QED BY <3>3, <3>5
  <2> QED BY <2>1, <2>2
<1>7. DirtyWritable'
  <2> SUFFICES ASSUME NEW f \in Frames, iom'.frames[f] # Free, iom'.frames[f].dirty
               PROVE  ~iom'.devs[iom'.frames[f].dev].flags.ro
    BY DEF DirtyWritable
  <2>1. iom'.frames[f] = iom.frames[f] /\ iom.frames[f] # Free /\ iom'.frames[f].in_tree
    BY <1>3, <1>4 DEF AllInTree
  <2>2. PICK d : d = iom.frames[f].dev
    OBVIOUS
  <2>3. d \in OpenIn(iom') /\ f \in InTree(iom', d)
    BY <1>1, <2>1, <2>2, CachedIsOpen
  <2>4. ~iom.devs[d].flags.ro
    BY <2>1, <2>2 DEF FullInv, DirtyWritable
  <2>5. CASE d # e
    BY <1>5, <2>1, <2>2, <2>3, <2>4, <2>5
  <2>6. CASE d = e
    <3>1. e # NoDev /\ InTree(iom', e) # {}
      BY <1>2, <2>3, <2>6 DEF OpenIn
    <3>2. iom'.devs[e].flags = iom.devs[e].flags \/ (iom'.devs[e].flags = flags /\ ~flags.ro)
      BY <1>1, <3>1 DEF FlagsEffect
    <3> QED BY <2>1, <2>2, <2>4, <2>6, <3>2
  <2> QED BY <2>5, <2>6
<1> QED BY <1>4, <1>6, <1>7 DEF FullInv

\* Blocks that are dirty were so, on a device that is open as it was, or become so.
LEMMA WritableKept ==
  ASSUME FullInv, IInv', AllInTree', OpenKept(iom, iom'),
         \A f \in Frames : iom'.frames[f] # Free /\ iom'.frames[f].dirty =>
           ~iom.devs[iom'.frames[f].dev].flags.ro
  PROVE  DirtyWritable'
<1> SUFFICES ASSUME NEW f \in Frames, iom'.frames[f] # Free, iom'.frames[f].dirty
             PROVE  ~iom'.devs[iom'.frames[f].dev].flags.ro
  BY DEF DirtyWritable
<1>1. iom'.frames[f].dev \in OpenIn(iom')
  <2>1. Sound(iom') /\ iom'.frames[f].in_tree
    BY DEF IInv, AllInTree
  <2> QED BY <2>1, CachedIsOpen
<1>2. iom'.devs[iom'.frames[f].dev].flags = iom.devs[iom'.frames[f].dev].flags
  BY <1>1 DEF OpenKept
<1> QED BY <1>2

\* A step on one frame.
LEMMA FrameStep ==
  ASSUME FullInv, IInv', Kept(iom, iom'), handles' = handles, NEW f \in Frames, OnlyFrame(f),
         iom'.frames[f] # Free =>
           /\ iom'.frames[f].in_tree
           /\ iom'.frames[f].dirty => ~iom.devs[iom'.frames[f].dev].flags.ro
  PROVE  FullInv'
<1>1. OpenKept(iom, iom') /\ \A h \in Handles : handles'[h] = handles[h] \/ handles'[h] = NoHandle
  BY DEF Kept
<1>2. AllInTree'
  BY DEF FullInv, AllInTree, OnlyFrame
<1>3. \A g \in Frames : iom'.frames[g] # Free /\ iom'.frames[g].dirty =>
        ~iom.devs[iom'.frames[g].dev].flags.ro
  BY DEF FullInv, DirtyWritable, OnlyFrame
<1>4. DirtyWritable'
  BY <1>1, <1>2, <1>3, WritableKept
<1>5. HandlesGranted'
  BY <1>1, GrantsKept
<1> QED BY <1>2, <1>4, <1>5 DEF FullInv

LEMMA FullInvariance ==
  ASSUME Faults \subseteq {"open"}, FullInv, [Next]_vars
  PROVE  FullInv'
<1>1. IInv /\ "renamed" \notin Faults /\ "write" \notin Faults
  BY DEF FullInv
<1>2. ASSUME NEW h \in Handles, NEW path \in Paths, NEW flags \in Flags, io_get_dev(h, path, flags)
      PROVE  FullInv'
  <2>1. handles[h] = NoHandle
    BY <1>2 DEF io_get_dev
  <2> QED BY <1>1, <1>2, <2>1, GetDevInv, GetDevFull
<1>3. ASSUME NEW h \in Handles, io_put_dev(h) PROVE FullInv'
  <2>1. /\ IInv' /\ OpenKept(iom, iom') /\ iom'.frames = iom.frames
        /\ \A g \in Handles : handles'[g] = handles[g] \/ handles'[g] = NoHandle
    BY <1>1, <1>3, PutDevInv
  <2>2. AllInTree'
    BY <2>1 DEF FullInv, AllInTree
  <2>3. DirtyWritable'
    BY <2>1, <2>2, WritableKept DEF FullInv, DirtyWritable
  <2> QED BY <2>1, <2>2, <2>3, GrantsKept DEF FullInv
<1>4. ASSUME NEW h \in Handles, io_invalidate_dev(h) PROVE FullInv'
  <2>1. /\ IInv' /\ OpenKept(iom, iom') /\ handles' = handles
        /\ FramesEffect(iom, iom', {handles[h].dev}) /\ HeldOf(handles[h].dev) = {}
    BY <1>1, <1>4, InvalidateInv DEF Kept
  <2>2. ASSUME NEW f \in Frames, iom'.frames[f] # Free PROVE iom'.frames[f] = iom.frames[f]
    <3>1. iom.frames[f] # Free
      BY <2>1, <2>2 DEF FramesEffect
    <3>2. ~(iom.frames[f].dev = handles[h].dev /\ iom.frames[f].ref)
      BY <2>1, <3>1 DEF HeldOf, BlocksOf
    <3> QED BY <1>1, <2>1, <2>2, <3>2 DEF FramesEffect
  <2>3. AllInTree'
    BY <2>2 DEF FullInv, AllInTree
  <2>4. DirtyWritable'
    BY <2>1, <2>2, <2>3, WritableKept DEF FullInv, DirtyWritable
  <2> QED BY <2>1, <2>3, <2>4, GrantsKept DEF FullInv
<1>5. ASSUME NEW h \in Handles, NEW f \in Frames, miss(h, f) PROVE FullInv'
  BY <1>1, <1>5, MissInv, FrameStep
<1>6. ASSUME NEW h \in Handles, NEW f \in Frames, hit(h, f) PROVE FullInv'
  <2>1. /\ IInv' /\ Kept(iom, iom') /\ handles' = handles /\ OnlyFrame(f)
        /\ iom.frames[f] # Free /\ iom'.frames[f].dev = iom.frames[f].dev
        /\ iom'.frames[f].in_tree = iom.frames[f].in_tree
        /\ iom'.frames[f].dirty =>
             \/ iom.frames[f].dirty
             \/ /\ handles[h] # NoHandle /\ handles[h].dev = iom.frames[f].dev
                /\ ~handles[h].flags.ro
    BY <1>1, <1>6, HitInv
  <2>2. iom'.frames[f].in_tree
    BY <2>1 DEF FullInv, AllInTree
  <2>3. iom'.frames[f].dirty => ~iom.devs[iom'.frames[f].dev].flags.ro
    BY <2>1 DEF FullInv, DirtyWritable, HandlesGranted
  <2> QED BY <2>1, <2>2, <2>3, FrameStep
<1>7. ASSUME NEW f \in Frames, evicted(f) PROVE FullInv'
  BY <1>1, <1>7, EvictedInv, FrameStep
<1>8. ASSUME NEW f \in Frames, io_put_block(f) \/ written(f) PROVE FullInv'
  <2>1. /\ IInv' /\ Kept(iom, iom') /\ handles' = handles /\ OnlyFrame(f)
        /\ iom.frames[f] # Free /\ iom'.frames[f].dev = iom.frames[f].dev
        /\ iom'.frames[f].in_tree = iom.frames[f].in_tree
        /\ iom'.frames[f].dirty => iom.frames[f].dirty
    BY <1>1, <1>8, PutBlockInv
  <2>2. iom'.frames[f].in_tree
    BY <2>1 DEF FullInv, AllInTree
  <2>3. iom'.frames[f].dirty => ~iom.devs[iom'.frames[f].dev].flags.ro
    BY <2>1 DEF FullInv, DirtyWritable
  <2> QED BY <2>1, <2>2, <2>3, FrameStep
<1>9. CASE io_manager_destroy
  <2>1. /\ IInv' /\ OpenIn(iom') = {} /\ handles' = handles
        /\ \A f \in Frames : iom'.frames[f] = Free
    BY <1>1, <1>9, DestroyInv
  <2>2. HandlesGranted'
    BY <2>1, GrantsKept DEF OpenKept
  <2> QED BY <2>1, <2>2 DEF FullInv, AllInTree, DirtyWritable
<1>10. CASE UNCHANGED vars
  <2>1. iom' = iom /\ handles' = handles
    BY <1>10 DEF vars
  <2>2. IInv'
    BY <1>1, Invariance
  <2> QED BY <2>1, <2>2 DEF FullInv, AllInTree, HandlesGranted, DirtyWritable
<1> QED BY <1>2, <1>3, <1>4, <1>5, <1>6, <1>7, <1>8, <1>9, <1>10 DEF Next

LEMMA FullInit == Init => FullInv
<1> SUFFICES ASSUME Init PROVE FullInv
  OBVIOUS
<1>1. /\ iom.frames = [f \in Frames |-> Free] /\ handles = [h \in Handles |-> NoHandle]
  BY DEF Init, NothingOpen
<1> QED BY <1>1, InitInv DEF FullInv, AllInTree, HandlesGranted, DirtyWritable

\* A device counts exactly its holders and its blocks, and a device that was freed has
\* none: as long as nothing but an open fails (a failed writeback leaves a block on the
\* errored list whose device may be freed).
THEOREM CountsTrack ==
  ASSUME Faults \subseteq {"open"}
  PROVE  Spec => []RefCountsTrack
<1>1. Init => FullInv
  BY FullInit
<1>2. FullInv /\ [Next]_vars => FullInv'
  BY FullInvariance
<1>3. FullInv => RefCountsTrack
  <2> SUFFICES ASSUME FullInv PROVE RefCountsTrack
    OBVIOUS
  <2>1. ASSUME NEW d \in Idevs
        PROVE  /\ Holders(iom, d) = Cardinality(HandlesOf(d))
               /\ Blocks(iom, d) = Cardinality(BlocksOf(d))
    <3>1. BlocksOf(d) = InTree(iom, d)
      BY DEF FullInv, AllInTree, BlocksOf, InTree
    <3> QED BY <3>1 DEF FullInv, IInv, HoldersOK, Sound, CountedIn
  <2>2. ASSUME NEW d \in Open
        PROVE  /\ iom.devs[d].holders = Cardinality(HandlesOf(d))
               /\ iom.devs[d].blocks = Cardinality(BlocksOf(d))
    BY <2>1 DEF Open, Holders, Blocks
  <2>3. ASSUME NEW d \in Idevs \ Open PROVE HandlesOf(d) = {} /\ BlocksOf(d) = {}
    <3>1. Cardinality(HandlesOf(d)) = 0 /\ Cardinality(BlocksOf(d)) = 0
      BY <2>1 DEF Open, Holders, Blocks
    <3>2. IsFiniteSet(BlocksOf(d))
      BY DevAssumption, FS_Subset DEF BlocksOf
    <3> QED BY <3>1, <3>2, HandlesAreFinite, FS_EmptySet
  <2> QED BY <2>2, <2>3 DEF RefCountsTrack
<1> QED BY <1>1, <1>2, <1>3, PTL DEF Spec

\* Every holder of a device has the rights it asked for, whoever else gets the device
\* with other flags, and a device is writable as long as blocks of it are dirty.
THEOREM RightsGranted ==
  ASSUME Faults \subseteq {"open"}
  PROVE  Spec => []AccessGranted
<1>1. Init => FullInv
  BY FullInit
<1>2. FullInv /\ [Next]_vars => FullInv'
  BY FullInvariance
<1>3. FullInv => AccessGranted
  BY DEF FullInv, HandlesGranted, DirtyWritable, AccessGranted
<1> QED BY <1>1, <1>2, <1>3, PTL DEF Spec

-----------------------------------------------------------------------------
(* Lemmas for those who refine the table: the order of the lru list, and   *)
(* the devices of cached blocks, before and after a call                   *)

\* The paths in the order of the lru list, as pairs.
Order(m) ==
  {pq \in Paths \X Paths :
     \E x, y : Precedes(m.dev_lru, x, y) /\ m.devs[x].path = pq[1] /\ m.devs[y].path = pq[2]}

StillIn(order, r) == {pq \in order : \A i \in {1, 2} : r.dev_tree[pq[i]] # NoDev}

LEMMA OpenPath ==
  ASSUME NEW m, TableIn(m), NEW x \in OpenIn(m)
  PROVE  /\ x \in Idevs /\ m.devs[x].path \in Paths
         /\ m.dev_tree[m.devs[x].path] = x /\ x # NoDev
<1>1. x \in Idevs /\ m.devs[x] \in DevRecords
  BY DEF TableIn, Managers, OpenIn
<1>2. m.devs[x].path \in Paths
  BY <1>1 DEF DevRecords
<1> QED BY <1>1, <1>2, DevAssumption DEF TableIn

LEMMA PathOpen ==
  ASSUME NEW m, TableIn(m), NEW p \in Paths, m.dev_tree[p] # NoDev
  PROVE  m.dev_tree[p] \in OpenIn(m) /\ m.devs[m.dev_tree[p]].path = p
<1>1. m.dev_tree[p] \in Idevs
  BY DEF TableIn, Managers
<1> QED BY <1>1 DEF TableIn

LEMMA TotalOrder ==
  ASSUME NEW m, TableIn(m)
  PROVE  /\ \A x, y : Precedes(m.dev_lru, x, y) => x \in OpenIn(m) /\ y \in OpenIn(m)
         /\ \A x, y \in OpenIn(m) : Precedes(m.dev_lru, x, y) \/ Precedes(m.dev_lru, y, x)
         /\ \A x, y : Precedes(m.dev_lru, x, y) /\ Precedes(m.dev_lru, y, x) => x = y
<1> DEFINE s == m.dev_lru
<1>1. NoDups(s) /\ Range(s) = OpenIn(m) /\ Len(s) \in Nat /\ DOMAIN s = 1 .. Len(s)
  BY LenProperties DEF TableIn, Managers
<1>2. \A x, y : Precedes(s, x, y) => x \in OpenIn(m) /\ y \in OpenIn(m)
  BY <1>1 DEF Precedes, Range
<1>3. ASSUME NEW x \in OpenIn(m), NEW y \in OpenIn(m)
      PROVE  Precedes(s, x, y) \/ Precedes(s, y, x)
  <2>1. PICK i \in 1 .. Len(s), j \in 1 .. Len(s) : s[i] = x /\ s[j] = y
    BY <1>1 DEF Range
  <2>2. i <= j \/ j <= i
    BY <1>1
  <2> QED BY <1>1, <2>1, <2>2 DEF Precedes
<1>4. ASSUME NEW x, NEW y, Precedes(s, x, y), Precedes(s, y, x) PROVE x = y
  <2>1. PICK i \in 1 .. Len(s), j \in 1 .. Len(s) : i <= j /\ s[i] = x /\ s[j] = y
    BY <1>1, <1>4 DEF Precedes
  <2>2. PICK k \in 1 .. Len(s), l \in 1 .. Len(s) : k <= l /\ s[k] = y /\ s[l] = x
    BY <1>1, <1>4 DEF Precedes
  <2>3. k = j /\ l = i
    BY <1>1, <2>1, <2>2 DEF NoDups
  <2>4. i = j
    BY <1>1, <2>1, <2>2, <2>3
  <2> QED BY <2>1, <2>4
<1> QED BY <1>2, <1>3, <1>4

\* The devices a pair of the order is about.
LEMMA OrderOf ==
  ASSUME NEW m, TableIn(m), NEW p \in Paths, NEW q \in Paths
  PROVE  <<p, q>> \in Order(m) <=>
           /\ m.dev_tree[p] # NoDev /\ m.dev_tree[q] # NoDev
           /\ Precedes(m.dev_lru, m.dev_tree[p], m.dev_tree[q])
<1>1. ASSUME <<p, q>> \in Order(m)
      PROVE  /\ m.dev_tree[p] # NoDev /\ m.dev_tree[q] # NoDev
             /\ Precedes(m.dev_lru, m.dev_tree[p], m.dev_tree[q])
  <2>1. PICK x, y : Precedes(m.dev_lru, x, y) /\ m.devs[x].path = p /\ m.devs[y].path = q
    BY <1>1 DEF Order
  <2>2. x \in OpenIn(m) /\ y \in OpenIn(m)
    BY <2>1, TotalOrder
  <2>3. m.dev_tree[p] = x /\ m.dev_tree[q] = y /\ x # NoDev /\ y # NoDev
    BY <2>1, <2>2, OpenPath
  <2> QED BY <2>1, <2>3
<1>2. ASSUME m.dev_tree[p] # NoDev, m.dev_tree[q] # NoDev,
             Precedes(m.dev_lru, m.dev_tree[p], m.dev_tree[q])
      PROVE  <<p, q>> \in Order(m)
  <2>1. m.devs[m.dev_tree[p]].path = p /\ m.devs[m.dev_tree[q]].path = q
    BY <1>2, PathOpen
  <2> QED BY <1>2, <2>1 DEF Order
<1> QED BY <1>1, <1>2

LEMMA PrecedesItself ==
  ASSUME NEW m, TableIn(m), NEW x \in OpenIn(m)
  PROVE  Precedes(m.dev_lru, x, x)
BY TotalOrder

\* When devices only close, what is left of the order stays.
LEMMA OrderKept ==
  ASSUME NEW m, NEW r, TableIn(m), TableIn(r), OpenKept(m, r), LruKept(m, r)
  PROVE  Order(r) = StillIn(Order(m), r)
<1> SUFFICES ASSUME NEW p \in Paths, NEW q \in Paths
             PROVE  <<p, q>> \in Order(r) <=> <<p, q>> \in StillIn(Order(m), r)
  BY DEF Order, StillIn
<1> DEFINE x == r.dev_tree[p]
           y == r.dev_tree[q]
<1>1. <<p, q>> \in StillIn(Order(m), r) <=> <<p, q>> \in Order(m) /\ x # NoDev /\ y # NoDev
  BY DEF StillIn
<1> SUFFICES ASSUME x # NoDev, y # NoDev
             PROVE  <<p, q>> \in Order(r) <=> <<p, q>> \in Order(m)
  BY <1>1, OrderOf
<1>2. x \in OpenIn(r) /\ y \in OpenIn(r) /\ r.devs[x].path = p /\ r.devs[y].path = q
  BY PathOpen
<1>3. x \in OpenIn(m) /\ y \in OpenIn(m) /\ m.dev_tree[p] = x /\ m.dev_tree[q] = y
  <2> SUFFICES ASSUME NEW z \in OpenIn(r) PROVE z \in OpenIn(m) /\ m.dev_tree[r.devs[z].path] = z
    BY <1>2
  <2>1. z \in OpenIn(m) /\ r.devs[z].path = m.devs[z].path
    BY DEF OpenKept
  <2> QED BY <2>1, OpenPath
<1>4. Precedes(r.dev_lru, x, y) <=> Precedes(m.dev_lru, x, y)
  <2>1. ASSUME Precedes(m.dev_lru, x, y), ~Precedes(r.dev_lru, x, y) PROVE FALSE
    <3>1. Precedes(r.dev_lru, y, x)
      BY <1>2, <2>1, TotalOrder
    <3>2. x = y
      BY <2>1, <3>1, TotalOrder DEF LruKept
    <3> QED BY <2>1, <3>1, <3>2
  <2> QED BY <2>1 DEF LruKept
<1> QED BY <1>3, <1>4, OrderOf

\* A get moves its path to the end of the order.
LEMMA OrderGot ==
  ASSUME NEW m, NEW r, TableIn(m), NEW path \in Paths, NEW e, NEW flags, Effect(m, r, e, path, flags)
  PROVE  Order(r) = StillIn({pq \in Order(m) : pq[1] # path} \cup (Paths \X {path}), r)
<1>1. /\ TableIn(r) /\ OpenEffect(m, r, e) /\ LruEffect(m, r, path)
      /\ e # NoDev => r.devs[e].path = path
  BY DEF Effect, Sound, FlagsEffect
<1> DEFINE got == {pq \in Order(m) : pq[1] # path} \cup (Paths \X {path})
<1>2. got \subseteq Paths \X Paths
  BY DEF Order
<1> SUFFICES ASSUME NEW p \in Paths, NEW q \in Paths
             PROVE  <<p, q>> \in Order(r) <=> <<p, q>> \in StillIn(got, r)
  BY <1>2 DEF Order, StillIn
<1> DEFINE x == r.dev_tree[p]
           y == r.dev_tree[q]
<1>3. <<p, q>> \in StillIn(got, r) <=>
        /\ q = path \/ (<<p, q>> \in Order(m) /\ p # path)
        /\ x # NoDev /\ y # NoDev
  BY DEF StillIn
<1> SUFFICES ASSUME x # NoDev, y # NoDev
             PROVE  <<p, q>> \in Order(r) <=> q = path \/ (<<p, q>> \in Order(m) /\ p # path)
  BY <1>1, <1>3, OrderOf
<1>4. x \in OpenIn(r) /\ y \in OpenIn(r) /\ r.devs[x].path = p /\ r.devs[y].path = q
  BY <1>1, PathOpen
<1>5. <<p, q>> \in Order(r) <=> Precedes(r.dev_lru, x, y)
  BY <1>1, OrderOf
<1>6. CASE q = path
  <2>1. ASSUME ~Precedes(r.dev_lru, x, y) PROVE FALSE
    <3>1. Precedes(r.dev_lru, y, x)
      BY <1>1, <1>4, <2>1, TotalOrder
    <3>2. p = path
      BY <1>1, <1>4, <1>6, <3>1 DEF LruEffect
    <3> QED BY <1>6, <2>1, <3>1, <3>2
  <2> QED BY <1>5, <1>6, <2>1
<1>7. CASE q # path
  <2>1. /\ y \in OpenIn(m) /\ m.dev_tree[q] = y
        /\ p # path => x \in OpenIn(m) /\ m.dev_tree[p] = x
    <3> SUFFICES ASSUME NEW z \in OpenIn(r), r.devs[z].path # path
                 PROVE  z \in OpenIn(m) /\ m.dev_tree[r.devs[z].path] = z
      BY <1>4, <1>7
    <3>1. z # e
      BY <1>1, OpenPath
    <3>2. z \in OpenIn(m) /\ r.devs[z].path = m.devs[z].path
      BY <1>1, <3>1 DEF OpenEffect
    <3> QED BY <3>2, OpenPath
  <2>2. ASSUME Precedes(r.dev_lru, x, y) PROVE p # path /\ Precedes(m.dev_lru, x, y)
    BY <1>1, <1>4, <1>7, <2>2 DEF LruEffect
  <2>3. ASSUME p # path, Precedes(m.dev_lru, x, y), ~Precedes(r.dev_lru, x, y) PROVE FALSE
    <3>1. Precedes(r.dev_lru, y, x)
      BY <1>1, <1>4, <2>3, TotalOrder
    <3>2. Precedes(m.dev_lru, y, x)
      BY <1>1, <1>4, <2>3, <3>1 DEF LruEffect
    <3>3. x = y
      BY <2>3, <3>2, TotalOrder
    <3> QED BY <2>3, <3>1, <3>3
  <2>4. p # path => (<<p, q>> \in Order(m) <=> Precedes(m.dev_lru, x, y))
    BY <2>1, OrderOf
  <2> QED BY <1>5, <1>7, <2>2, <2>3, <2>4
<1> QED BY <1>6, <1>7

\* A block that stays cached stays on the device its path leads to.
LEMMA PathStays ==
  ASSUME NEW m, NEW r, TableIn(m), TableIn(r), NEW p \in Paths, m.dev_tree[p] # NoDev,
         m.dev_tree[p] \in OpenIn(r), r.devs[m.dev_tree[p]].path = m.devs[m.dev_tree[p]].path
  PROVE  r.dev_tree[p] = m.dev_tree[p]
<1>1. m.devs[m.dev_tree[p]].path = p
  BY PathOpen
<1> QED BY <1>1, OpenPath

LEMMA PathKept ==
  ASSUME NEW m, NEW r, Sound(m), Sound(r), OpenKept(m, r), NEW f \in Frames,
         r.frames[f] # Free, r.frames[f].in_tree, NEW p \in Paths, r.frames[f].dev = m.dev_tree[p]
  PROVE  r.dev_tree[p] = m.dev_tree[p]
<1>1. Sound(r) /\ OpenKept(m, r)
  OBVIOUS
<1>2. m.dev_tree[p] \in OpenIn(r)
  BY <1>1, CachedIsOpen
<1>3. m.dev_tree[p] # NoDev /\ r.devs[m.dev_tree[p]].path = m.devs[m.dev_tree[p]].path
  BY <1>1, <1>2, DevAssumption DEF OpenKept, OpenIn
<1> QED BY <1>1, <1>2, <1>3, PathStays DEF Sound

LEMMA PathGot ==
  ASSUME NEW m, NEW r, Sound(m), NEW path, NEW e, NEW flags, Effect(m, r, e, path, flags),
         NEW f \in Frames, r.frames[f] # Free, r.frames[f].in_tree,
         NEW p \in Paths, r.frames[f].dev = m.dev_tree[p]
  PROVE  r.dev_tree[p] = m.dev_tree[p]
<1> DEFINE d == m.dev_tree[p]
<1>1. Sound(r) /\ OpenEffect(m, r, e) /\ FlagsEffect(m, r, e, path, flags)
  BY DEF Effect
<1>2. d \in OpenIn(r) /\ f \in InTree(r, d)
  BY <1>1, CachedIsOpen
<1>3. d # NoDev
  BY <1>2, DevAssumption DEF OpenIn
<1>4. r.devs[d].path = m.devs[d].path
  <2>1. CASE d = e
    <3>1. InTree(r, e) # {}
      BY <1>2, <2>1
    <3> QED BY <1>1, <1>3, <2>1, <3>1 DEF FlagsEffect
  <2>2. CASE d # e
    BY <1>1, <1>2, <2>2 DEF OpenEffect
  <2> QED BY <2>1, <2>2
<1> QED BY <1>1, <1>2, <1>3, <1>4, PathStays DEF Sound
=============================================================================
