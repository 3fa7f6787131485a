----------------------------- MODULE CacheProofs -----------------------------
(***************************************************************************)
(* Theorems about Cache, for any keys, messages, limits and policies.      *)
(*                                                                         *)
(* The loops of container/heap and of evictFor are recursive functions of  *)
(* the number of rounds; what they compute is proved by induction on it,   *)
(* which rests on the least element of a set of numbers (WFMin).           *)
(***************************************************************************)
EXTENDS Cache, FiniteSetTheorems, SequenceTheorems, WellFoundedInduction, TLAPS

-----------------------------------------------------------------------------
(* Values of the state of a Cache. *)

Caches == [items : [Keys -> Entries \cup {None}], total : Int,
           order : Seq(Keys), heap : Seq(Keys), seq : 0 .. MaxSeq]

\* The heap and the indexes in the entries point at each other.
Indexed(c) ==
  /\ \A i \in 1 .. Len(c.heap) : Has(c, c.heap[i]) /\ c.items[c.heap[i]].heapIdx = i
  /\ \A k \in Keys : Has(c, k) /\ c.items[k].heapIdx # 0 =>
       /\ c.items[k].heapIdx \in 1 .. Len(c.heap)
       /\ c.heap[c.items[k].heapIdx] = k

\* No two entries were inserted at once.
Distinct(c) ==
  \A a, b \in Keys : Has(c, a) /\ Has(c, b) /\ a # b => c.items[a].seq # c.items[b].seq

\* The order of the heap.
Lower(c, a, b) ==
  \/ c.items[a].freq < c.items[b].freq
  \/ c.items[a].freq = c.items[b].freq /\ c.items[a].seq < c.items[b].seq

\* The first n elements of the heap are a heap.
InOrder(c, i) == Lower(c, c.heap[i \div 2], c.heap[i])
Ordered(c, n) == \A i \in 2 .. n : InOrder(c, i)

\* The entries of c and d differ in nothing but their places in the heap.
Alike(c, d) ==
  /\ d.total = c.total /\ d.order = c.order /\ d.seq = c.seq
  /\ \A k \in Keys : Has(d, k) <=> Has(c, k)
  /\ \A k \in Keys : Has(c, k) =>
       /\ d.items[k].size = c.items[k].size /\ d.items[k].left = c.items[k].left
       /\ d.items[k].freq = c.items[k].freq /\ d.items[k].seq = c.items[k].seq

\* The heap of d has the first n elements of that of c in another order.
Permuted(c, d, n) ==
  /\ Alike(c, d) /\ Len(d.heap) = Len(c.heap)
  /\ \A k \in Keys : Has(c, k) => (d.items[k].heapIdx = 0 <=> c.items[k].heapIdx = 0)
  /\ \A p \in 1 .. Len(c.heap) : p > n => d.heap[p] = c.heap[p]

HeapState(c) == c \in Caches /\ Indexed(c) /\ Distinct(c)

-----------------------------------------------------------------------------
(* Induction. *)

\* A set of numbers that is not empty has a least one.
LEMMA LeastNat ==
  ASSUME NEW T \in SUBSET Nat, T # {}
  PROVE  \E m \in T : \A n \in T : m <= n
<1>1. PICK m \in T : \A n \in T : <<n, m>> \notin OpToRel(<, Nat)
  BY WFMin, NatLessThanWellFounded
<1>2. \A n \in T : ~ (n < m)
  BY <1>1 DEF OpToRel
<1> QED
  BY <1>2

\* What holds of 0 and passes from each number to the next holds of all.
LEMMA Induction ==
  ASSUME NEW T, 0 \in T, \A n \in Nat : n \in T => n + 1 \in T
  PROVE  Nat \subseteq T
<1> SUFFICES ASSUME Nat \ T # {} PROVE FALSE
  OBVIOUS
<1>1. PICK m \in Nat \ T : \A n \in Nat \ T : m <= n
  <2>1. Nat \ T \in SUBSET Nat
    OBVIOUS
  <2> QED
    BY <2>1, LeastNat
<1>2. m # 0 /\ m - 1 \in Nat /\ m - 1 \in T
  BY <1>1
<1> QED
  BY <1>1, <1>2

-----------------------------------------------------------------------------
(* Types. *)

\* What the map holds are entries.
LEMMA EntryType ==
  ASSUME NEW c \in Caches, NEW k \in Keys, Has(c, k)
  PROVE  /\ c.items[k] \in Entries
         /\ c.items[k].size \in Nat /\ c.items[k].left \in Int
         /\ c.items[k].freq \in Nat /\ c.items[k].seq \in Nat /\ c.items[k].heapIdx \in Nat
<1>1. c.items[k] \in Entries
  BY DEF Caches, Has
<1> QED
  BY <1>1, BoundsAssumption DEF Entries

\* An entry is not mistaken for none.
LEMMA EntryIsSome == \A e \in Entries : e # None
BY NoneAssumption, BoundsAssumption DEF Entries

\* The order of the heap is a strict one, and total where no insertions are the
\* same.
LEMMA LowerOrder ==
  ASSUME NEW c \in Caches, Distinct(c)
  PROVE  /\ \A a, b \in Keys : Has(c, a) /\ Has(c, b) =>
              (a # b => Lower(c, a, b) \/ Lower(c, b, a)) /\ ~ (Lower(c, a, b) /\ Lower(c, b, a))
         /\ \A a, b, k \in Keys : Has(c, a) /\ Has(c, b) /\ Has(c, k) =>
              (Lower(c, a, b) /\ Lower(c, b, k) => Lower(c, a, k))
<1>1. \A k \in Keys : Has(c, k) => c.items[k].freq \in Nat /\ c.items[k].seq \in Nat
  BY EntryType
<1> QED
  BY <1>1 DEF Lower, Distinct

\* Alike entries are in the same order.
LEMMA LowerAlike ==
  ASSUME NEW c, NEW d, Alike(c, d), NEW a \in Keys, NEW b \in Keys, Has(c, a), Has(c, b)
  PROVE  Lower(d, a, b) <=> Lower(c, a, b)
BY DEF Alike, Lower

\* Less of the code compares places, Lower the entries there.
LEMMA LessIsLower ==
  ASSUME NEW c, NEW i, NEW j
  PROVE  Less(c, i, j) <=> Lower(c, c.heap[i], c.heap[j])
BY DEF Less, Lower

\* The heap holds keys that the map has.
LEMMA HeapType ==
  ASSUME NEW c, HeapState(c)
  PROVE  /\ Len(c.heap) \in Nat
         /\ \A i \in 1 .. Len(c.heap) : c.heap[i] \in Keys /\ Has(c, c.heap[i])
BY DEF HeapState, Indexed, Caches

\* No key is twice in the heap.
LEMMA HeapInjective ==
  ASSUME NEW c, HeapState(c)
  PROVE  \A p, q \in 1 .. Len(c.heap) : c.heap[p] = c.heap[q] => p = q
BY DEF HeapState, Indexed

\* Permuted is reflexive,
LEMMA PermutedSelf ==
  ASSUME NEW c, NEW n
  PROVE  Permuted(c, c, n)
BY DEF Permuted, Alike

\* and transitive.
LEMMA PermutedTrans ==
  ASSUME NEW c, NEW d, NEW e, NEW n, Permuted(c, d, n), Permuted(d, e, n)
  PROVE  Permuted(c, e, n)
<1>1. Alike(c, e)
  BY DEF Permuted, Alike
<1>2. Len(e.heap) = Len(c.heap) /\ \A p \in 1 .. Len(c.heap) : p > n => e.heap[p] = c.heap[p]
  BY DEF Permuted
<1>3. \A k \in Keys : Has(c, k) => (e.items[k].heapIdx = 0 <=> c.items[k].heapIdx = 0)
  BY DEF Permuted, Alike
<1> QED
  BY <1>1, <1>2, <1>3 DEF Permuted

-----------------------------------------------------------------------------
(* The heap. *)

\* Swap exchanges two elements and keeps the indexes right.
LEMMA Swaps ==
  ASSUME NEW c, HeapState(c), NEW i \in 1 .. Len(c.heap), NEW j \in 1 .. Len(c.heap)
  PROVE  /\ HeapState(Swap(c, i, j))
         /\ \A n \in Nat : i <= n /\ j <= n => Permuted(c, Swap(c, i, j), n)
         /\ \A p \in 1 .. Len(c.heap) : Swap(c, i, j).heap[p] =
              IF p = i THEN c.heap[j] ELSE IF p = j THEN c.heap[i] ELSE c.heap[p]
<1> DEFINE d == Swap(c, i, j)
           a == c.heap[i]
           b == c.heap[j]
           h == [c.heap EXCEPT ![i] = b, ![j] = a]
           its == [c.items EXCEPT ![b].heapIdx = i, ![a].heapIdx = j]
<1>1. /\ c \in Caches /\ c.heap \in Seq(Keys) /\ c.items \in [Keys -> Entries \cup {None}]
      /\ a \in Keys /\ b \in Keys /\ Has(c, a) /\ Has(c, b)
  BY HeapType DEF HeapState, Caches
<1>2. /\ h \in Seq(Keys) /\ Len(h) = Len(c.heap)
      /\ \A p \in 1 .. Len(c.heap) :
           h[p] = IF p = i THEN b ELSE IF p = j THEN a ELSE c.heap[p]
  BY <1>1
<1>3. /\ d.heap = h /\ d.items = its /\ d.total = c.total /\ d.order = c.order /\ d.seq = c.seq
      /\ d = [c EXCEPT !.heap = h, !.items = its]
  BY <1>1 DEF Swap, Caches
<1>4. \A k \in Keys : Has(c, k) => c.items[k] \in Entries
  BY <1>1, EntryType
<1>5. ASSUME NEW k \in Keys
      PROVE  its[k] = IF k = a THEN [c.items[k] EXCEPT !.heapIdx = j]
                      ELSE IF k = b THEN [c.items[k] EXCEPT !.heapIdx = i] ELSE c.items[k]
  BY <1>1, <1>4 DEF Entries
<1> HIDE DEF h, its, d
<1>6. ASSUME NEW k \in Keys, Has(c, k)
      PROVE  /\ its[k] \in Entries
             /\ its[k].size = c.items[k].size /\ its[k].left = c.items[k].left
             /\ its[k].freq = c.items[k].freq /\ its[k].seq = c.items[k].seq
             /\ its[k].heapIdx = IF k = a THEN j ELSE IF k = b THEN i ELSE c.items[k].heapIdx
  <2>1. Len(c.heap) \in Nat /\ i \in Nat /\ j \in Nat
    BY <1>1
  <2> QED
    BY <1>4, <1>5, <1>6, <2>1 DEF Entries
<1>7. \A k \in Keys : ~ Has(c, k) => its[k] = None
  BY <1>1, <1>5 DEF Has
<1>8. its \in [Keys -> Entries \cup {None}]
  <2>1. its = [k \in Keys |-> its[k]]
    BY <1>1 DEF its
  <2>2. \A k \in Keys : its[k] \in Entries \cup {None}
    BY <1>6, <1>7
  <2> QED
    BY <2>1, <2>2
<1>9. d \in Caches
  BY <1>1, <1>2, <1>3, <1>8 DEF Caches
<1>10. \A k \in Keys : Has(d, k) <=> Has(c, k)
  BY <1>3, <1>6, <1>7, EntryIsSome DEF Has
<1>11. Alike(c, d)
  BY <1>3, <1>6, <1>10 DEF Alike
<1>12. Distinct(d)
  BY <1>11 DEF HeapState, Distinct, Alike
<1>13. /\ \A p \in 1 .. Len(c.heap) : c.items[c.heap[p]].heapIdx = p
       /\ \A k \in Keys : Has(c, k) /\ c.items[k].heapIdx # 0 =>
            /\ c.items[k].heapIdx \in 1 .. Len(c.heap)
            /\ c.heap[c.items[k].heapIdx] = k
  BY DEF HeapState, Indexed
<1>14. Indexed(d)
  <2>1. ASSUME NEW p \in 1 .. Len(c.heap) PROVE Has(d, h[p]) /\ its[h[p]].heapIdx = p
    <3>1. h[p] \in Keys /\ Has(c, h[p])
      BY <1>1, <1>2, HeapType
    <3>2. CASE p = i
      BY <1>2, <1>6, <1>10, <1>13, <3>1, <3>2
    <3>3. CASE p # i /\ p = j
      BY <1>2, <1>6, <1>10, <1>13, <3>1, <3>3
    <3>4. CASE p # i /\ p # j
      <4>1. h[p] = c.heap[p] /\ h[p] # a /\ h[p] # b
        BY <1>2, <1>13, <3>4
      <4> QED
        BY <1>6, <1>10, <1>13, <3>1, <4>1
    <3> QED
      BY <3>2, <3>3, <3>4
  <2>2. ASSUME NEW k \in Keys, Has(d, k), its[k].heapIdx # 0
        PROVE  its[k].heapIdx \in 1 .. Len(c.heap) /\ h[its[k].heapIdx] = k
    <3>1. Has(c, k)
      BY <1>10, <2>2
    <3>2. CASE k = a
      BY <1>2, <1>6, <1>13, <3>1, <3>2
    <3>3. CASE k # a /\ k = b
      BY <1>2, <1>6, <1>13, <3>1, <3>3
    <3>4. CASE k # a /\ k # b
      <4>1. its[k].heapIdx = c.items[k].heapIdx
        BY <1>6, <3>1, <3>4
      <4>2. its[k].heapIdx # i /\ its[k].heapIdx # j
        BY <1>13, <2>2, <3>1, <3>4, <4>1
      <4> QED
        BY <1>2, <1>13, <2>2, <3>1, <4>1, <4>2
    <3> QED
      BY <3>2, <3>3, <3>4
  <2> QED
    BY <1>2, <1>3, <2>1, <2>2 DEF Indexed
<1>15. \A k \in Keys : Has(c, k) => (d.items[k].heapIdx = 0 <=> c.items[k].heapIdx = 0)
  <2>1. \A k \in Keys : Has(c, k) => (its[k].heapIdx = 0 <=> c.items[k].heapIdx = 0)
    <3>1. i # 0 /\ j # 0 /\ c.items[a].heapIdx = i /\ c.items[b].heapIdx = j
      BY <1>13
    <3> QED
      BY <1>6, <3>1
  <2> QED
    BY <1>3, <2>1
<1>16. ASSUME NEW n \in Nat, i <= n, j <= n PROVE Permuted(c, d, n)
  BY <1>2, <1>3, <1>11, <1>15, <1>16 DEF Permuted
<1> QED
  BY <1>2, <1>3, <1>9, <1>12, <1>14, <1>16 DEF HeapState, d

\* Parents and children.
LEMMA Halves ==
  /\ \A i \in Nat : i >= 2 => i \div 2 \in Nat /\ i \div 2 >= 1 /\ i \div 2 < i
  /\ \A i \in Nat, k \in Nat : k \div 2 = i <=> k = 2 * i \/ k = 2 * i + 1
OBVIOUS

\* A heap of n elements but for the one at j, which may be too low, and is no
\* lower than where it came from.
UpReady(c, j, n) ==
  /\ HeapState(c) /\ n \in 0 .. Len(c.heap) /\ j \in 1 .. n
  /\ \A k \in 2 .. n : k # j => InOrder(c, k)
  /\ \A k \in 2 .. n : k \div 2 = j /\ j >= 2 => Lower(c, c.heap[j \div 2], c.heap[k])

UpOver(s) == s.at = 1 \/ ~ Less(s.cache, s.at, s.at \div 2)

\* A round of Up leaves a heap that is ready for the next,
LEMMA UpMoves ==
  ASSUME NEW c, NEW n, NEW j, UpReady(c, j, n), j # 1, Less(c, j, j \div 2)
  PROVE  /\ UpReady(Swap(c, j \div 2, j), j \div 2, n)
         /\ Permuted(c, Swap(c, j \div 2, j), n)
         /\ j \div 2 < j
<1> DEFINE i == j \div 2
           d == Swap(c, i, j)
           h == c.heap
<1>0. /\ HeapState(c) /\ Len(h) \in Nat /\ n \in Nat /\ n <= Len(h) /\ j \in Nat /\ j >= 2 /\ j <= n
      /\ i \in 1 .. n /\ i \in 1 .. Len(h) /\ i < j /\ i \in Nat /\ j \in 1 .. Len(h)
  BY HeapType, Halves DEF UpReady
<1> HIDE DEF i, d, h
<1>1. /\ HeapState(d) /\ Permuted(c, d, n)
      /\ \A p \in 1 .. Len(h) : d.heap[p] = IF p = i THEN h[j] ELSE IF p = j THEN h[i] ELSE h[p]
  BY <1>0, Swaps DEF d, h
<1>2. /\ \A p \in 1 .. n : h[p] \in Keys /\ Has(c, h[p])
      /\ c \in Caches /\ Distinct(c) /\ Alike(c, d)
  BY <1>0, <1>1, HeapType DEF h, HeapState, Permuted
<1>3. \A p, q \in 1 .. n : Lower(d, h[p], h[q]) <=> Lower(c, h[p], h[q])
  BY <1>2, LowerAlike
<1>4. \A p, q, r \in 1 .. n : Lower(c, h[p], h[q]) /\ Lower(c, h[q], h[r]) => Lower(c, h[p], h[r])
  BY <1>2, LowerOrder
<1>5. \A p \in 1 .. n : d.heap[p] = IF p = i THEN h[j] ELSE IF p = j THEN h[i] ELSE h[p]
  BY <1>0, <1>1
<1>6. Lower(c, h[j], h[i])
  BY LessIsLower DEF h, i
<1>7. \A k \in 2 .. n : k # j => Lower(c, h[k \div 2], h[k])
  BY DEF UpReady, InOrder, h
<1>8. \A k \in 2 .. n : k \div 2 = j => Lower(c, h[i], h[k])
  BY <1>0 DEF UpReady, h, i
<1>9. \A k \in 2 .. n : k \div 2 \in 1 .. n /\ k \div 2 # k /\ k \in 1 .. n
  BY Halves, <1>0
<1>10. ASSUME NEW k \in 2 .. n, k # i PROVE InOrder(d, k)
  <2>1. CASE k = j
    BY <1>0, <1>3, <1>5, <1>6, <2>1 DEF InOrder, i
  <2>2. CASE k # j /\ k \div 2 = j
    BY <1>0, <1>3, <1>5, <1>8, <1>9, <1>10, <2>2 DEF InOrder
  <2>3. CASE k # j /\ k \div 2 = i
    <3>1. d.heap[k] = h[k] /\ d.heap[k \div 2] = h[j]
      BY <1>0, <1>5, <1>9, <1>10, <2>3
    <3>2. Lower(c, h[i], h[k])
      BY <1>7, <2>3
    <3>3. Lower(c, h[j], h[k])
      BY <1>0, <1>4, <1>6, <1>9, <3>2
    <3> QED
      BY <1>0, <1>3, <1>9, <3>1, <3>3 DEF InOrder
  <2>4. CASE k # j /\ k \div 2 # j /\ k \div 2 # i
    <3>1. d.heap[k] = h[k] /\ d.heap[k \div 2] = h[k \div 2]
      BY <1>5, <1>9, <1>10, <2>4
    <3> QED
      BY <1>3, <1>7, <1>9, <2>4, <3>1 DEF InOrder
  <2> QED
    BY <2>1, <2>2, <2>3, <2>4
<1>11. ASSUME NEW k \in 2 .. n, k \div 2 = i, i >= 2 PROVE Lower(d, d.heap[i \div 2], d.heap[k])
  <2>1. i \in 2 .. n /\ i \div 2 \in 1 .. n /\ i \div 2 # i /\ i \div 2 # j /\ i # j
    BY <1>0, <1>9, <1>11, Halves
  <2>2. d.heap[i \div 2] = h[i \div 2] /\ Lower(c, h[i \div 2], h[i])
    BY <1>5, <1>7, <2>1
  <2>3. CASE k = j
    BY <1>0, <1>3, <1>5, <2>1, <2>2, <2>3
  <2>4. CASE k # j
    <3>1. d.heap[k] = h[k] /\ Lower(c, h[i], h[k])
      BY <1>5, <1>7, <1>9, <1>11, <2>4
    <3>2. Lower(c, h[i \div 2], h[k])
      BY <1>0, <1>4, <1>9, <2>1, <2>2, <3>1
    <3> QED
      BY <1>3, <1>9, <2>1, <2>2, <3>1, <3>2
  <2> QED
    BY <2>3, <2>4
<1>12. n \in 0 .. Len(d.heap)
  BY <1>0, <1>1 DEF Permuted, h
<1>13. UpReady(d, i, n)
  BY <1>0, <1>1, <1>10, <1>11, <1>12 DEF UpReady
<1> QED
  BY <1>0, <1>1, <1>13 DEF d, i

\* and when there is none, a heap.
LEMMA UpEnds ==
  ASSUME NEW c, NEW n, NEW j, UpReady(c, j, n), j = 1 \/ ~ Less(c, j, j \div 2)
  PROVE  Ordered(c, n)
<1>1. j \in Nat /\ j >= 1 /\ j <= n /\ n \in Nat /\ n <= Len(c.heap) /\ Len(c.heap) \in Nat
  BY HeapType DEF UpReady
<1>2. j # 1 => InOrder(c, j)
  <2> SUFFICES ASSUME j # 1 PROVE InOrder(c, j)
    OBVIOUS
  <2>1. j \div 2 \in 1 .. Len(c.heap) /\ j \in 1 .. Len(c.heap) /\ j \div 2 # j
    BY <1>1, Halves
  <2>2. c.heap[j] # c.heap[j \div 2]
    BY <2>1, HeapInjective DEF UpReady
  <2>3. /\ c.heap[j] \in Keys /\ Has(c, c.heap[j])
        /\ c.heap[j \div 2] \in Keys /\ Has(c, c.heap[j \div 2])
    BY <2>1, HeapType DEF UpReady
  <2>4. ~ Lower(c, c.heap[j], c.heap[j \div 2])
    BY LessIsLower
  <2>5. c \in Caches /\ Distinct(c)
    BY DEF UpReady, HeapState
  <2> QED
    BY <2>2, <2>3, <2>4, <2>5, LowerOrder DEF InOrder
<1> QED
  BY <1>1, <1>2 DEF UpReady, Ordered

\* The rounds of Up.
LEMMA UpRuns ==
  ASSUME NEW c, NEW j, NEW N \in Nat, N = Len(c.heap)
  PROVE  \E r : /\ r[0] = [cache |-> c, at |-> j] /\ Up(c, j) = r[N].cache
                /\ \A i \in 0 .. N - 1 : r[i + 1] = UpStep(r[i])
<1> DEFINE s == [cache |-> c, at |-> j]
           Runs(r, n) == r = [i \in 0 .. n |-> IF i = 0 THEN s ELSE UpStep(r[i - 1])]
           T == {n \in Nat : \E r : Runs(r, n)}
<1>1. 0 \in T
  <2>1. Runs([i \in 0 .. 0 |-> s], 0)
    OBVIOUS
  <2> QED
    BY <2>1
<1>2. ASSUME NEW n \in Nat, n \in T PROVE n + 1 \in T
  <2>1. PICK r : Runs(r, n)
    BY <1>2
  <2> DEFINE q == [i \in 0 .. n + 1 |-> IF i <= n THEN r[i] ELSE UpStep(r[n])]
  <2>2. Runs(q, n + 1)
    BY <2>1
  <2>3. \E x : Runs(x, n + 1)
    BY <2>2
  <2> QED
    BY <2>3
<1>3. N \in T
  BY <1>1, <1>2, Induction
<1> DEFINE r == CHOOSE r : Runs(r, N)
<1>4. Runs(r, N)
  BY <1>3
<1>5. Up(c, j) = r[N].cache
  BY DEF Up, Repeat
<1> HIDE DEF r
<1>6. r[0] = s /\ \A i \in 0 .. N - 1 : r[i + 1] = UpStep(r[i])
  BY <1>4
<1> QED
  BY <1>5, <1>6

\* Up makes a heap of one that is ready for it.
LEMMA UpHeaps ==
  ASSUME NEW c, NEW j, NEW n, UpReady(c, j, n)
  PROVE  HeapState(Up(c, j)) /\ Permuted(c, Up(c, j), n) /\ Ordered(Up(c, j), n)
<1> DEFINE N == Len(c.heap)
           s == [cache |-> c, at |-> j]
<1>1. N \in Nat /\ j \in Nat /\ j <= N /\ j >= 1
  BY HeapType DEF UpReady
<1>a. N = Len(c.heap)
  OBVIOUS
<1> HIDE DEF N
<1>2. PICK r : /\ r[0] = s /\ Up(c, j) = r[N].cache
               /\ \A i \in 0 .. N - 1 : r[i + 1] = UpStep(r[i])
  BY <1>1, <1>a, UpRuns
<1> DEFINE OK(i) == /\ UpReady(r[i].cache, r[i].at, n) /\ Permuted(c, r[i].cache, n)
                    /\ UpOver(r[i]) \/ r[i].at <= j - i
           T == {i \in Nat : i <= N => OK(i)}
<1> HIDE DEF OK
<1>3. 0 \in T
  <2>1. OK(0)
    BY <1>1, <1>2, PermutedSelf DEF OK
  <2> QED
    BY <2>1
<1>4. ASSUME NEW i \in Nat, i \in T PROVE i + 1 \in T
  <2> SUFFICES ASSUME i + 1 <= N PROVE OK(i + 1)
    OBVIOUS
  <2> DEFINE d == r[i].cache
             k == r[i].at
  <2>1. r[i + 1] = UpStep(r[i]) /\ OK(i)
    BY <1>1, <1>2, <1>4
  <2>2. UpReady(d, k, n) /\ Permuted(c, d, n)
    BY <2>1 DEF OK
  <2>3. CASE UpOver(r[i])
    BY <2>1, <2>3 DEF OK, UpOver, UpStep
  <2>4. CASE ~ UpOver(r[i])
    <3>1. k # 1 /\ Less(d, k, k \div 2)
      BY <2>4 DEF UpOver
    <3>2. r[i + 1] = [cache |-> Swap(d, k \div 2, k), at |-> k \div 2]
      BY <2>1, <3>1 DEF UpStep
    <3>3. UpReady(r[i + 1].cache, r[i + 1].at, n) /\ Permuted(d, r[i + 1].cache, n) /\ r[i + 1].at < k
      BY <2>2, <3>1, <3>2, UpMoves
    <3>4. k \in Nat /\ r[i + 1].at \in Nat /\ k <= j - i
      BY <2>1, <2>2, <2>4, <3>3 DEF OK, UpReady
    <3>5. r[i + 1].at <= j - (i + 1)
      BY <1>1, <3>3, <3>4
    <3> QED
      BY <2>2, <3>3, <3>5, PermutedTrans DEF OK
  <2> QED
    BY <2>3, <2>4
<1>5. OK(N)
  <2>1. N \in T
    BY <1>1, <1>3, <1>4, Induction
  <2> QED
    BY <1>1, <2>1
<1> DEFINE d == r[N].cache
           k == r[N].at
<1>6. UpReady(d, k, n) /\ Permuted(c, d, n) /\ (UpOver(r[N]) \/ k <= j - N)
  BY <1>5 DEF OK
<1>7. UpOver(r[N])
  <2>1. k \in Nat /\ k >= 1
    BY <1>6 DEF UpReady
  <2>2. k <= j - N => k = 1
    BY <1>1, <2>1
  <2> QED
    BY <1>6, <2>2 DEF UpOver
<1>8. Ordered(d, n)
  BY <1>6, <1>7, UpEnds DEF UpOver
<1>9. Up(c, j) = d
  BY <1>2
<1> QED
  BY <1>6, <1>8, <1>9 DEF UpReady

\* A heap of n elements but for the one at i, which may be too low or too high,
\* and whose children are no lower than its parent.
DownReady(c, i, n) ==
  /\ HeapState(c) /\ n \in 0 .. Len(c.heap) /\ i \in Nat /\ i >= 1
  /\ \A k \in 2 .. n : k # i /\ k \div 2 # i => InOrder(c, k)
  /\ \A k \in 2 .. n : k \div 2 = i /\ i >= 2 => Lower(c, c.heap[i \div 2], c.heap[k])

DownOver(s, n) == 2 * s.at > n \/ ~ Less(s.cache, Child(s.cache, s.at, n), s.at)

\* Child is the lowest of the children.
LEMMA LowestChild ==
  ASSUME NEW c, NEW n, NEW i, DownReady(c, i, n), 2 * i <= n
  PROVE  /\ Child(c, i, n) \in 2 .. n /\ Child(c, i, n) \div 2 = i
         /\ \A k \in 2 .. n : k \div 2 = i /\ k # Child(c, i, n) =>
              Lower(c, c.heap[Child(c, i, n)], c.heap[k])
<1> DEFINE l == 2 * i
           j == Child(c, i, n)
<1>1. /\ i \in Nat /\ i >= 1 /\ n \in Nat /\ n <= Len(c.heap) /\ Len(c.heap) \in Nat
      /\ l \in 2 .. n /\ l + 1 \in Nat /\ l \div 2 = i /\ (l + 1) \div 2 = i
      /\ HeapState(c) /\ c \in Caches /\ Distinct(c)
  BY HeapType, Halves DEF DownReady, HeapState
<1>2. \A k \in 2 .. n : k \div 2 = i => k = l \/ k = l + 1
  BY <1>1, Halves
<1>3. l + 1 <= n =>
        /\ Less(c, l + 1, l) <=> Lower(c, c.heap[l + 1], c.heap[l])
        /\ Less(c, l + 1, l) \/ Lower(c, c.heap[l], c.heap[l + 1])
  <2> SUFFICES ASSUME l + 1 <= n
               PROVE  /\ Less(c, l + 1, l) <=> Lower(c, c.heap[l + 1], c.heap[l])
                      /\ Less(c, l + 1, l) \/ Lower(c, c.heap[l], c.heap[l + 1])
    OBVIOUS
  <2>1. Less(c, l + 1, l) <=> Lower(c, c.heap[l + 1], c.heap[l])
    BY LessIsLower
  <2>2. l \in 1 .. Len(c.heap) /\ l + 1 \in 1 .. Len(c.heap)
    BY <1>1
  <2>3. c.heap[l] # c.heap[l + 1]
    <3>1. l # l + 1
      BY <1>1
    <3> QED
      BY <1>1, <2>2, <3>1, HeapInjective
  <2>4. /\ c.heap[l] \in Keys /\ Has(c, c.heap[l])
        /\ c.heap[l + 1] \in Keys /\ Has(c, c.heap[l + 1])
    BY <1>1, <2>2, HeapType
  <2> QED
    BY <1>1, <2>1, <2>3, <2>4, LowerOrder
<1>4. j = IF l + 1 <= n /\ Less(c, l + 1, l) THEN l + 1 ELSE l
  BY DEF Child
<1> HIDE DEF l, j
<1>5. CASE l + 1 <= n /\ Less(c, l + 1, l)
  BY <1>1, <1>2, <1>3, <1>4, <1>5 DEF j
<1>6. CASE ~ (l + 1 <= n /\ Less(c, l + 1, l))
  <2>1. j = l
    BY <1>4, <1>6
  <2>2. ASSUME NEW k \in 2 .. n, k \div 2 = i, k # l PROVE Lower(c, c.heap[l], c.heap[k])
    BY <1>1, <1>2, <1>3, <1>6, <2>2
  <2> QED
    BY <1>1, <2>1, <2>2 DEF j
<1> QED
  BY <1>5, <1>6

\* A round of Down leaves a heap that is ready for the next,
LEMMA DownMoves ==
  ASSUME NEW c, NEW n, NEW i, DownReady(c, i, n), 2 * i <= n,
         NEW j, j = Child(c, i, n), Less(c, j, i)
  PROVE  /\ DownReady(Swap(c, i, j), j, n) /\ InOrder(Swap(c, i, j), j)
         /\ Permuted(c, Swap(c, i, j), n)
         /\ i < j
<1> DEFINE d == Swap(c, i, j)
           h == c.heap
<1>0. /\ HeapState(c) /\ Len(h) \in Nat /\ n \in Nat /\ n <= Len(h) /\ i \in 1 .. n /\ i \in Nat
      /\ j \in 2 .. n /\ j \in Nat /\ j \div 2 = i /\ i < j /\ i \in 1 .. Len(h) /\ j \in 1 .. Len(h)
  <2>1. HeapState(c) /\ Len(h) \in Nat /\ n \in Nat /\ n <= Len(h) /\ i \in Nat /\ i >= 1
    BY HeapType DEF DownReady
  <2>2. j \in 2 .. n /\ j \div 2 = i
    BY LowestChild
  <2>3. j = 2 * i \/ j = 2 * i + 1
    BY <2>1, <2>2, Halves
  <2> QED
    BY <2>1, <2>2, <2>3
<1> HIDE DEF d, h
<1>1. /\ HeapState(d) /\ Permuted(c, d, n)
      /\ \A p \in 1 .. Len(h) : d.heap[p] = IF p = i THEN h[j] ELSE IF p = j THEN h[i] ELSE h[p]
  BY <1>0, Swaps DEF d, h
<1>2. /\ \A p \in 1 .. n : h[p] \in Keys /\ Has(c, h[p])
      /\ c \in Caches /\ Distinct(c) /\ Alike(c, d)
  BY <1>0, <1>1, HeapType DEF h, HeapState, Permuted
<1>3. \A p, q \in 1 .. n : Lower(d, h[p], h[q]) <=> Lower(c, h[p], h[q])
  BY <1>2, LowerAlike
<1>5. \A p \in 1 .. n : d.heap[p] = IF p = i THEN h[j] ELSE IF p = j THEN h[i] ELSE h[p]
  BY <1>0, <1>1
<1>6. Lower(c, h[j], h[i])
  BY LessIsLower DEF h
<1>7. \A k \in 2 .. n : k # i /\ k \div 2 # i => Lower(c, h[k \div 2], h[k])
  BY DEF DownReady, InOrder, h
<1>8. \A k \in 2 .. n : k \div 2 = i /\ i >= 2 => Lower(c, h[i \div 2], h[k])
  BY DEF DownReady, h
<1>9. \A k \in 2 .. n : k \div 2 \in 1 .. n /\ k \div 2 # k /\ k \in 1 .. n
  BY Halves, <1>0
<1>10. \A k \in 2 .. n : k \div 2 = i /\ k # j => Lower(c, h[j], h[k])
  BY <1>0, LowestChild DEF h
<1>11. InOrder(d, j)
  BY <1>0, <1>3, <1>5, <1>6 DEF InOrder
<1>12. ASSUME NEW k \in 2 .. n, k # j, k \div 2 # j PROVE InOrder(d, k)
  <2>1. CASE k = i
    <3>1. d.heap[i] = h[j] /\ d.heap[i \div 2] = h[i \div 2] /\ Lower(c, h[i \div 2], h[j])
      BY <1>0, <1>5, <1>8, <1>9, <1>12, <2>1
    <3> QED
      BY <1>0, <1>3, <1>9, <2>1, <3>1 DEF InOrder
  <2>2. CASE k # i /\ k \div 2 = i
    <3>1. d.heap[i] = h[j] /\ d.heap[k] = h[k] /\ Lower(c, h[j], h[k])
      BY <1>0, <1>5, <1>9, <1>10, <1>12, <2>2
    <3> QED
      BY <1>0, <1>3, <1>9, <2>2, <3>1 DEF InOrder
  <2>3. CASE k # i /\ k \div 2 # i
    <3>1. d.heap[k] = h[k] /\ d.heap[k \div 2] = h[k \div 2]
      BY <1>5, <1>9, <1>12, <2>3
    <3> QED
      BY <1>3, <1>7, <1>9, <2>3, <3>1 DEF InOrder
  <2> QED
    BY <2>1, <2>2, <2>3
<1>13. ASSUME NEW k \in 2 .. n, k \div 2 = j PROVE Lower(d, d.heap[j \div 2], d.heap[k])
  <2>1. k # i /\ k # j /\ k \div 2 # i
    BY <1>0, <1>9, <1>13, Halves
  <2>2. d.heap[k] = h[k] /\ d.heap[i] = h[j] /\ Lower(c, h[j], h[k])
    BY <1>0, <1>5, <1>7, <1>9, <1>13, <2>1
  <2> QED
    BY <1>0, <1>3, <1>9, <2>2
<1>14. n \in 0 .. Len(d.heap)
  BY <1>0, <1>1 DEF Permuted, h
<1>15. DownReady(d, j, n)
  BY <1>0, <1>1, <1>12, <1>13, <1>14 DEF DownReady
<1> QED
  BY <1>0, <1>1, <1>11, <1>15 DEF d

\* and when there is none, a heap, or one that is ready for Up.
LEMMA DownEnds ==
  ASSUME NEW c, NEW n, NEW i, DownReady(c, i, n), DownOver([cache |-> c, at |-> i], n)
  PROVE  /\ i = 1 \/ InOrder(c, i) => Ordered(c, n)
         /\ i <= n => UpReady(c, i, n)
<1>1. /\ i \in Nat /\ i >= 1 /\ n \in Nat /\ n <= Len(c.heap) /\ Len(c.heap) \in Nat
      /\ HeapState(c) /\ c \in Caches /\ Distinct(c)
  BY HeapType DEF DownReady, HeapState
<1>2. ASSUME NEW k \in 2 .. n, k \div 2 = i PROVE InOrder(c, k)
  <2> DEFINE j == Child(c, i, n)
  <2>1. 2 * i <= n
    BY <1>1, <1>2, Halves
  <2>2. /\ j \in 2 .. n /\ j \div 2 = i /\ ~ Lower(c, c.heap[j], c.heap[i])
        /\ k # j => Lower(c, c.heap[j], c.heap[k])
    <3>1. ~ Less(c, j, i)
      BY <1>1, <2>1 DEF DownOver
    <3> QED
      BY <1>2, <2>1, <3>1, LowestChild, LessIsLower
  <2>3. /\ i \in 1 .. Len(c.heap) /\ j \in 1 .. Len(c.heap) /\ k \in 1 .. Len(c.heap) /\ i # j
    BY <1>1, <2>1, <2>2, Halves
  <2>4. c.heap[i] # c.heap[j]
    BY <1>1, <2>3, HeapInjective
  <2>5. \A p \in {i, j, k} : c.heap[p] \in Keys /\ Has(c, c.heap[p])
    BY <1>1, <2>3, HeapType
  <2>6. Lower(c, c.heap[i], c.heap[j])
    BY <1>1, <2>2, <2>4, <2>5, LowerOrder
  <2>7. Lower(c, c.heap[i], c.heap[k])
    BY <1>1, <2>2, <2>5, <2>6, LowerOrder
  <2> QED
    BY <1>2, <2>7 DEF InOrder
<1>3. \A k \in 2 .. n : k # i => InOrder(c, k)
  BY <1>2 DEF DownReady
<1>4. i = 1 \/ InOrder(c, i) => Ordered(c, n)
  BY <1>1, <1>3 DEF Ordered
<1>5. i <= n => UpReady(c, i, n)
  BY <1>1, <1>3 DEF DownReady, UpReady
<1> QED
  BY <1>4, <1>5

\* The rounds of Down.
LEMMA DownRuns ==
  ASSUME NEW c, NEW j, NEW n, NEW N \in Nat, N = Len(c.heap)
  PROVE  \E r : /\ r[0] = [cache |-> c, at |-> j] /\ Down(c, j, n) = r[N]
                /\ \A i \in 0 .. N - 1 : r[i + 1] = DownStep(r[i], n)
<1> DEFINE s == [cache |-> c, at |-> j]
           Runs(r, m) == r = [i \in 0 .. m |-> IF i = 0 THEN s ELSE DownStep(r[i - 1], n)]
           T == {m \in Nat : \E r : Runs(r, m)}
<1>1. 0 \in T
  <2>1. Runs([i \in 0 .. 0 |-> s], 0)
    OBVIOUS
  <2> QED
    BY <2>1
<1>2. ASSUME NEW m \in Nat, m \in T PROVE m + 1 \in T
  <2>1. PICK r : Runs(r, m)
    BY <1>2
  <2> DEFINE q == [i \in 0 .. m + 1 |-> IF i <= m THEN r[i] ELSE DownStep(r[m], n)]
  <2>2. Runs(q, m + 1)
    BY <2>1
  <2>3. \E x : Runs(x, m + 1)
    BY <2>2
  <2> QED
    BY <2>3
<1>3. N \in T
  BY <1>1, <1>2, Induction
<1> DEFINE r == CHOOSE r : Runs(r, N)
<1>4. Runs(r, N)
  BY <1>3
<1>5. Down(c, j, n) = r[N]
  BY DEF Down, Repeat
<1> HIDE DEF r
<1>6. r[0] = s /\ \A i \in 0 .. N - 1 : r[i + 1] = DownStep(r[i], n)
  BY <1>4
<1> QED
  BY <1>5, <1>6

\* Down makes a heap of one that is ready for it, or leaves it as it is if the
\* element at i is too high.
LEMMA DownHeaps ==
  ASSUME NEW c, NEW j, NEW n, DownReady(c, j, n)
  PROVE  LET d == Down(c, j, n) IN
           /\ HeapState(d.cache) /\ Permuted(c, d.cache, n)
           /\ d.at > j \/ j = 1 => Ordered(d.cache, n)
           /\ ~ (d.at > j) /\ j <= n => UpReady(c, j, n)
<1> DEFINE N == Len(c.heap)
           s == [cache |-> c, at |-> j]
<1>1. N \in Nat /\ j \in Nat /\ j >= 1 /\ n \in Nat /\ n <= N
  BY HeapType DEF DownReady
<1>a. N = Len(c.heap)
  OBVIOUS
<1> HIDE DEF N
<1>2. PICK r : /\ r[0] = s /\ Down(c, j, n) = r[N]
               /\ \A i \in 0 .. N - 1 : r[i + 1] = DownStep(r[i], n)
  <2>1. N \in Nat
    BY <1>1
  <2>2. \E r : /\ r[0] = [cache |-> c, at |-> j] /\ Down(c, j, n) = r[N]
               /\ \A i \in 0 .. N - 1 : r[i + 1] = DownStep(r[i], n)
    BY <2>1, <1>a, DownRuns
  <2> QED
    BY <2>2
<1> DEFINE OK(i) == /\ DownReady(r[i].cache, r[i].at, n) /\ Permuted(c, r[i].cache, n)
                    /\ r[i] = [cache |-> r[i].cache, at |-> r[i].at]
                    /\ \/ r[i].at = j /\ r[i].cache = c
                       \/ r[i].at > j /\ InOrder(r[i].cache, r[i].at)
                    /\ DownOver(r[i], n) \/ r[i].at >= j + i
           T == {i \in Nat : i <= N => OK(i)}
<1> HIDE DEF OK
<1>3. 0 \in T
  <2>1. OK(0)
    <3>1. r[0].cache = c /\ r[0].at = j /\ r[0] = [cache |-> r[0].cache, at |-> r[0].at]
      BY <1>2
    <3>2. r[0].at >= j + 0
      BY <1>1, <3>1
    <3> QED
      BY <3>1, <3>2, PermutedSelf DEF OK
  <2> QED
    BY <2>1
<1>4. ASSUME NEW i \in Nat, i \in T PROVE i + 1 \in T
  <2> SUFFICES ASSUME i + 1 <= N PROVE OK(i + 1)
    OBVIOUS
  <2> DEFINE d == r[i].cache
             k == r[i].at
             l == Child(d, k, n)
  <2>1. r[i + 1] = DownStep(r[i], n) /\ OK(i)
    BY <1>1, <1>2, <1>4
  <2>2. DownReady(d, k, n) /\ Permuted(c, d, n)
    BY <2>1 DEF OK
  <2>3. CASE DownOver(r[i], n)
    <3>1. r[i + 1] = r[i]
      BY <2>1, <2>3 DEF DownOver, DownStep
    <3> QED
      BY <2>1, <2>3, <3>1 DEF OK
  <2>4. CASE ~ DownOver(r[i], n)
    <3>1. ~ (2 * k > n) /\ Less(d, l, k)
      BY <2>4 DEF DownOver
    <3>2. r[i + 1] = [cache |-> Swap(d, k, l), at |-> l]
      BY <2>1, <3>1 DEF DownStep
    <3>3. k \in Nat /\ 2 * k <= n /\ k >= j /\ k >= j + i
      BY <1>1, <2>1, <2>2, <2>4, <3>1 DEF OK, DownReady
    <3>4. /\ DownReady(Swap(d, k, l), l, n) /\ InOrder(Swap(d, k, l), l)
          /\ Permuted(d, Swap(d, k, l), n) /\ k < l
      BY <2>2, <3>1, <3>3, DownMoves
    <3>5. l \in Nat
      BY <3>4 DEF DownReady
    <3>6. l > j /\ l >= j + (i + 1)
      BY <1>1, <3>3, <3>4, <3>5
    <3>7. Permuted(c, Swap(d, k, l), n)
      BY <2>2, <3>4, PermutedTrans
    <3> HIDE DEF l, k, d
    <3> QED
      BY <3>2, <3>4, <3>6, <3>7 DEF OK
  <2> QED
    BY <2>3, <2>4
<1>5. OK(N)
  <2>1. N \in T
    BY <1>1, <1>3, <1>4, Induction
  <2> QED
    BY <1>1, <2>1
<1> DEFINE d == r[N].cache
           k == r[N].at
<1>6. DownReady(d, k, n) /\ Permuted(c, d, n) /\ k \in Nat
  BY <1>5 DEF OK, DownReady
<1>7. DownOver([cache |-> d, at |-> k], n)
  <2>1. CASE DownOver(r[N], n)
    BY <1>5, <2>1 DEF OK
  <2>2. CASE ~ DownOver(r[N], n)
    <3>1. k >= j + N
      BY <1>5, <2>2 DEF OK
    <3>2. 2 * k > n
      BY <1>1, <1>6, <3>1
    <3> QED
      BY <3>2 DEF DownOver
  <2> QED
    BY <2>1, <2>2
<1>8. k = 1 \/ InOrder(d, k) => Ordered(d, n)
  BY <1>6, <1>7, DownEnds
<1>9. k <= n => UpReady(d, k, n)
  BY <1>6, <1>7, DownEnds
<1>10. (k = j /\ d = c) \/ (k > j /\ InOrder(d, k))
  BY <1>5 DEF OK
<1>11. k > j \/ j = 1 => Ordered(d, n)
  BY <1>1, <1>6, <1>8, <1>10
<1>12. ~ (k > j) /\ j <= n => UpReady(c, j, n)
  BY <1>1, <1>6, <1>9, <1>10
<1> HIDE DEF d, k
<1>13. Down(c, j, n).cache = d /\ Down(c, j, n).at = k
  BY <1>2 DEF d, k
<1> QED
  BY <1>6, <1>11, <1>12, <1>13 DEF DownReady

\* Fix makes a heap of one with an element that is too low or too high.
LEMMA SiftHeaps ==
  ASSUME NEW c, NEW i, NEW n, DownReady(c, i, n), i <= n
  PROVE  HeapState(Sift(c, i, n)) /\ Permuted(c, Sift(c, i, n), n) /\ Ordered(Sift(c, i, n), n)
<1> DEFINE d == Down(c, i, n)
<1>1. /\ HeapState(d.cache) /\ Permuted(c, d.cache, n)
      /\ d.at > i => Ordered(d.cache, n)
      /\ ~ (d.at > i) => UpReady(c, i, n)
  BY DownHeaps
<1>2. Sift(c, i, n) = IF d.at > i THEN d.cache ELSE Up(c, i)
  BY DEF Sift
<1> HIDE DEF d
<1>3. CASE d.at > i
  BY <1>1, <1>2, <1>3
<1>4. CASE ~ (d.at > i)
  BY <1>1, <1>2, <1>4, UpHeaps
<1> QED
  BY <1>3, <1>4

-----------------------------------------------------------------------------
(* Push, Pop and Remove. *)

\* The first element of a heap is the lowest.
LEMMA FirstIsLowest ==
  ASSUME NEW c, HeapState(c), Ordered(c, Len(c.heap))
  PROVE  \A p \in 2 .. Len(c.heap) : Lower(c, c.heap[1], c.heap[p])
<1> DEFINE T == {p \in 2 .. Len(c.heap) : ~ Lower(c, c.heap[1], c.heap[p])}
<1> SUFFICES ASSUME T # {} PROVE FALSE
  OBVIOUS
<1>1. Len(c.heap) \in Nat /\ c \in Caches /\ Distinct(c)
  BY HeapType DEF HeapState
<1>2. PICK m \in T : \A p \in T : m <= p
  <2>1. T \in SUBSET Nat
    BY <1>1
  <2> HIDE DEF T
  <2> QED
    BY <2>1, LeastNat
<1> DEFINE i == m \div 2
<1>3. /\ m \in 2 .. Len(c.heap) /\ ~ Lower(c, c.heap[1], c.heap[m])
      /\ i \in Nat /\ i >= 1 /\ i < m
  BY <1>1, <1>2, Halves
<1>4. Lower(c, c.heap[i], c.heap[m])
  BY <1>3 DEF Ordered, InOrder
<1>5. i # 1 => Lower(c, c.heap[1], c.heap[i])
  BY <1>1, <1>2, <1>3
<1> HIDE DEF i, T
<1>6. \A p \in {1, i, m} : c.heap[p] \in Keys /\ Has(c, c.heap[p])
  <2>1. 1 \in 1 .. Len(c.heap) /\ i \in 1 .. Len(c.heap) /\ m \in 1 .. Len(c.heap)
    BY <1>1, <1>3
  <2> QED
    BY <2>1, HeapType
<1>7. CASE i = 1
  BY <1>3, <1>4, <1>7
<1>8. CASE i # 1
  BY <1>1, <1>3, <1>4, <1>5, <1>6, <1>8, LowerOrder
<1> QED
  BY <1>7, <1>8

\* With its last element at i, and the element there last, a heap is ready for
\* Fix at i.
LEMMA SwapLast ==
  ASSUME NEW c, HeapState(c), NEW n, n = Len(c.heap), Ordered(c, n), NEW i \in 1 .. n
  PROVE  /\ DownReady(Swap(c, i, n), i, n - 1)
         /\ Permuted(c, Swap(c, i, n), n)
         /\ Swap(c, i, n).heap[n] = c.heap[i]
<1> DEFINE d == Swap(c, i, n)
           h == c.heap
<1>1. n \in Nat /\ n = Len(h) /\ i \in Nat /\ i >= 1 /\ i <= n /\ n \in 1 .. n /\ i \in 1 .. n
  BY HeapType
<1> HIDE DEF d, h
<1>2. /\ HeapState(d) /\ Permuted(c, d, n)
      /\ \A p \in 1 .. n : d.heap[p] = IF p = i THEN h[n] ELSE IF p = n THEN h[i] ELSE h[p]
  BY <1>1, Swaps DEF d, h
<1>3. /\ \A p \in 1 .. n : h[p] \in Keys /\ Has(c, h[p])
      /\ c \in Caches /\ Distinct(c) /\ Alike(c, d)
  BY <1>1, <1>2, HeapType DEF h, HeapState, Permuted
<1>4. \A p, q \in 1 .. n : Lower(d, h[p], h[q]) <=> Lower(c, h[p], h[q])
  BY <1>3, LowerAlike
<1>5. \A k \in 2 .. n : Lower(c, h[k \div 2], h[k])
  BY DEF Ordered, InOrder, h
<1>6. \A k \in 2 .. n : k \div 2 \in 1 .. n /\ k \div 2 < k /\ k \in 1 .. n
  BY Halves, <1>1
<1>7. ASSUME NEW k \in 2 .. n - 1, k # i, k \div 2 # i PROVE InOrder(d, k)
  <2>1. k \in 2 .. n /\ k \in 1 .. n /\ k \div 2 \in 1 .. n /\ k # n /\ k \div 2 # n
    BY <1>1, <1>6, <1>7
  <2>2. d.heap[k] = h[k] /\ d.heap[k \div 2] = h[k \div 2]
    BY <1>2, <1>7, <2>1
  <2> QED
    BY <1>4, <1>5, <2>1, <2>2 DEF InOrder
<1>8. ASSUME NEW k \in 2 .. n - 1, k \div 2 = i, i >= 2 PROVE Lower(d, d.heap[i \div 2], d.heap[k])
  <2>1. k \in 2 .. n /\ k \in 1 .. n /\ k # n /\ k # i /\ i \in 2 .. n /\ i # n
    BY <1>1, <1>6, <1>8
  <2>2. i \div 2 \in 1 .. n /\ i \div 2 # i /\ i \div 2 # n
    BY <1>1, <1>6, <2>1
  <2>3. d.heap[k] = h[k] /\ d.heap[i \div 2] = h[i \div 2]
    BY <1>2, <2>1, <2>2
  <2>4. Lower(c, h[i \div 2], h[i]) /\ Lower(c, h[i], h[k])
    BY <1>5, <1>8, <2>1
  <2>5. Lower(c, h[i \div 2], h[k])
    BY <1>1, <1>3, <2>1, <2>2, <2>4, LowerOrder
  <2> QED
    BY <1>4, <2>1, <2>2, <2>3, <2>5
<1>9. n - 1 \in 0 .. Len(d.heap)
  BY <1>1, <1>2 DEF Permuted, h
<1>10. DownReady(d, i, n - 1)
  BY <1>1, <1>2, <1>7, <1>8, <1>9 DEF DownReady
<1>11. d.heap[n] = h[i]
  BY <1>1, <1>2
<1> QED
  BY <1>2, <1>10, <1>11 DEF d, h

\* k has left the heap, and nothing else has changed but the order of it.
Detached(c, d, k) ==
  /\ HeapState(d) /\ Alike(c, d) /\ Len(d.heap) = Len(c.heap) - 1
  /\ d.items[k].heapIdx = 0
  /\ \A x \in Keys : Has(c, x) /\ x # k => (d.items[x].heapIdx = 0 <=> c.items[x].heapIdx = 0)
  /\ Ordered(d, Len(d.heap))

\* PopLast takes the last element out of the heap and keeps the rest of it.
LEMMA Pops ==
  ASSUME NEW c, HeapState(c), Len(c.heap) > 0, Ordered(c, Len(c.heap) - 1)
  PROVE  Detached(c, PopLast(c), c.heap[Len(c.heap)])
<1> DEFINE n == Len(c.heap)
           k == c.heap[n]
           h == SubSeq(c.heap, 1, n - 1)
           d == PopLast(c)
           its == [c.items EXCEPT ![k].heapIdx = 0]
<1>1. /\ n \in Nat /\ n \in 1 .. n /\ k \in Keys /\ Has(c, k)
      /\ c \in Caches /\ c.heap \in Seq(Keys) /\ c.items \in [Keys -> Entries \cup {None}]
  BY HeapType DEF HeapState, Caches
<1>2. h \in Seq(Keys) /\ Len(h) = n - 1 /\ \A p \in 1 .. n - 1 : h[p] = c.heap[p]
  BY <1>1
<1>3. /\ d.heap = h /\ d.items = its /\ d.total = c.total /\ d.order = c.order /\ d.seq = c.seq
      /\ d = [c EXCEPT !.heap = h, !.items = its]
  BY <1>1 DEF PopLast, Front, Last, Caches
<1>4. /\ \A x \in Keys : Has(c, x) => c.items[x] \in Entries
      /\ \A p \in 1 .. n : c.heap[p] \in Keys /\ Has(c, c.heap[p]) /\ c.items[c.heap[p]].heapIdx = p
      /\ \A x \in Keys : Has(c, x) /\ c.items[x].heapIdx # 0 =>
           c.items[x].heapIdx \in 1 .. n /\ c.heap[c.items[x].heapIdx] = x
  BY <1>1, EntryType, HeapType DEF HeapState, Indexed
<1>5. \A x \in Keys : its[x] = IF x = k THEN [c.items[x] EXCEPT !.heapIdx = 0] ELSE c.items[x]
  BY <1>1
<1> HIDE DEF h, its, d, k, n
<1>6. ASSUME NEW x \in Keys, Has(c, x)
      PROVE  /\ its[x] \in Entries
             /\ its[x].size = c.items[x].size /\ its[x].left = c.items[x].left
             /\ its[x].freq = c.items[x].freq /\ its[x].seq = c.items[x].seq
             /\ its[x].heapIdx = IF x = k THEN 0 ELSE c.items[x].heapIdx
  <2>1. CASE x = k
    <3>1. c.items[x] \in Entries /\ its[x] = [c.items[x] EXCEPT !.heapIdx = 0]
      BY <1>4, <1>5, <1>6, <2>1
    <3> QED
      BY <2>1, <3>1 DEF Entries
  <2>2. CASE x # k
    BY <1>4, <1>5, <1>6, <2>2
  <2> QED
    BY <2>1, <2>2
<1>7. \A x \in Keys : ~ Has(c, x) => its[x] = None
  BY <1>1, <1>5 DEF Has
<1>8. its \in [Keys -> Entries \cup {None}]
  <2>1. its = [x \in Keys |-> its[x]]
    BY <1>1 DEF its
  <2>2. \A x \in Keys : its[x] \in Entries \cup {None}
    BY <1>6, <1>7
  <2> QED
    BY <2>1, <2>2
<1>9. d \in Caches
  BY <1>1, <1>2, <1>3, <1>8 DEF Caches
<1>10. \A x \in Keys : Has(d, x) <=> Has(c, x)
  BY <1>3, <1>6, <1>7, EntryIsSome DEF Has
<1>11. Alike(c, d)
  BY <1>3, <1>6, <1>10 DEF Alike
<1>12. Distinct(d)
  BY <1>11 DEF HeapState, Distinct, Alike
<1>13. Indexed(d)
  <2>1. ASSUME NEW p \in 1 .. n - 1 PROVE Has(d, h[p]) /\ its[h[p]].heapIdx = p
    <3>1. p \in 1 .. n /\ n \in 1 .. n /\ p # n
      BY <1>1
    <3>2. h[p] = c.heap[p] /\ h[p] \in Keys /\ Has(c, h[p]) /\ h[p] # k
      BY <1>2, <1>4, <3>1 DEF k
    <3> QED
      BY <1>4, <1>6, <1>10, <3>1, <3>2
  <2>2. ASSUME NEW x \in Keys, Has(d, x), its[x].heapIdx # 0
        PROVE  its[x].heapIdx \in 1 .. n - 1 /\ h[its[x].heapIdx] = x
    <3>1. Has(c, x) /\ x # k /\ its[x].heapIdx = c.items[x].heapIdx
      BY <1>6, <1>10, <2>2
    <3>2. its[x].heapIdx \in 1 .. n /\ c.heap[its[x].heapIdx] = x
      BY <1>4, <2>2, <3>1
    <3>3. its[x].heapIdx # n
      BY <3>1, <3>2 DEF k
    <3>4. its[x].heapIdx \in 1 .. n - 1
      BY <1>1, <3>2, <3>3
    <3> QED
      BY <1>2, <3>2, <3>4
  <2> QED
    BY <1>2, <1>3, <2>1, <2>2 DEF Indexed
<1>14. Ordered(d, Len(d.heap))
  <2>1. \A p, q \in 1 .. n - 1 : Lower(d, h[p], h[q]) <=> Lower(c, h[p], h[q])
    <3>1. \A p \in 1 .. n - 1 : h[p] \in Keys /\ Has(c, h[p])
      BY <1>1, <1>2, <1>4
    <3> QED
      BY <1>11, <3>1, LowerAlike
  <2>2. ASSUME NEW i \in 2 .. n - 1 PROVE InOrder(d, i)
    <3>1. i \in 1 .. n - 1 /\ i \div 2 \in 1 .. n - 1
      BY <1>1, Halves
    <3>2. Lower(c, c.heap[i \div 2], c.heap[i])
      BY DEF Ordered, InOrder, n
    <3> QED
      BY <1>2, <1>3, <2>1, <3>1, <3>2 DEF InOrder
  <2> QED
    BY <1>2, <1>3, <2>2 DEF Ordered
<1>15. /\ d.items[k].heapIdx = 0
       /\ \A x \in Keys : Has(c, x) /\ x # k => (d.items[x].heapIdx = 0 <=> c.items[x].heapIdx = 0)
  BY <1>1, <1>3, <1>6 DEF k
<1>16. HeapState(d) /\ Len(d.heap) = Len(c.heap) - 1
  BY <1>2, <1>3, <1>9, <1>12, <1>13 DEF HeapState, n
<1> QED
  BY <1>11, <1>14, <1>15, <1>16 DEF Detached, d, k, n

\* The same after the heap was put in another order.
LEMMA PopsPermuted ==
  ASSUME NEW c, NEW x, NEW n, n = Len(c.heap), n \in Nat, n > 0,
         HeapState(x), Permuted(c, x, n), Ordered(x, n - 1)
  PROVE  Detached(c, PopLast(x), x.heap[n])
<1> DEFINE d == PopLast(x)
           k == x.heap[n]
<1>1. Len(x.heap) = n /\ Alike(c, x)
  BY DEF Permuted
<1>2. Detached(x, d, k)
  BY <1>1, Pops
<1> HIDE DEF d, k
<1>3. Alike(c, d)
  BY <1>1, <1>2 DEF Detached, Alike
<1>4. \A y \in Keys : Has(c, y) /\ y # k => (d.items[y].heapIdx = 0 <=> c.items[y].heapIdx = 0)
  BY <1>1, <1>2 DEF Detached, Permuted, Alike
<1> QED
  BY <1>1, <1>2, <1>3, <1>4 DEF Detached, d, k

\* HeapPop takes out the first element,
LEMMA HeapPops ==
  ASSUME NEW c, HeapState(c), Len(c.heap) > 0, Ordered(c, Len(c.heap))
  PROVE  Detached(c, HeapPop(c), c.heap[1])
<1> DEFINE n == Len(c.heap)
           s == Swap(c, 1, n)
           x == Down(s, 1, n - 1).cache
<1>1. n \in Nat /\ n > 0 /\ 1 \in 1 .. n /\ n \in 1 .. n /\ n > n - 1
  BY HeapType
<1>2. DownReady(s, 1, n - 1) /\ Permuted(c, s, n) /\ s.heap[n] = c.heap[1]
  BY <1>1, SwapLast
<1>3. HeapState(x) /\ Permuted(s, x, n - 1) /\ Ordered(x, n - 1)
  BY <1>2, DownHeaps
<1>4. HeapPop(c) = PopLast(x)
  BY DEF HeapPop
<1> HIDE DEF n, s, x
<1>5. Len(s.heap) = n
  BY <1>2 DEF Permuted, n
<1>6. x.heap[n] = c.heap[1]
  BY <1>1, <1>2, <1>3, <1>5 DEF Permuted
<1>7. Permuted(s, x, n)
  BY <1>1, <1>3, <1>5 DEF Permuted
<1>8. Permuted(c, x, n)
  BY <1>2, <1>7, PermutedTrans
<1> QED
  BY <1>1, <1>3, <1>4, <1>6, <1>8, PopsPermuted DEF n

\* and HeapRemove the one at i.
LEMMA HeapRemoves ==
  ASSUME NEW c, HeapState(c), Ordered(c, Len(c.heap)), NEW i \in 1 .. Len(c.heap)
  PROVE  Detached(c, HeapRemove(c, i), c.heap[i])
<1> DEFINE n == Len(c.heap)
           s == Swap(c, i, n)
           x == Sift(s, i, n - 1)
<1>1. n \in Nat /\ n > 0 /\ i \in 1 .. n /\ n > n - 1 /\ i \in Nat
  BY HeapType
<1>2. HeapRemove(c, i) = PopLast(IF i = n THEN c ELSE x)
  BY DEF HeapRemove
<1>3. CASE i = n
  <2>1. Ordered(c, n - 1)
    BY <1>1 DEF Ordered
  <2> QED
    BY <1>1, <1>2, <1>3, <2>1, Pops
<1>4. CASE i # n
  <2>1. DownReady(s, i, n - 1) /\ Permuted(c, s, n) /\ s.heap[n] = c.heap[i]
    BY <1>1, SwapLast
  <2>2. i <= n - 1
    BY <1>1, <1>4
  <2>3. HeapState(x) /\ Permuted(s, x, n - 1) /\ Ordered(x, n - 1)
    BY <2>1, <2>2, SiftHeaps
  <2> HIDE DEF n, s, x
  <2>4. Len(s.heap) = n
    BY <2>1 DEF Permuted, n
  <2>5. x.heap[n] = c.heap[i]
    BY <1>1, <2>1, <2>3, <2>4 DEF Permuted
  <2>6. Permuted(s, x, n)
    BY <1>1, <2>3, <2>4 DEF Permuted
  <2>7. Permuted(c, x, n)
    BY <2>1, <2>6, PermutedTrans
  <2> QED
    BY <1>1, <1>2, <1>4, <2>3, <2>5, <2>7, PopsPermuted DEF n
<1> QED
  BY <1>3, <1>4

\* k has come into the heap.
LEMMA HeapPushes ==
  ASSUME NEW c, HeapState(c), Ordered(c, Len(c.heap)),
         NEW k \in Keys, Has(c, k), c.items[k].heapIdx = 0
  PROVE  LET d == HeapPush(c, k) IN
           /\ HeapState(d) /\ Alike(c, d) /\ Len(d.heap) = Len(c.heap) + 1
           /\ d.items[k].heapIdx # 0
           /\ \A x \in Keys : Has(c, x) /\ x # k => (d.items[x].heapIdx = 0 <=> c.items[x].heapIdx = 0)
           /\ Ordered(d, Len(d.heap))
<1> DEFINE n == Len(c.heap) + 1
           h == Append(c.heap, k)
           its == [c.items EXCEPT ![k].heapIdx = n]
           e == [c EXCEPT !.heap = h, !.items = its]
           d == HeapPush(c, k)
<1>1. /\ Len(c.heap) \in Nat /\ n \in Nat /\ n = Len(c.heap) + 1
      /\ c \in Caches /\ c.heap \in Seq(Keys) /\ c.items \in [Keys -> Entries \cup {None}]
  BY HeapType DEF HeapState, Caches
<1>2. /\ h \in Seq(Keys) /\ Len(h) = n /\ h[n] = k
      /\ \A p \in 1 .. n : p # n => h[p] = c.heap[p] /\ p \in 1 .. Len(c.heap)
  BY <1>1
<1>3. /\ e.heap = h /\ e.items = its /\ e.total = c.total /\ e.order = c.order /\ e.seq = c.seq
  BY <1>1 DEF Caches
<1>4. /\ \A x \in Keys : Has(c, x) => c.items[x] \in Entries
      /\ \A p \in 1 .. Len(c.heap) :
           c.heap[p] \in Keys /\ Has(c, c.heap[p]) /\ c.items[c.heap[p]].heapIdx = p
      /\ \A x \in Keys : Has(c, x) /\ c.items[x].heapIdx # 0 =>
           c.items[x].heapIdx \in 1 .. Len(c.heap) /\ c.heap[c.items[x].heapIdx] = x
  BY <1>1, EntryType, HeapType DEF HeapState, Indexed
<1>5. \A x \in Keys : its[x] = IF x = k THEN [c.items[x] EXCEPT !.heapIdx = n] ELSE c.items[x]
  BY <1>1
<1>6. d = Up(e, n)
  BY <1>1, <1>3 DEF HeapPush
<1>7. e \in [items : [Keys -> Entries \cup {None}], total : Int, order : Seq(Keys),
             heap : Seq(Keys), seq : 0 .. MaxSeq] <=> its \in [Keys -> Entries \cup {None}]
  BY <1>1, <1>2, <1>3 DEF Caches
<1> HIDE DEF h, its, e, d, n
<1>8. ASSUME NEW x \in Keys, Has(c, x)
      PROVE  /\ its[x] \in Entries
             /\ its[x].size = c.items[x].size /\ its[x].left = c.items[x].left
             /\ its[x].freq = c.items[x].freq /\ its[x].seq = c.items[x].seq
             /\ its[x].heapIdx = IF x = k THEN n ELSE c.items[x].heapIdx
  <2>1. CASE x = k
    <3>1. c.items[x] \in Entries /\ its[x] = [c.items[x] EXCEPT !.heapIdx = n]
      BY <1>4, <1>5, <1>8, <2>1
    <3> QED
      BY <1>1, <2>1, <3>1 DEF Entries
  <2>2. CASE x # k
    BY <1>4, <1>5, <1>8, <2>2
  <2> QED
    BY <2>1, <2>2
<1>9. \A x \in Keys : ~ Has(c, x) => its[x] = None
  BY <1>1, <1>5 DEF Has
<1>10. its \in [Keys -> Entries \cup {None}]
  <2>1. its = [x \in Keys |-> its[x]]
    BY <1>1 DEF its
  <2>2. \A x \in Keys : its[x] \in Entries \cup {None}
    BY <1>8, <1>9
  <2> QED
    BY <2>1, <2>2
<1>11. e \in Caches
  BY <1>7, <1>10 DEF Caches
<1>12. \A x \in Keys : Has(e, x) <=> Has(c, x)
  BY <1>3, <1>8, <1>9, EntryIsSome DEF Has
<1>13. Alike(c, e)
  BY <1>3, <1>8, <1>12 DEF Alike
<1>14. Distinct(e)
  BY <1>13 DEF HeapState, Distinct, Alike
<1>15. Indexed(e)
  <2>1. ASSUME NEW p \in 1 .. n PROVE Has(e, h[p]) /\ its[h[p]].heapIdx = p
    <3>1. CASE p = n
      BY <1>2, <1>8, <1>12, <3>1
    <3>2. CASE p # n
      <4>1. h[p] = c.heap[p] /\ p \in 1 .. Len(c.heap) /\ p # 0
        BY <1>1, <1>2, <3>2
      <4>2. h[p] # k /\ h[p] \in Keys /\ Has(c, h[p])
        BY <1>4, <4>1
      <4> QED
        BY <1>4, <1>8, <1>12, <4>1, <4>2
    <3> QED
      BY <3>1, <3>2
  <2>2. ASSUME NEW x \in Keys, Has(e, x), its[x].heapIdx # 0
        PROVE  its[x].heapIdx \in 1 .. n /\ h[its[x].heapIdx] = x
    <3>1. Has(c, x)
      BY <1>12, <2>2
    <3>2. CASE x = k
      BY <1>1, <1>2, <1>8, <3>1, <3>2
    <3>3. CASE x # k
      <4>1. its[x].heapIdx \in 1 .. Len(c.heap) /\ c.heap[its[x].heapIdx] = x
        BY <1>4, <1>8, <2>2, <3>1, <3>3
      <4>2. its[x].heapIdx \in 1 .. n /\ its[x].heapIdx # n
        BY <1>1, <4>1
      <4> QED
        BY <1>2, <4>1, <4>2
    <3> QED
      BY <3>2, <3>3
  <2> QED
    BY <1>2, <1>3, <2>1, <2>2 DEF Indexed
<1>16. HeapState(e)
  BY <1>11, <1>14, <1>15 DEF HeapState
<1>17. UpReady(e, n, n)
  <2>1. \A p, q \in 1 .. Len(c.heap) : Lower(e, c.heap[p], c.heap[q]) <=> Lower(c, c.heap[p], c.heap[q])
    BY <1>4, <1>13, LowerAlike
  <2>2. ASSUME NEW i \in 2 .. n, i # n PROVE InOrder(e, i)
    <3>1. /\ i \in 1 .. n /\ i \div 2 \in 1 .. n /\ i \div 2 # n
          /\ i \in 2 .. Len(c.heap) /\ i \in 1 .. Len(c.heap) /\ i \div 2 \in 1 .. Len(c.heap)
      BY <1>1, <2>2, Halves
    <3>2. h[i] = c.heap[i] /\ h[i \div 2] = c.heap[i \div 2]
      BY <1>2, <2>2, <3>1
    <3>3. Lower(c, c.heap[i \div 2], c.heap[i])
      BY <3>1 DEF Ordered, InOrder
    <3> QED
      BY <1>3, <2>1, <3>1, <3>2, <3>3 DEF InOrder
  <2>3. \A i \in 2 .. n : i \div 2 # n
    BY <1>1, Halves
  <2>4. n \in 0 .. Len(e.heap) /\ n \in 1 .. n
    BY <1>1, <1>2, <1>3
  <2> QED
    BY <1>16, <2>2, <2>3, <2>4 DEF UpReady
<1>18. HeapState(d) /\ Permuted(e, d, n) /\ Ordered(d, n)
  BY <1>6, <1>17, UpHeaps
<1>19. Alike(c, d) /\ Len(d.heap) = n
  <2>1. Alike(e, d) /\ Len(d.heap) = Len(e.heap)
    BY <1>18 DEF Permuted
  <2> QED
    BY <1>2, <1>3, <1>13, <2>1 DEF Alike
<1>20. \A x \in Keys : Has(c, x) => (d.items[x].heapIdx = 0 <=> its[x].heapIdx = 0)
  BY <1>3, <1>12, <1>18 DEF Permuted
<1>21. /\ d.items[k].heapIdx # 0
       /\ \A x \in Keys : Has(c, x) /\ x # k => (d.items[x].heapIdx = 0 <=> c.items[x].heapIdx = 0)
  BY <1>1, <1>8, <1>20
<1> QED
  BY <1>18, <1>19, <1>21 DEF d, n

-----------------------------------------------------------------------------
(* What holds of a Cache between two methods. *)

\* a is in front of b in the list.
Ahead(c, a, b) ==
  \E p, q \in 1 .. Len(c.order) : p < q /\ c.order[p] = a /\ c.order[q] = b

\* FIFO and LRU: every entry is in the list, once.
ListState(c) ==
  /\ c \in Caches /\ c.heap = <<>>
  /\ \A k \in Keys : Has(c, k) => c.items[k].heapIdx = 0
  /\ \A p \in 1 .. Len(c.order) : Has(c, c.order[p])
  /\ \A p, q \in 1 .. Len(c.order) : c.order[p] = c.order[q] => p = q
  /\ \A k \in Keys : Has(c, k) => \E p \in 1 .. Len(c.order) : c.order[p] = k

\* LFU: every entry is in the heap, and the heap is one.
LFUState(c) ==
  /\ HeapState(c) /\ Ordered(c, Len(c.heap)) /\ c.order = <<>>
  /\ \A k \in Keys : Has(c, k) => c.items[k].heapIdx # 0 /\ c.items[k].seq <= c.seq

Shaped(c) == IF policy = "lfu" THEN LFUState(c) ELSE ListState(c)

\* The total is the number of bytes.
Held(c) == {k \in Keys : Has(c, k)}
BytesOf(c) == UNION {{k} \X (1 .. c.items[k].size) : k \in Held(c)}
Counted(c) == IsFiniteSet(BytesOf(c)) /\ c.total = Cardinality(BytesOf(c))

\* The history knows what came after what.
Follows(c, f) ==
  IF policy = "lfu"
  THEN \A a, b \in Keys : Has(c, a) /\ Has(c, b) /\ c.items[a].seq < c.items[b].seq => b \in f[a]
  ELSE \A a, b \in Keys : Ahead(c, a, b) => b \in f[a]

IInv ==
  /\ policy \in Policies /\ fixedTTL \in FixedTTLs
  /\ after \in [Keys -> SUBSET Keys]
  /\ Shaped(cache) /\ Counted(cache) /\ Follows(cache, after)

-----------------------------------------------------------------------------
(* Bytes. *)

OtherBytes(c, k) == UNION {{x} \X (1 .. c.items[x].size) : x \in Held(c) \ {k}}

\* The bytes of one entry.
LEMMA BytesOfOne ==
  ASSUME NEW k, NEW s \in Nat
  PROVE  IsFiniteSet({k} \X (1 .. s)) /\ Cardinality({k} \X (1 .. s)) = s
<1>1. IsFiniteSet({k}) /\ Cardinality({k}) = 1
  BY FS_Singleton
<1>2. IsFiniteSet(1 .. s) /\ Cardinality(1 .. s) = s
  BY FS_Interval
<1>3. /\ IsFiniteSet({k} \X (1 .. s))
      /\ Cardinality({k} \X (1 .. s)) = Cardinality({k}) * Cardinality(1 .. s)
  BY <1>1, <1>2, FS_Product
<1> QED
  BY <1>1, <1>2, <1>3

\* The bytes are those of k and those of the others.
LEMMA BytesSplit ==
  ASSUME NEW c \in Caches, NEW k \in Keys
  PROVE  /\ ~ Has(c, k) => BytesOf(c) = OtherBytes(c, k)
         /\ Has(c, k) => BytesOf(c) = OtherBytes(c, k) \cup ({k} \X (1 .. c.items[k].size))
         /\ OtherBytes(c, k) \cap ({k} \X (1 .. c.items[k].size)) = {}
<1>1. ~ Has(c, k) => BytesOf(c) = OtherBytes(c, k)
  <2>1. ~ Has(c, k) => Held(c) \ {k} = Held(c)
    BY DEF Held
  <2> QED
    BY <2>1 DEF BytesOf, OtherBytes
<1>2. ASSUME Has(c, k)
      PROVE  BytesOf(c) = OtherBytes(c, k) \cup ({k} \X (1 .. c.items[k].size))
  <2>1. Held(c) = (Held(c) \ {k}) \cup {k}
    BY <1>2 DEF Held
  <2>2. ASSUME NEW b, b \in BytesOf(c)
        PROVE  b \in OtherBytes(c, k) \cup ({k} \X (1 .. c.items[k].size))
    <3>1. PICK x \in Held(c) : b \in {x} \X (1 .. c.items[x].size)
      BY <2>2 DEF BytesOf
    <3>2. CASE x = k
      BY <3>1, <3>2
    <3>3. CASE x # k
      BY <3>1, <3>3 DEF OtherBytes
    <3> QED
      BY <3>2, <3>3
  <2>3. ASSUME NEW b, b \in OtherBytes(c, k) \cup ({k} \X (1 .. c.items[k].size))
        PROVE  b \in BytesOf(c)
    <3>1. PICK x \in Held(c) : b \in {x} \X (1 .. c.items[x].size)
      BY <2>1, <2>3 DEF OtherBytes
    <3> QED
      BY <3>1 DEF BytesOf
  <2> QED
    BY <2>2, <2>3
<1>3. OtherBytes(c, k) \cap ({k} \X (1 .. c.items[k].size)) = {}
  BY DEF OtherBytes
<1> QED
  BY <1>1, <1>2, <1>3

\* The number of bytes is that of the others and that of k.
LEMMA CountSplit ==
  ASSUME NEW c \in Caches, NEW k \in Keys
  PROVE  /\ IsFiniteSet(BytesOf(c)) <=> IsFiniteSet(OtherBytes(c, k))
         /\ IsFiniteSet(BytesOf(c)) =>
              /\ Cardinality(OtherBytes(c, k)) \in Nat
              /\ Cardinality(BytesOf(c)) = Cardinality(OtherBytes(c, k))
                                           + IF Has(c, k) THEN c.items[k].size ELSE 0
<1> DEFINE O == OtherBytes(c, k)
           B == BytesOf(c)
           K == {k} \X (1 .. c.items[k].size)
<1>1. CASE ~ Has(c, k)
  BY <1>1, BytesSplit, FS_CardinalityType
<1>2. CASE Has(c, k)
  <2>1. c.items[k].size \in Nat
    BY <1>2, EntryType
  <2>2. IsFiniteSet(K) /\ Cardinality(K) = c.items[k].size
    BY <2>1, BytesOfOne
  <2>3. B = O \cup K /\ O \cap K = {}
    BY <1>2, BytesSplit
  <2> HIDE DEF O, B, K
  <2>4. IsFiniteSet(B) => IsFiniteSet(O)
    BY <2>3, FS_Subset
  <2>5. ASSUME IsFiniteSet(O)
        PROVE  /\ IsFiniteSet(B) /\ Cardinality(O) \in Nat
               /\ Cardinality(B) = Cardinality(O) + c.items[k].size
    <3>1. IsFiniteSet(B) /\ Cardinality(B) = Cardinality(O) + Cardinality(K) - Cardinality(O \cap K)
      BY <2>2, <2>3, <2>5, FS_Union
    <3>2. Cardinality(O) \in Nat /\ Cardinality(O \cap K) = 0
      BY <2>3, <2>5, FS_CardinalityType, FS_EmptySet
    <3> QED
      BY <2>1, <2>2, <3>1, <3>2
  <2> QED
    BY <1>2, <2>4, <2>5 DEF O, B
<1> QED
  BY <1>1, <1>2

\* Only k has come, gone or changed its size.
LEMMA Recount ==
  ASSUME NEW c \in Caches, NEW d \in Caches, NEW k \in Keys, Counted(c),
         \A x \in Keys : x # k => (Has(d, x) <=> Has(c, x)),
         \A x \in Keys : x # k /\ Has(c, x) => d.items[x].size = c.items[x].size,
         d.total = c.total + (IF Has(d, k) THEN d.items[k].size ELSE 0)
                           - (IF Has(c, k) THEN c.items[k].size ELSE 0)
  PROVE  Counted(d)
<1>1. OtherBytes(d, k) = OtherBytes(c, k)
  <2>1. Held(d) \ {k} = Held(c) \ {k}
    BY DEF Held
  <2>2. \A x \in Held(c) \ {k} : d.items[x].size = c.items[x].size
    BY DEF Held
  <2> QED
    BY <2>1, <2>2 DEF OtherBytes
<1>2. /\ IsFiniteSet(BytesOf(c)) /\ IsFiniteSet(BytesOf(d))
      /\ Cardinality(OtherBytes(c, k)) \in Nat
      /\ Cardinality(BytesOf(c)) = Cardinality(OtherBytes(c, k)) + IF Has(c, k) THEN c.items[k].size ELSE 0
      /\ Cardinality(BytesOf(d)) = Cardinality(OtherBytes(c, k)) + IF Has(d, k) THEN d.items[k].size ELSE 0
  BY <1>1, CountSplit DEF Counted
<1>3. /\ Has(c, k) => c.items[k].size \in Nat
      /\ Has(d, k) => d.items[k].size \in Nat
      /\ c.total = Cardinality(BytesOf(c))
  BY EntryType DEF Counted
<1>4. d.total = Cardinality(BytesOf(d))
  BY <1>2, <1>3
<1> QED
  BY <1>2, <1>4 DEF Counted

-----------------------------------------------------------------------------
(* The list. *)

\* The length of two lists.
LEMMA ConcatLen ==
  ASSUME NEW f \in Seq(Keys), NEW g \in Seq(Keys)
  PROVE  f \o g \in Seq(Keys) /\ Len(f \o g) = Len(f) + Len(g)
BY ConcatProperties

\* RemoveFirst takes out the one element that is k.
LEMMA RemovesOne ==
  ASSUME NEW s \in Seq(Keys), NEW k \in Keys, NEW i \in 1 .. Len(s), s[i] = k,
         \A p, q \in 1 .. Len(s) : s[p] = s[q] => p = q
  PROVE  LET r == RemoveFirst(s, k) IN
           /\ r \in Seq(Keys) /\ Len(r) = Len(s) - 1
           /\ \A p \in 1 .. Len(s) - 1 : r[p] = IF p < i THEN s[p] ELSE s[p + 1]
<1> DEFINE I == {p \in 1 .. Len(s) : s[p] = k}
           f == SubSeq(s, 1, i - 1)
           g == SubSeq(s, i + 1, Len(s))
<1>1. I = {i}
  OBVIOUS
<1>2. Min(I) = i
  BY <1>1 DEF Min
<1>3. RemoveFirst(s, k) = f \o g
  <2>1. SelectInSeq(s, LAMBDA v : v = k) = i
    BY <1>1, <1>2 DEF SelectInSeq
  <2>2. RemoveFirst(s, k) = RemoveAt(s, i)
    BY <2>1 DEF RemoveFirst
  <2> QED
    BY <2>2 DEF RemoveAt
<1>4. Len(s) \in Nat /\ i \in Nat /\ i >= 1 /\ i <= Len(s)
  OBVIOUS
<1>5. f \in Seq(Keys) /\ Len(f) = i - 1 /\ \A p \in 1 .. i - 1 : f[p] = s[p]
  BY <1>4
<1>6. g \in Seq(Keys) /\ Len(g) = Len(s) - i /\ \A p \in 1 .. Len(s) - i : g[p] = s[p + i]
  <2>1. g \in Seq(Keys) /\ Len(g) = Len(s) - i
    BY <1>4
  <2>2. ASSUME NEW p \in 1 .. Len(s) - i PROVE g[p] = s[p + i]
    <3>1. p \in Int /\ (i + 1) + p - 1 = p + i
      BY <1>4
    <3>2. p \in 1 .. Len(s) + 1 - (i + 1)
      BY <1>4
    <3>3. g[p] = s[(i + 1) + p - 1]
      BY <1>4, <3>2
    <3> QED
      BY <3>1, <3>3
  <2> QED
    BY <2>1, <2>2
<1> HIDE DEF f, g
<1>7. f \o g \in Seq(Keys) /\ Len(f \o g) = Len(s) - 1
  <2>1. f \in Seq(Keys) /\ g \in Seq(Keys) /\ Len(f) = i - 1 /\ Len(g) = Len(s) - i
    BY <1>5, <1>6
  <2>2. f \o g \in Seq(Keys) /\ Len(f \o g) = Len(f) + Len(g)
    BY <2>1, ConcatLen
  <2> QED
    BY <1>4, <2>1, <2>2
<1>8. ASSUME NEW p \in 1 .. Len(s) - 1
      PROVE  (f \o g)[p] = IF p < i THEN s[p] ELSE s[p + 1]
  <2>1. p \in 1 .. Len(f) + Len(g) /\ (f \o g)[p] = IF p <= Len(f) THEN f[p] ELSE g[p - Len(f)]
    BY <1>4, <1>5, <1>6, ConcatProperties
  <2>2. CASE p < i
    BY <1>4, <1>5, <2>1, <2>2
  <2>3. CASE ~ (p < i)
    <3>1. p - Len(f) \in 1 .. Len(s) - i /\ ~ (p <= Len(f)) /\ (p - Len(f)) + i = p + 1
      BY <1>4, <1>5, <2>3
    <3> QED
      BY <1>6, <2>1, <2>3, <3>1
  <2> QED
    BY <2>2, <2>3
<1> QED
  BY <1>3, <1>7, <1>8

\* RemoveFirst of what is not there.
LEMMA RemovesNone ==
  ASSUME NEW s, NEW k, ~ \E i \in 1 .. Len(s) : s[i] = k
  PROVE  RemoveFirst(s, k) = s
BY DEF RemoveFirst

\* r is s without k: what is left is in the same order.
Shorter(s, r, k) ==
  /\ r \in Seq(Keys) /\ Len(r) = Len(s) - 1 /\ Len(s) \in Nat
  /\ \A p \in 1 .. Len(r) : r[p] # k /\ \E q \in 1 .. Len(s) : r[p] = s[q]
  /\ \A p, q \in 1 .. Len(r) : r[p] = r[q] => p = q
  /\ \A q \in 1 .. Len(s) : s[q] # k => \E p \in 1 .. Len(r) : r[p] = s[q]
  /\ \A p, q \in 1 .. Len(r) : p < q =>
       \E u, v \in 1 .. Len(s) : u < v /\ s[u] = r[p] /\ s[v] = r[q]

\* RemoveFirst makes a list shorter,
LEMMA ListWithout ==
  ASSUME NEW s \in Seq(Keys), NEW k \in Keys, NEW i \in 1 .. Len(s), s[i] = k,
         \A p, q \in 1 .. Len(s) : s[p] = s[q] => p = q
  PROVE  Shorter(s, RemoveFirst(s, k), k)
<1> DEFINE r == RemoveFirst(s, k)
           at(p) == IF p < i THEN p ELSE p + 1
<1>1. /\ r \in Seq(Keys) /\ Len(r) = Len(s) - 1 /\ Len(s) \in Nat
      /\ \A p \in 1 .. Len(r) : r[p] = s[at(p)]
  <2>1. Len(s) \in Nat
    OBVIOUS
  <2>2. r \in Seq(Keys) /\ Len(r) = Len(s) - 1
    BY RemovesOne
  <2>3. \A p \in 1 .. Len(s) - 1 : r[p] = IF p < i THEN s[p] ELSE s[p + 1]
    BY RemovesOne
  <2>4. \A p \in 1 .. Len(s) - 1 : r[p] = s[at(p)]
    <3> HIDE DEF r
    <3> QED
      BY <2>3
  <2> HIDE DEF r, at
  <2> QED
    BY <2>1, <2>2, <2>4
<1>2. \A p \in 1 .. Len(r) : at(p) \in 1 .. Len(s) /\ at(p) # i
  BY <1>1
<1>3. \A p, q \in 1 .. Len(r) : (at(p) = at(q) => p = q) /\ (p < q => at(p) < at(q))
  BY <1>1
<1>4. \A q \in 1 .. Len(s) : q # i => \E p \in 1 .. Len(r) : at(p) = q
  <2> SUFFICES ASSUME NEW q \in 1 .. Len(s), q # i PROVE \E p \in 1 .. Len(r) : at(p) = q
    OBVIOUS
  <2>1. CASE q < i
    <3>1. q \in 1 .. Len(r) /\ at(q) = q
      BY <1>1, <2>1
    <3> QED
      BY <3>1
  <2>2. CASE ~ (q < i)
    <3>1. q - 1 \in 1 .. Len(r) /\ at(q - 1) = q
      BY <1>1, <2>2
    <3> QED
      BY <3>1
  <2> QED
    BY <2>1, <2>2
<1> HIDE DEF r, at
<1>5. \A p \in 1 .. Len(r) : r[p] # k /\ \E q \in 1 .. Len(s) : r[p] = s[q]
  BY <1>1, <1>2
<1>6. \A p, q \in 1 .. Len(r) : r[p] = r[q] => p = q
  BY <1>1, <1>2, <1>3
<1>7. \A q \in 1 .. Len(s) : s[q] # k => \E p \in 1 .. Len(r) : r[p] = s[q]
  BY <1>1, <1>4
<1>8. ASSUME NEW p \in 1 .. Len(r), NEW q \in 1 .. Len(r), p < q
      PROVE  \E u, v \in 1 .. Len(s) : u < v /\ s[u] = r[p] /\ s[v] = r[q]
  <2>1. at(p) \in 1 .. Len(s) /\ at(q) \in 1 .. Len(s) /\ at(p) < at(q)
    BY <1>2, <1>3, <1>8
  <2> QED
    BY <1>1, <2>1
<1>9. Shorter(s, r, k)
  BY <1>1, <1>5, <1>6, <1>7, <1>8 DEF Shorter
<1> QED
  BY <1>9 DEF r

\* r is s with k at its end.
Longer(s, r, k) ==
  /\ r \in Seq(Keys) /\ Len(r) = Len(s) + 1 /\ Len(s) \in Nat
  /\ \A p \in 1 .. Len(r) : r[p] = k \/ \E q \in 1 .. Len(s) : r[p] = s[q]
  /\ \A p, q \in 1 .. Len(r) : r[p] = r[q] => p = q
  /\ \E p \in 1 .. Len(r) : r[p] = k
  /\ \A q \in 1 .. Len(s) : \E p \in 1 .. Len(r) : r[p] = s[q]
  /\ \A p, q \in 1 .. Len(r) : p < q =>
       /\ r[p] # k
       /\ r[q] = k \/ \E u, v \in 1 .. Len(s) : u < v /\ s[u] = r[p] /\ s[v] = r[q]

\* and Append makes it longer.
LEMMA ListWith ==
  ASSUME NEW s \in Seq(Keys), NEW k \in Keys, \A p \in 1 .. Len(s) : s[p] # k,
         \A p, q \in 1 .. Len(s) : s[p] = s[q] => p = q
  PROVE  Longer(s, Append(s, k), k)
<1> DEFINE r == Append(s, k)
           n == Len(s) + 1
<1>1. /\ r \in Seq(Keys) /\ Len(r) = n /\ Len(s) \in Nat /\ r[n] = k /\ n \in 1 .. n
      /\ \A p \in 1 .. n : p # n => p \in 1 .. Len(s) /\ r[p] = s[p]
      /\ \A p \in 1 .. Len(s) : p \in 1 .. n /\ r[p] = s[p]
  OBVIOUS
<1> HIDE DEF r
<1>2. \A p, q \in 1 .. n : r[p] = r[q] => p = q
  BY <1>1
<1>3. ASSUME NEW p \in 1 .. n, NEW q \in 1 .. n, p < q
      PROVE  /\ r[p] # k
             /\ r[q] = k \/ \E u, v \in 1 .. Len(s) : u < v /\ s[u] = r[p] /\ s[v] = r[q]
  <2>1. p # n
    BY <1>1, <1>3
  <2>2. p \in 1 .. Len(s) /\ r[p] = s[p]
    BY <1>1, <2>1
  <2>3. CASE q = n
    BY <1>1, <2>2, <2>3
  <2>4. CASE q # n
    BY <1>1, <1>3, <2>2, <2>4
  <2> QED
    BY <2>3, <2>4
<1>4. /\ \A p \in 1 .. n : r[p] = k \/ \E q \in 1 .. Len(s) : r[p] = s[q]
      /\ \E p \in 1 .. n : r[p] = k
      /\ \A q \in 1 .. Len(s) : \E p \in 1 .. n : r[p] = s[q]
  BY <1>1
<1>5. Longer(s, r, k)
  BY <1>1, <1>2, <1>3, <1>4 DEF Longer
<1> QED
  BY <1>5 DEF r

-----------------------------------------------------------------------------
(* Removal. *)

\* The number of places in the structures, and the rounds that EvictFor has.
Rounds(c) == Len(c.order) + Len(c.heap)

\* d is c without k.
Without(c, d, k) ==
  /\ \A x \in Keys : Has(d, x) <=> Has(c, x) /\ x # k
  /\ \A x \in Keys : Has(d, x) =>
       /\ d.items[x].size = c.items[x].size /\ d.items[x].left = c.items[x].left
       /\ d.items[x].freq = c.items[x].freq /\ d.items[x].seq = c.items[x].seq
  /\ d.seq = c.seq /\ d.total = c.total - c.items[k].size
  /\ Rounds(d) = Rounds(c) - 1
  /\ \A a, b \in Keys : Ahead(d, a, b) => Ahead(c, a, b)

Drop(c, k, s) ==
  [c EXCEPT !.items[k] = None, !.total = @ - s, !.order = RemoveFirst(@, k)]

\* What Drop does to each part of a Cache.
LEMMA Dropped ==
  ASSUME NEW c \in Caches, NEW k \in Keys, NEW s \in Int, NEW d, d = Drop(c, k, s)
  PROVE  /\ d.total = c.total - s /\ d.seq = c.seq /\ d.heap = c.heap
         /\ d.order = RemoveFirst(c.order, k)
         /\ RemoveFirst(c.order, k) \in Seq(Keys) => d \in Caches
         /\ \A x \in Keys : d.items[x] = IF x = k THEN None ELSE c.items[x]
<1> DEFINE its == [c.items EXCEPT ![k] = None]
<1>1. /\ d.items = its /\ d.total = c.total - s /\ d.seq = c.seq
      /\ d.heap = c.heap /\ d.order = RemoveFirst(c.order, k)
  BY DEF Drop, Caches
<1>2. c.items \in [Keys -> Entries \cup {None}]
  BY DEF Caches
<1>3. /\ its \in [Keys -> Entries \cup {None}]
      /\ \A x \in Keys : its[x] = IF x = k THEN None ELSE c.items[x]
  BY <1>2
<1>4. c.total - s \in Int
  BY DEF Caches
<1>5. RemoveFirst(c.order, k) \in Seq(Keys) => d \in Caches
  <2>1. d = [c EXCEPT !.items = its, !.total = c.total - s, !.order = RemoveFirst(c.order, k)]
    BY DEF Drop, Caches
  <2> HIDE DEF its
  <2> QED
    BY <1>3, <1>4, <2>1 DEF Caches
<1> QED
  BY <1>1, <1>3, <1>5

\* LFU: what has left the heap leaves the map.
LEMMA LFUDrops ==
  ASSUME NEW c, LFUState(c), NEW k \in Keys, Has(c, k), NEW x, Detached(c, x, k)
  PROVE  LET d == Drop(x, k, c.items[k].size) IN LFUState(d) /\ Without(c, d, k)
<1> DEFINE s == c.items[k].size
           d == Drop(x, k, s)
<1>1. c \in Caches /\ x \in Caches /\ HeapState(c) /\ HeapState(x)
  BY DEF LFUState, Detached, HeapState
<1>2. s \in Nat
  BY <1>1, EntryType
<1>3. c.order = <<>> /\ x.order = <<>>
  BY DEF LFUState, Detached, Alike
<1>4. RemoveFirst(x.order, k) = <<>> /\ RemoveFirst(x.order, k) \in Seq(Keys)
  <2>1. ~ \E i \in 1 .. Len(x.order) : x.order[i] = k
    BY <1>3
  <2>2. RemoveFirst(x.order, k) = x.order
    BY <2>1, RemovesNone
  <2>3. x.order \in Seq(Keys)
    BY <1>1 DEF Caches
  <2> QED
    BY <1>3, <2>2, <2>3
<1> HIDE DEF s
<1>5. /\ d \in Caches /\ d.total = x.total - s /\ d.seq = x.seq /\ d.heap = x.heap /\ d.order = <<>>
      /\ \A y \in Keys : d.items[y] = IF y = k THEN None ELSE x.items[y]
      /\ \A y \in Keys : Has(d, y) <=> Has(x, y) /\ y # k
  <2>1. s \in Int
    BY <1>2
  <2>2. d = Drop(x, k, s)
    OBVIOUS
  <2> HIDE DEF d
  <2>3. /\ d.total = x.total - s /\ d.seq = x.seq /\ d.heap = x.heap
        /\ d.order = RemoveFirst(x.order, k)
        /\ RemoveFirst(x.order, k) \in Seq(Keys) => d \in Caches
        /\ \A y \in Keys : d.items[y] = IF y = k THEN None ELSE x.items[y]
    BY <1>1, <2>1, <2>2, Dropped
  <2>4. \A y \in Keys : Has(d, y) <=> Has(x, y) /\ y # k
    BY <2>3 DEF Has
  <2> QED
    BY <1>4, <2>3, <2>4
<1> HIDE DEF d
<1>6. /\ x.total = c.total /\ x.seq = c.seq
      /\ \A y \in Keys : Has(x, y) <=> Has(c, y)
      /\ \A y \in Keys : Has(c, y) =>
           /\ x.items[y].size = c.items[y].size /\ x.items[y].left = c.items[y].left
           /\ x.items[y].freq = c.items[y].freq /\ x.items[y].seq = c.items[y].seq
  BY DEF Detached, Alike
<1>7. Has(x, k) /\ x.items[k].heapIdx = 0
  BY <1>6 DEF Detached
<1>8. \A p \in 1 .. Len(x.heap) : x.heap[p] \in Keys /\ Has(x, x.heap[p]) /\ x.heap[p] # k
  <2>1. ASSUME NEW p \in 1 .. Len(x.heap) PROVE x.heap[p] # k
    <3>1. x.items[x.heap[p]].heapIdx = p /\ p # 0
      BY <1>1 DEF HeapState, Indexed
    <3> QED
      BY <1>7, <3>1
  <2> QED
    BY <1>1, <2>1, HeapType
<1>9. Indexed(d)
  <2>1. ASSUME NEW p \in 1 .. Len(d.heap) PROVE Has(d, d.heap[p]) /\ d.items[d.heap[p]].heapIdx = p
    <3>1. p \in 1 .. Len(x.heap) /\ d.heap[p] = x.heap[p]
      BY <1>5, <2>1
    <3>2. x.heap[p] \in Keys /\ Has(x, x.heap[p]) /\ x.heap[p] # k
      BY <1>8, <3>1
    <3>3. x.items[x.heap[p]].heapIdx = p
      BY <1>1, <3>1 DEF HeapState, Indexed
    <3>4. Has(d, x.heap[p]) /\ d.items[x.heap[p]] = x.items[x.heap[p]]
      BY <1>5, <3>2
    <3> QED
      BY <3>1, <3>3, <3>4
  <2>2. ASSUME NEW y \in Keys, Has(d, y), d.items[y].heapIdx # 0
        PROVE  d.items[y].heapIdx \in 1 .. Len(d.heap) /\ d.heap[d.items[y].heapIdx] = y
    <3>1. Has(x, y) /\ d.items[y] = x.items[y]
      BY <1>5, <2>2
    <3> QED
      BY <1>1, <1>5, <2>2, <3>1 DEF HeapState, Indexed
  <2> QED
    BY <2>1, <2>2 DEF Indexed
<1>10. Distinct(d)
  <2>1. ASSUME NEW a \in Keys, NEW b \in Keys, Has(d, a), Has(d, b), a # b
        PROVE  d.items[a].seq # d.items[b].seq
    <3>1. Has(x, a) /\ Has(x, b) /\ d.items[a] = x.items[a] /\ d.items[b] = x.items[b]
      BY <1>5, <2>1
    <3> QED
      BY <1>1, <2>1, <3>1 DEF HeapState, Distinct
  <2> QED
    BY <2>1 DEF Distinct
<1>11. HeapState(d)
  BY <1>5, <1>9, <1>10 DEF HeapState
<1>12. Ordered(d, Len(d.heap))
  <2>1. ASSUME NEW i \in 2 .. Len(d.heap) PROVE InOrder(d, i)
    <3>1. i \in 1 .. Len(x.heap) /\ i \div 2 \in 1 .. Len(x.heap) /\ i \in 2 .. Len(x.heap)
      <4>1. Len(x.heap) \in Nat
        BY <1>1, HeapType
      <4> QED
        BY <1>5, <2>1, <4>1, Halves
    <3>2. Lower(x, x.heap[i \div 2], x.heap[i])
      BY <3>1 DEF Detached, Ordered, InOrder
    <3>3. d.items[x.heap[i]] = x.items[x.heap[i]] /\ d.items[x.heap[i \div 2]] = x.items[x.heap[i \div 2]]
      BY <1>5, <1>8, <3>1
    <3> QED
      BY <1>5, <3>2, <3>3 DEF InOrder, Lower
  <2> QED
    BY <2>1 DEF Ordered
<1>13. ASSUME NEW y \in Keys, Has(d, y) PROVE d.items[y].heapIdx # 0 /\ d.items[y].seq <= d.seq
  <2>1. Has(c, y) /\ y # k /\ d.items[y] = x.items[y]
    BY <1>5, <1>6, <1>13
  <2>2. c.items[y].heapIdx # 0 /\ c.items[y].seq <= c.seq
    BY <2>1 DEF LFUState
  <2> QED
    BY <1>5, <1>6, <2>1, <2>2 DEF Detached
<1>14. LFUState(d)
  BY <1>5, <1>11, <1>12, <1>13 DEF LFUState
<1>15. Without(c, d, k)
  <2>1. \A y \in Keys : Has(d, y) <=> Has(c, y) /\ y # k
    BY <1>5, <1>6
  <2>2. \A y \in Keys : Has(d, y) =>
          /\ d.items[y].size = c.items[y].size /\ d.items[y].left = c.items[y].left
          /\ d.items[y].freq = c.items[y].freq /\ d.items[y].seq = c.items[y].seq
    BY <1>5, <1>6
  <2>3. d.seq = c.seq /\ d.total = c.total - c.items[k].size
    BY <1>5, <1>6 DEF s
  <2>4. Rounds(d) = Rounds(c) - 1
    <3>1. Len(x.heap) = Len(c.heap) - 1 /\ Len(c.heap) \in Nat
      BY <1>1, HeapType DEF Detached
    <3> QED
      BY <1>3, <1>5, <3>1 DEF Rounds
  <2>5. \A a, b \in Keys : ~ Ahead(d, a, b)
    BY <1>5 DEF Ahead
  <2> QED
    BY <2>1, <2>2, <2>3, <2>4, <2>5 DEF Without
<1> QED
  BY <1>14, <1>15 DEF d, s

\* FIFO and LRU: what leaves the list leaves the map.
LEMMA ListDrops ==
  ASSUME NEW c, ListState(c), NEW k \in Keys, Has(c, k),
         NEW d, d = Drop(c, k, c.items[k].size)
  PROVE  ListState(d) /\ Without(c, d, k)
<1> DEFINE s == c.items[k].size
           r == RemoveFirst(c.order, k)
<1>1. /\ c \in Caches /\ c.order \in Seq(Keys) /\ c.heap = <<>>
      /\ \A p, q \in 1 .. Len(c.order) : c.order[p] = c.order[q] => p = q
  BY DEF ListState, Caches
<1>2. s \in Int
  BY <1>1, EntryType
<1>3. PICK i \in 1 .. Len(c.order) : c.order[i] = k
  BY DEF ListState
<1>4. /\ r \in Seq(Keys) /\ Len(r) = Len(c.order) - 1 /\ Len(c.order) \in Nat
      /\ \A p \in 1 .. Len(r) : r[p] # k /\ \E q \in 1 .. Len(c.order) : r[p] = c.order[q]
      /\ \A p, q \in 1 .. Len(r) : r[p] = r[q] => p = q
      /\ \A q \in 1 .. Len(c.order) : c.order[q] # k => \E p \in 1 .. Len(r) : r[p] = c.order[q]
      /\ \A p, q \in 1 .. Len(r) : p < q =>
           \E u, v \in 1 .. Len(c.order) : u < v /\ c.order[u] = r[p] /\ c.order[v] = r[q]
  <2>1. Shorter(c.order, r, k)
    BY <1>1, <1>3, ListWithout
  <2> HIDE DEF r
  <2> QED
    BY <2>1 DEF Shorter
<1>5. d = Drop(c, k, s)
  OBVIOUS
<1> HIDE DEF s
<1>6. /\ d.total = c.total - s /\ d.seq = c.seq /\ d.heap = c.heap /\ d.order = r
      /\ r \in Seq(Keys) => d \in Caches
      /\ \A x \in Keys : d.items[x] = IF x = k THEN None ELSE c.items[x]
  BY <1>1, <1>2, <1>5, Dropped
<1>7. \A x \in Keys : Has(d, x) <=> Has(c, x) /\ x # k
  BY <1>6 DEF Has
<1> HIDE DEF r
<1>8. d \in Caches /\ d.heap = <<>>
  BY <1>1, <1>4, <1>6
<1>9. \A x \in Keys : Has(d, x) => d.items[x].heapIdx = 0
  BY <1>6, <1>7 DEF ListState
<1>10. ASSUME NEW p \in 1 .. Len(d.order) PROVE Has(d, d.order[p])
  <2>1. p \in 1 .. Len(r) /\ d.order[p] = r[p]
    BY <1>6, <1>10
  <2>2. PICK q \in 1 .. Len(c.order) : r[p] = c.order[q]
    BY <1>4, <2>1
  <2>3. Has(c, r[p]) /\ r[p] \in Keys /\ r[p] # k
    BY <1>4, <2>1, <2>2 DEF ListState
  <2> QED
    BY <1>7, <2>1, <2>3
<1>11. ASSUME NEW x \in Keys, Has(d, x) PROVE \E p \in 1 .. Len(d.order) : d.order[p] = x
  <2>1. Has(c, x) /\ x # k
    BY <1>7, <1>11
  <2>2. PICK q \in 1 .. Len(c.order) : c.order[q] = x
    BY <2>1 DEF ListState
  <2> QED
    BY <1>4, <1>6, <2>1, <2>2
<1>12. \A p, q \in 1 .. Len(d.order) : d.order[p] = d.order[q] => p = q
  BY <1>4, <1>6
<1>13. ListState(d)
  BY <1>8, <1>9, <1>10, <1>11, <1>12 DEF ListState
<1>14. ASSUME NEW x \in Keys, Has(d, x)
       PROVE  /\ d.items[x].size = c.items[x].size /\ d.items[x].left = c.items[x].left
              /\ d.items[x].freq = c.items[x].freq /\ d.items[x].seq = c.items[x].seq
  <2>1. d.items[x] = c.items[x]
    BY <1>6, <1>7, <1>14
  <2> QED
    BY <2>1
<1>15. Rounds(d) = Rounds(c) - 1
  BY <1>1, <1>4, <1>6 DEF Rounds
<1>16. ASSUME NEW a \in Keys, NEW b \in Keys, Ahead(d, a, b) PROVE Ahead(c, a, b)
  <2>1. PICK p \in 1 .. Len(r), q \in 1 .. Len(r) : p < q /\ r[p] = a /\ r[q] = b
    BY <1>6, <1>16 DEF Ahead
  <2>2. \E u, v \in 1 .. Len(c.order) : u < v /\ c.order[u] = r[p] /\ c.order[v] = r[q]
    BY <1>4, <2>1
  <2> QED
    BY <2>1, <2>2 DEF Ahead
<1>17. Without(c, d, k)
  BY <1>6, <1>7, <1>14, <1>15, <1>16 DEF Without, s
<1> QED
  BY <1>13, <1>17

\* The total is right when an entry has left.
LEMMA WithoutCounts ==
  ASSUME NEW c \in Caches, NEW d \in Caches, NEW k \in Keys,
         Has(c, k), Without(c, d, k), Counted(c)
  PROVE  Counted(d)
<1>1. ~ Has(d, k) /\ \A x \in Keys : x # k => (Has(d, x) <=> Has(c, x))
  BY DEF Without
<1>2. \A x \in Keys : x # k /\ Has(c, x) => d.items[x].size = c.items[x].size
  BY DEF Without
<1>3. d.total = c.total + 0 - c.items[k].size
  <2>1. d.total = c.total - c.items[k].size /\ c.total \in Int /\ c.items[k].size \in Nat
    BY EntryType DEF Without, Caches
  <2> QED
    BY <2>1
<1>4. d.total = c.total + (IF Has(d, k) THEN d.items[k].size ELSE 0)
                        - (IF Has(c, k) THEN c.items[k].size ELSE 0)
  BY <1>1, <1>3
<1> QED
  BY <1>1, <1>2, <1>4, Recount

\* A Cache with the right shape has the types of one.
LEMMA ShapedType ==
  ASSUME NEW c, Shaped(c)
  PROVE  c \in Caches
BY DEF Shaped, LFUState, ListState, HeapState

\* RemoveEntry takes the entry out of the map, the total and the structure.
LEMMA RemoveEntryRemoves ==
  ASSUME NEW c, Shaped(c), NEW k \in Keys, Has(c, k), NEW d, d = RemoveEntry(c, k)
  PROVE  Shaped(d) /\ Without(c, d, k)
<1>1. CASE policy = "lfu"
  <2>1. LFUState(c)
    BY <1>1 DEF Shaped
  <2>2. c.items[k].heapIdx \in 1 .. Len(c.heap) /\ c.heap[c.items[k].heapIdx] = k
        /\ HeapState(c) /\ Ordered(c, Len(c.heap)) /\ c.items[k].heapIdx > 0
    BY <2>1 DEF LFUState, HeapState, Indexed
  <2> DEFINE x == HeapRemove(c, c.items[k].heapIdx)
  <2>3. Detached(c, x, k)
    BY <2>2, HeapRemoves
  <2>4. d = Drop(x, k, c.items[k].size)
    BY <2>2 DEF RemoveEntry, Drop
  <2> HIDE DEF x
  <2>5. LFUState(d) /\ Without(c, d, k)
    BY <2>1, <2>3, <2>4, LFUDrops
  <2> QED
    BY <1>1, <2>5 DEF Shaped
<1>2. CASE policy # "lfu"
  <2>1. ListState(c)
    BY <1>2 DEF Shaped
  <2>2. ~ (c.items[k].heapIdx > 0)
    BY <2>1 DEF ListState
  <2>3. d = Drop(c, k, c.items[k].size)
    BY <2>2 DEF RemoveEntry, Drop
  <2>4. ListState(d) /\ Without(c, d, k)
    BY <2>1, <2>3, ListDrops
  <2> QED
    BY <1>2, <2>4 DEF Shaped
<1> QED
  BY <1>1, <1>2

-----------------------------------------------------------------------------
(* Eviction. *)

\* a leaves before b.
Sooner(c, a, b) == IF policy = "lfu" THEN Lower(c, a, b) ELSE Ahead(c, a, b)

\* EvictOne removes the entry that has to leave first.
LEMMA EvictsFirst ==
  ASSUME NEW c, Shaped(c), \E k \in Keys : Has(c, k), NEW d, d = EvictOne(c)
  PROVE  \E v \in Keys : /\ Has(c, v) /\ Shaped(d) /\ Without(c, d, v)
                         /\ \A x \in Keys : Has(c, x) /\ x # v => Sooner(c, v, x)
<1>0. PICK k \in Keys : Has(c, k)
  OBVIOUS
<1>1. CASE policy = "lfu"
  <2>1. LFUState(c) /\ HeapState(c) /\ Ordered(c, Len(c.heap))
    BY <1>1 DEF Shaped, LFUState
  <2>2. \A x \in Keys : Has(c, x) => c.items[x].heapIdx \in 1 .. Len(c.heap) /\ c.heap[c.items[x].heapIdx] = x
    BY <2>1 DEF LFUState, HeapState, Indexed
  <2>3. Len(c.heap) \in Nat /\ Len(c.heap) > 0 /\ 1 \in 1 .. Len(c.heap)
    <3>1. Len(c.heap) \in Nat /\ c.items[k].heapIdx \in 1 .. Len(c.heap)
      BY <1>0, <2>1, <2>2, HeapType
    <3> QED
      BY <3>1
  <2> DEFINE v == c.heap[1]
             x == HeapPop(c)
  <2>4. v \in Keys /\ Has(c, v)
    BY <2>1, <2>3, HeapType
  <2>5. Detached(c, x, v)
    BY <2>1, <2>3, HeapPops
  <2> HIDE DEF x, v
  <2>6. x.items[v].heapIdx = 0 /\ x.items[v].size = c.items[v].size
    BY <2>4, <2>5 DEF Detached, Alike
  <2>7. d = RemoveEntry(x, v)
    BY <1>1 DEF EvictOne, x, v
  <2>8. d = Drop(x, v, c.items[v].size)
    BY <2>6, <2>7 DEF RemoveEntry, Drop
  <2>9. LFUState(d) /\ Without(c, d, v)
    BY <2>1, <2>4, <2>5, <2>8, LFUDrops
  <2>10. ASSUME NEW y \in Keys, Has(c, y), y # v PROVE Sooner(c, v, y)
    <3>1. c.items[y].heapIdx \in 1 .. Len(c.heap) /\ c.heap[c.items[y].heapIdx] = y
      BY <2>2, <2>10
    <3>2. c.items[y].heapIdx # 1
      BY <2>10, <3>1 DEF v
    <3>3. c.items[y].heapIdx \in 2 .. Len(c.heap)
      BY <2>3, <3>1, <3>2
    <3>4. Lower(c, c.heap[1], y)
      BY <2>1, <3>1, <3>3, FirstIsLowest
    <3> QED
      BY <1>1, <3>4 DEF Sooner, v
  <2>11. Shaped(d)
    BY <1>1, <2>9 DEF Shaped
  <2> QED
    BY <2>4, <2>9, <2>10, <2>11
<1>2. CASE policy # "lfu"
  <2>1. ListState(c) /\ c.order \in Seq(Keys)
    BY <1>2 DEF Shaped, ListState, Caches
  <2>2. PICK q \in 1 .. Len(c.order) : c.order[q] = k
    BY <1>0, <2>1 DEF ListState
  <2> DEFINE v == Head(c.order)
  <2>3. Len(c.order) \in Nat /\ 1 \in 1 .. Len(c.order) /\ c.order # <<>>
    BY <2>1, <2>2
  <2>4. v = c.order[1]
    BY <2>1, <2>3
  <2>5. v \in Keys /\ Has(c, v)
    BY <2>1, <2>3, <2>4 DEF ListState
  <2>6. d = RemoveEntry(c, v)
    BY <1>2 DEF EvictOne
  <2> HIDE DEF v
  <2>7. Shaped(d) /\ Without(c, d, v)
    BY <2>5, <2>6, RemoveEntryRemoves
  <2>8. ASSUME NEW y \in Keys, Has(c, y), y # v PROVE Sooner(c, v, y)
    <3>1. PICK p \in 1 .. Len(c.order) : c.order[p] = y
      BY <2>1, <2>8 DEF ListState
    <3>2. p # 1
      BY <2>4, <2>8, <3>1
    <3>3. 1 < p
      BY <2>3, <3>1, <3>2
    <3> QED
      BY <1>2, <2>3, <2>4, <3>1, <3>3 DEF Sooner, Ahead
  <2> QED
    BY <2>5, <2>7, <2>8
<1> QED
  BY <1>1, <1>2

\* d is what some evictions have left of c, for an entry of this size.
EvictedFrom(c, d, size) ==
  /\ Shaped(d) /\ Counted(d) /\ d.seq = c.seq
  /\ \A x \in Keys : Has(d, x) =>
       /\ Has(c, x)
       /\ d.items[x].size = c.items[x].size /\ d.items[x].left = c.items[x].left
       /\ d.items[x].freq = c.items[x].freq /\ d.items[x].seq = c.items[x].seq
  /\ \A a, b \in Keys : Ahead(d, a, b) => Ahead(c, a, b)
  /\ \A a, b \in Keys : Has(c, a) /\ ~ Has(d, a) /\ Has(d, b) => Sooner(c, a, b)
  /\ (\E a \in Keys : Has(c, a) /\ ~ Has(d, a)) =>
       /\ MaxBytes > 0
       /\ \E j \in Keys : Has(c, j) /\ ~ Has(d, j) /\ d.total + c.items[j].size + size > MaxBytes

Room(d, size) == MaxBytes = 0 \/ (~ \E k \in Keys : Has(d, k)) \/ ~ Full(d, size)

\* The settings that evictions look at are numbers.
LEMMA Limits == MaxBytes \in Nat /\ StaleMaxAge \in Nat
BY SettingsAssumption

\* One more eviction, where there is no room yet.
LEMMA EvictsOne ==
  ASSUME NEW c \in Caches, NEW size \in Nat, NEW d, EvictedFrom(c, d, size), ~ Room(d, size),
         NEW e, e = EvictStep(d, size)
  PROVE  /\ EvictedFrom(c, e, size)
         /\ Rounds(e) = Rounds(d) - 1
<1>1. MaxBytes > 0 /\ MaxBytes \in Nat /\ (\E k \in Keys : Has(d, k)) /\ Full(d, size)
  BY Limits DEF Room
<1>2. e = EvictOne(d)
  BY <1>1 DEF EvictStep
<1>3. Shaped(d) /\ Counted(d)
  BY DEF EvictedFrom
<1>4. PICK v \in Keys : /\ Has(d, v) /\ Shaped(e) /\ Without(d, e, v)
                        /\ \A x \in Keys : Has(d, x) /\ x # v => Sooner(d, v, x)
  BY <1>1, <1>2, <1>3, EvictsFirst
<1>5. d \in Caches /\ e \in Caches
  BY <1>3, <1>4, ShapedType
<1>6. Counted(e)
  BY <1>3, <1>4, <1>5, WithoutCounts
<1>7. /\ \A x \in Keys : Has(d, x) =>
           /\ Has(c, x)
           /\ d.items[x].size = c.items[x].size /\ d.items[x].left = c.items[x].left
           /\ d.items[x].freq = c.items[x].freq /\ d.items[x].seq = c.items[x].seq
      /\ \A a, b \in Keys : Ahead(d, a, b) => Ahead(c, a, b)
      /\ d.seq = c.seq
  BY DEF EvictedFrom
<1>8. /\ \A x \in Keys : Has(e, x) <=> Has(d, x) /\ x # v
      /\ \A x \in Keys : Has(e, x) =>
           /\ e.items[x].size = d.items[x].size /\ e.items[x].left = d.items[x].left
           /\ e.items[x].freq = d.items[x].freq /\ e.items[x].seq = d.items[x].seq
      /\ e.seq = d.seq /\ e.total = d.total - d.items[v].size
      /\ Rounds(e) = Rounds(d) - 1
      /\ \A a, b \in Keys : Ahead(e, a, b) => Ahead(d, a, b)
  BY <1>4 DEF Without
<1>9. ASSUME NEW x \in Keys, Has(e, x)
      PROVE  /\ Has(c, x)
             /\ e.items[x].size = c.items[x].size /\ e.items[x].left = c.items[x].left
             /\ e.items[x].freq = c.items[x].freq /\ e.items[x].seq = c.items[x].seq
  BY <1>7, <1>8, <1>9
<1>10. ASSUME NEW a \in Keys, NEW b \in Keys, Has(c, a), ~ Has(e, a), Has(e, b)
       PROVE  Sooner(c, a, b)
  <2>1. Has(d, b) /\ b # v
    BY <1>8, <1>10
  <2>2. CASE Has(d, a)
    <3>1. a = v /\ Sooner(d, a, b)
      BY <1>4, <1>8, <1>10, <2>1, <2>2
    <3> QED
      BY <1>7, <2>1, <2>2, <3>1 DEF Sooner, Lower
  <2>3. CASE ~ Has(d, a)
    BY <1>10, <2>1, <2>3 DEF EvictedFrom
  <2> QED
    BY <2>2, <2>3
<1>11. Has(c, v) /\ ~ Has(e, v) /\ e.total + c.items[v].size + size > MaxBytes
  <2>1. d.total + size > MaxBytes
    BY <1>1 DEF Full
  <2>2. d.items[v].size = c.items[v].size /\ d.items[v].size \in Nat /\ d.total \in Int
    BY <1>4, <1>5, <1>7, EntryType DEF Caches
  <2> QED
    BY <1>1, <1>4, <1>7, <1>8, <2>1, <2>2
<1>12. \E j \in Keys : Has(c, j) /\ ~ Has(e, j) /\ e.total + c.items[j].size + size > MaxBytes
  BY <1>11
<1>13. e.seq = c.seq /\ \A a, b \in Keys : Ahead(e, a, b) => Ahead(c, a, b)
  BY <1>7, <1>8
<1> QED
  BY <1>1, <1>4, <1>6, <1>8, <1>9, <1>10, <1>12, <1>13 DEF EvictedFrom

\* The rounds of EvictFor.
LEMMA EvictRuns ==
  ASSUME NEW c, NEW size, NEW N \in Nat, N = Rounds(c)
  PROVE  \E r : /\ r[0] = c /\ EvictFor(c, size) = r[N]
                /\ \A i \in 0 .. N - 1 : r[i + 1] = EvictStep(r[i], size)
<1> DEFINE Runs(r, n) == r = [i \in 0 .. n |-> IF i = 0 THEN c ELSE EvictStep(r[i - 1], size)]
           T == {n \in Nat : \E r : Runs(r, n)}
<1>1. 0 \in T
  <2>1. Runs([i \in 0 .. 0 |-> c], 0)
    OBVIOUS
  <2> QED
    BY <2>1
<1>2. ASSUME NEW n \in Nat, n \in T PROVE n + 1 \in T
  <2>1. PICK r : Runs(r, n)
    BY <1>2
  <2> DEFINE q == [i \in 0 .. n + 1 |-> IF i <= n THEN r[i] ELSE EvictStep(r[n], size)]
  <2>2. Runs(q, n + 1)
    BY <2>1
  <2>3. \E x : Runs(x, n + 1)
    BY <2>2
  <2> QED
    BY <2>3
<1>3. N \in T
  BY <1>1, <1>2, Induction
<1> DEFINE r == CHOOSE r : Runs(r, N)
<1>4. Runs(r, N)
  BY <1>3
<1>5. EvictFor(c, size) = r[N]
  BY DEF EvictFor, Repeat, Rounds
<1> HIDE DEF r
<1>6. r[0] = c /\ \A i \in 0 .. N - 1 : r[i + 1] = EvictStep(r[i], size)
  BY <1>4
<1> QED
  BY <1>5, <1>6

\* A Cache is as large as its structure is.
LEMMA EmptyStructure ==
  ASSUME NEW c, Shaped(c)
  PROVE  /\ Rounds(c) \in Nat /\ Len(c.order) \in Nat /\ Len(c.heap) \in Nat
         /\ Rounds(c) = 0 => \A k \in Keys : ~ Has(c, k)
<1>1. Len(c.order) \in Nat /\ Len(c.heap) \in Nat
  BY ShapedType DEF Caches
<1>a. \A a, b \in Nat : a + b \in Nat /\ (a + b = 0 => a = 0 /\ b = 0)
  OBVIOUS
<1>2. ASSUME NEW k \in Keys, Has(c, k) PROVE Len(c.order) > 0 \/ Len(c.heap) > 0
  <2>1. CASE policy = "lfu"
    <3>1. c.items[k].heapIdx \in 1 .. Len(c.heap)
      BY <1>2, <2>1 DEF Shaped, LFUState, HeapState, Indexed
    <3> QED
      BY <1>1, <3>1
  <2>2. CASE policy # "lfu"
    <3>1. \E p \in 1 .. Len(c.order) : c.order[p] = k
      BY <1>2, <2>2 DEF Shaped, ListState
    <3> QED
      BY <1>1, <3>1
  <2> QED
    BY <2>1, <2>2
<1>3. Rounds(c) \in Nat
  BY <1>1, <1>a, Zenon DEF Rounds
<1>4. Rounds(c) = 0 => \A k \in Keys : ~ Has(c, k)
  <2>1. Rounds(c) = 0 => Len(c.order) = 0 /\ Len(c.heap) = 0
    BY <1>1, <1>a, Zenon DEF Rounds
  <2> QED
    BY <1>2, <2>1
<1> QED
  BY <1>1, <1>3, <1>4

\* EvictFor makes room, and no more of it than it has to.
LEMMA EvictForEvicts ==
  ASSUME NEW c, Shaped(c), Counted(c), NEW size \in Nat, NEW e, e = EvictFor(c, size)
  PROVE  EvictedFrom(c, e, size) /\ Room(e, size)
<1> DEFINE N == Rounds(c)
<1>1. N \in Nat /\ c \in Caches
  BY EmptyStructure, ShapedType
<1>a. N = Rounds(c)
  OBVIOUS
<1> HIDE DEF N
<1>2. PICK r : /\ r[0] = c /\ EvictFor(c, size) = r[N]
               /\ \A i \in 0 .. N - 1 : r[i + 1] = EvictStep(r[i], size)
  BY <1>1, <1>a, EvictRuns
<1> DEFINE OK(i) == /\ EvictedFrom(c, r[i], size)
                    /\ Room(r[i], size) \/ Rounds(r[i]) <= N - i
           T == {i \in Nat : i <= N => OK(i)}
<1> HIDE DEF OK
<1>3. 0 \in T
  <2>1. EvictedFrom(c, c, size)
    BY DEF EvictedFrom
  <2>2. Rounds(c) <= N - 0
    BY <1>1, <1>a
  <2>3. OK(0)
    BY <1>2, <2>1, <2>2 DEF OK
  <2> QED
    BY <2>3
<1>4. ASSUME NEW i \in Nat, i \in T PROVE i + 1 \in T
  <2> SUFFICES ASSUME i + 1 <= N PROVE OK(i + 1)
    OBVIOUS
  <2>1. r[i + 1] = EvictStep(r[i], size) /\ OK(i)
    BY <1>1, <1>2, <1>4
  <2>2. EvictedFrom(c, r[i], size)
    BY <2>1 DEF OK
  <2>3. CASE Room(r[i], size)
    <3>1. r[i + 1] = r[i]
      BY <2>1, <2>3, Limits DEF Room, EvictStep
    <3> QED
      BY <2>2, <2>3, <3>1 DEF OK
  <2>4. CASE ~ Room(r[i], size)
    <3>1. /\ EvictedFrom(c, r[i + 1], size)
          /\ Rounds(r[i + 1]) = Rounds(r[i]) - 1
      BY <1>1, <2>1, <2>2, <2>4, EvictsOne
    <3>2. Rounds(r[i]) <= N - i
      BY <2>1, <2>4 DEF OK
    <3>3. Rounds(r[i]) \in Nat
      BY <2>2, EmptyStructure DEF EvictedFrom
    <3>4. Rounds(r[i + 1]) <= N - (i + 1)
      BY <1>1, <3>1, <3>2, <3>3
    <3> QED
      BY <3>1, <3>4 DEF OK
  <2> QED
    BY <2>3, <2>4
<1>5. OK(N)
  <2>1. N \in T
    BY <1>1, <1>3, <1>4, Induction
  <2> QED
    BY <1>1, <2>1
<1>6. e = r[N]
  BY <1>2
<1>7. EvictedFrom(c, e, size) /\ (Room(e, size) \/ Rounds(e) <= N - N)
  BY <1>5, <1>6 DEF OK
<1>8. Room(e, size)
  <2>1. ASSUME Rounds(e) <= N - N PROVE Room(e, size)
    <3>1. Rounds(e) \in Nat
      BY <1>7, EmptyStructure DEF EvictedFrom
    <3>a. Rounds(e) = 0
      BY <1>1, <2>1, <3>1
    <3>2. \A k \in Keys : ~ Has(e, k)
      BY <1>7, <3>a, EmptyStructure DEF EvictedFrom
    <3> QED
      BY <3>2 DEF Room
  <2> QED
    BY <1>7, <2>1
<1> QED
  BY <1>7, <1>8

-----------------------------------------------------------------------------
(* Changes of entries. *)

\* The list and the heap, the keys and what orders them are the same.
SameShape(c, d) ==
  /\ d \in Caches /\ d.order = c.order /\ d.heap = c.heap /\ d.seq = c.seq
  /\ \A x \in Keys : Has(d, x) <=> Has(c, x)
  /\ \A x \in Keys : Has(c, x) =>
       /\ d.items[x].freq = c.items[x].freq /\ d.items[x].seq = c.items[x].seq
       /\ d.items[x].heapIdx = c.items[x].heapIdx

\* What the shape depends on is the same, and so is the shape.
LEMMA SameShapeHolds ==
  ASSUME NEW c, Shaped(c), NEW d, SameShape(c, d)
  PROVE  Shaped(d) /\ \A a, b \in Keys : Ahead(d, a, b) <=> Ahead(c, a, b)
<1>1. /\ d \in Caches /\ d.order = c.order /\ d.heap = c.heap /\ d.seq = c.seq
      /\ \A x \in Keys : Has(d, x) <=> Has(c, x)
      /\ \A x \in Keys : Has(c, x) =>
           /\ d.items[x].freq = c.items[x].freq /\ d.items[x].seq = c.items[x].seq
           /\ d.items[x].heapIdx = c.items[x].heapIdx
  BY DEF SameShape
<1>2. CASE policy = "lfu"
  <2>1. LFUState(c) /\ HeapState(c)
    BY <1>2 DEF Shaped, LFUState
  <2>2. \A p \in 1 .. Len(c.heap) : c.heap[p] \in Keys /\ Has(c, c.heap[p])
    BY <2>1, HeapType
  <2>3. Indexed(d)
    <3>1. \A p \in 1 .. Len(d.heap) : Has(d, d.heap[p]) /\ d.items[d.heap[p]].heapIdx = p
      BY <1>1, <2>1, <2>2 DEF HeapState, Indexed
    <3>2. ASSUME NEW x \in Keys, Has(d, x), d.items[x].heapIdx # 0
          PROVE  d.items[x].heapIdx \in 1 .. Len(d.heap) /\ d.heap[d.items[x].heapIdx] = x
      <4>1. Has(c, x) /\ d.items[x].heapIdx = c.items[x].heapIdx
        BY <1>1, <3>2
      <4> QED
        BY <1>1, <2>1, <3>2, <4>1 DEF HeapState, Indexed
    <3> QED
      BY <3>1, <3>2 DEF Indexed
  <2>4. Distinct(d)
    BY <1>1, <2>1 DEF HeapState, Distinct
  <2>5. \A a, b \in Keys : Has(c, a) /\ Has(c, b) => (Lower(d, a, b) <=> Lower(c, a, b))
    BY <1>1 DEF Lower
  <2>6. Ordered(d, Len(d.heap))
    <3>1. ASSUME NEW i \in 2 .. Len(d.heap) PROVE InOrder(d, i)
      <4>1. i \in 2 .. Len(c.heap) /\ i \in 1 .. Len(c.heap) /\ i \div 2 \in 1 .. Len(c.heap)
        <5>1. Len(c.heap) \in Nat
          BY <2>1, HeapType
        <5> QED
          BY <1>1, <3>1, <5>1, Halves
      <4>2. Lower(c, c.heap[i \div 2], c.heap[i])
        BY <2>1, <4>1 DEF LFUState, Ordered, InOrder
      <4> QED
        BY <1>1, <2>2, <2>5, <4>1, <4>2 DEF InOrder
    <3> QED
      BY <3>1 DEF Ordered
  <2>7. HeapState(d)
    BY <1>1, <2>3, <2>4 DEF HeapState
  <2>8. d.order = <<>> /\ \A x \in Keys : Has(d, x) => d.items[x].heapIdx # 0 /\ d.items[x].seq <= d.seq
    BY <1>1, <2>1 DEF LFUState
  <2>9. LFUState(d)
    BY <2>6, <2>7, <2>8 DEF LFUState
  <2> QED
    BY <1>1, <1>2, <2>9 DEF Shaped, Ahead
<1>3. CASE policy # "lfu"
  <2>1. ListState(c)
    BY <1>3 DEF Shaped
  <2>2. c.order \in Seq(Keys) /\ \A p \in 1 .. Len(c.order) : c.order[p] \in Keys
    BY <2>1 DEF ListState, Caches
  <2>3. ListState(d)
    BY <1>1, <2>1, <2>2 DEF ListState
  <2> QED
    BY <1>1, <1>3, <2>3 DEF Shaped, Ahead
<1> QED
  BY <1>2, <1>3

\* An entry that changes nothing but a number or its expiry.
SetEntry(c, k, e, t) == [c EXCEPT !.items = [@ EXCEPT ![k] = e], !.total = t]

\* What SetEntry does to each part of a Cache.
LEMMA SetEntrySets ==
  ASSUME NEW c \in Caches, NEW k \in Keys, Has(c, k), NEW e \in Entries, NEW t \in Int,
         NEW d, d = SetEntry(c, k, e, t)
  PROVE  /\ d \in Caches /\ d.total = t /\ d.order = c.order /\ d.heap = c.heap /\ d.seq = c.seq
         /\ \A x \in Keys : Has(d, x) <=> Has(c, x)
         /\ d.items[k] = e /\ \A x \in Keys : x # k => d.items[x] = c.items[x]
<1> DEFINE its == [c.items EXCEPT ![k] = e]
<1>1. c.items \in [Keys -> Entries \cup {None}]
  BY DEF Caches
<1>2. its \in [Keys -> Entries \cup {None}] /\ its[k] = e /\ \A x \in Keys : x # k => its[x] = c.items[x]
  BY <1>1
<1>3. d.items = its /\ d.total = t /\ d.order = c.order /\ d.heap = c.heap /\ d.seq = c.seq
      /\ d = [c EXCEPT !.items = its, !.total = t]
  BY DEF SetEntry, Caches
<1> HIDE DEF its
<1>4. d \in Caches
  BY <1>2, <1>3 DEF Caches
<1>5. \A x \in Keys : Has(d, x) <=> Has(c, x)
  <2>1. e # None
    BY EntryIsSome
  <2> QED
    BY <1>2, <1>3, <2>1 DEF Has
<1> QED
  BY <1>2, <1>3, <1>4, <1>5

\* A use of an entry: its size and expiry, and all of the others, stay.
Touched(c, d, k) ==
  /\ d.total = c.total /\ d.seq = c.seq
  /\ \A x \in Keys : Has(d, x) <=> Has(c, x)
  /\ \A x \in Keys : Has(c, x) =>
       /\ d.items[x].size = c.items[x].size /\ d.items[x].left = c.items[x].left
       /\ d.items[x].seq = c.items[x].seq
  /\ \A a, b \in Keys : Ahead(d, a, b) =>
       \/ policy # "lru" /\ Ahead(c, a, b)
       \/ policy = "lru" /\ a # k /\ (b = k \/ Ahead(c, a, b))

\* One more use of k makes the heap ready to let it down.
LEMMA UseCounts ==
  ASSUME NEW c, LFUState(c), NEW k \in Keys, Has(c, k), c.items[k].freq < MaxFreq,
         NEW e, e = [c.items[k] EXCEPT !.freq = @ + 1], NEW d, d = SetEntry(c, k, e, c.total)
  PROVE  /\ d \in Caches /\ d.total = c.total /\ d.order = c.order /\ d.heap = c.heap /\ d.seq = c.seq
         /\ \A x \in Keys : Has(d, x) <=> Has(c, x)
         /\ \A x \in Keys : Has(c, x) =>
              /\ d.items[x].size = c.items[x].size /\ d.items[x].left = c.items[x].left
              /\ d.items[x].seq = c.items[x].seq /\ d.items[x].heapIdx = c.items[x].heapIdx
         /\ DownReady(d, c.items[k].heapIdx, Len(c.heap))
<1> DEFINE i == c.items[k].heapIdx
           n == Len(c.heap)
<1>1. /\ c \in Caches /\ HeapState(c) /\ n \in Nat
      /\ \A p \in 1 .. n : c.heap[p] \in Keys /\ Has(c, c.heap[p])
  BY HeapType DEF LFUState, HeapState
<1>2. /\ c.items[k] \in Entries /\ c.items[k].freq \in 1 .. MaxFreq
  BY <1>1, EntryType DEF Entries
<1>3. /\ e \in Entries /\ e.size = c.items[k].size /\ e.left = c.items[k].left
      /\ e.seq = c.items[k].seq /\ e.heapIdx = c.items[k].heapIdx
  <2>1. c.items[k].freq + 1 \in 1 .. MaxFreq
    BY <1>2, BoundsAssumption
  <2> QED
    BY <1>2, <2>1 DEF Entries
<1>4. c.total \in Int /\ c.items \in [Keys -> Entries \cup {None}]
  BY <1>1 DEF Caches
<1>6. /\ d \in Caches /\ d.total = c.total /\ d.order = c.order /\ d.heap = c.heap /\ d.seq = c.seq
      /\ \A x \in Keys : Has(d, x) <=> Has(c, x)
      /\ d.items[k] = e /\ \A x \in Keys : x # k => d.items[x] = c.items[x]
  <2>1. e \in Entries /\ c.total \in Int
    BY <1>3, <1>4
  <2>2. /\ d \in Caches /\ d.total = c.total /\ d.order = c.order /\ d.heap = c.heap /\ d.seq = c.seq
        /\ d.items[k] = e /\ \A x \in Keys : x # k => d.items[x] = c.items[x]
    BY <1>1, <2>1, SetEntrySets
  <2>3. \A x \in Keys : Has(d, x) <=> Has(c, x)
    BY <2>1, <2>2, EntryIsSome DEF Has
  <2> QED
    BY <2>2, <2>3
<1>7. ASSUME NEW x \in Keys, Has(c, x)
      PROVE  /\ d.items[x].size = c.items[x].size /\ d.items[x].left = c.items[x].left
             /\ d.items[x].seq = c.items[x].seq /\ d.items[x].heapIdx = c.items[x].heapIdx
  <2>1. CASE x = k
    BY <1>3, <1>6, <2>1
  <2>2. CASE x # k
    BY <1>6, <2>2
  <2> QED
    BY <2>1, <2>2
<1>8. Indexed(d)
  <2>1. ASSUME NEW p \in 1 .. Len(d.heap) PROVE Has(d, d.heap[p]) /\ d.items[d.heap[p]].heapIdx = p
    <3>1. d.heap[p] = c.heap[p] /\ p \in 1 .. n /\ c.heap[p] \in Keys /\ Has(c, c.heap[p])
      BY <1>1, <1>6, <2>1
    <3>2. c.items[c.heap[p]].heapIdx = p
      BY <1>1, <3>1 DEF HeapState, Indexed
    <3> QED
      BY <1>6, <1>7, <3>1, <3>2
  <2>2. ASSUME NEW x \in Keys, Has(d, x), d.items[x].heapIdx # 0
        PROVE  d.items[x].heapIdx \in 1 .. Len(d.heap) /\ d.heap[d.items[x].heapIdx] = x
    <3>1. Has(c, x) /\ d.items[x].heapIdx = c.items[x].heapIdx
      BY <1>6, <1>7, <2>2
    <3>2. c.items[x].heapIdx \in 1 .. Len(c.heap) /\ c.heap[c.items[x].heapIdx] = x
      BY <1>1, <2>2, <3>1 DEF HeapState, Indexed
    <3> QED
      BY <1>6, <3>1, <3>2
  <2> QED
    BY <2>1, <2>2 DEF Indexed
<1>9. Distinct(d)
  <2>1. ASSUME NEW a \in Keys, NEW b \in Keys, Has(d, a), Has(d, b), a # b
        PROVE  d.items[a].seq # d.items[b].seq
    <3>1. Has(c, a) /\ Has(c, b) /\ d.items[a].seq = c.items[a].seq /\ d.items[b].seq = c.items[b].seq
      BY <1>6, <1>7, <2>1
    <3> QED
      BY <1>1, <2>1, <3>1 DEF HeapState, Distinct
  <2> QED
    BY <2>1 DEF Distinct
<1>10. HeapState(d)
  BY <1>6, <1>8, <1>9 DEF HeapState
<1>11. i \in 1 .. n /\ c.heap[i] = k
  BY <1>1 DEF LFUState, HeapState, Indexed
<1>12. \A p \in 1 .. n : p # i => c.heap[p] # k /\ d.items[c.heap[p]] = c.items[c.heap[p]]
  BY <1>1, <1>6, <1>11, HeapInjective
<1> HIDE DEF i
<1>13. \A p, q \in 1 .. n : p # i /\ q # i => (Lower(d, c.heap[p], c.heap[q]) <=> Lower(c, c.heap[p], c.heap[q]))
  BY <1>12 DEF Lower
<1>14. \A m \in 2 .. n : m \in 1 .. n /\ m \div 2 \in 1 .. n /\ Lower(c, c.heap[m \div 2], c.heap[m])
  <2>1. \A m \in 2 .. n : m \in 1 .. n /\ m \div 2 \in 1 .. n
    BY <1>1, Halves
  <2>2. \A m \in 2 .. n : Lower(c, c.heap[m \div 2], c.heap[m])
    BY DEF LFUState, Ordered, InOrder
  <2> QED
    BY <2>1, <2>2
<1>15. ASSUME NEW m \in 2 .. n, m # i, m \div 2 # i PROVE InOrder(d, m)
  BY <1>6, <1>13, <1>14, <1>15 DEF InOrder
<1>16. ASSUME NEW m \in 2 .. n, m \div 2 = i, i >= 2 PROVE Lower(d, d.heap[i \div 2], d.heap[m])
  <2>1. i \in 2 .. n /\ m # i /\ i \div 2 # i
    <3>1. m \in Nat /\ i \in Nat
      BY <1>1, <1>11
    <3>2. m \div 2 < m /\ i \div 2 < i /\ i \div 2 \in Nat
      BY <1>1, <1>16, <3>1, Halves
    <3> QED
      BY <1>11, <1>16, <3>1, <3>2
  <2>2. i \div 2 \in 1 .. n /\ m \in 1 .. n
    BY <1>14, <2>1
  <2>3. Lower(c, c.heap[i \div 2], c.heap[i]) /\ Lower(c, c.heap[i], c.heap[m])
    BY <1>14, <1>16, <2>1
  <2>4. Lower(c, c.heap[i \div 2], c.heap[m])
    <3>1. c \in Caches /\ Distinct(c)
      BY <1>1 DEF HeapState
    <3> QED
      BY <1>1, <1>11, <2>2, <2>3, <3>1, LowerOrder
  <2> QED
    BY <1>6, <1>13, <2>1, <2>2, <2>4
<1>17. DownReady(d, i, n)
  <2>1. n \in 0 .. Len(d.heap) /\ i \in Nat /\ i >= 1
    BY <1>1, <1>6, <1>11
  <2> QED
    BY <1>10, <1>15, <1>16, <2>1 DEF DownReady
<1> QED
  BY <1>6, <1>7, <1>17 DEF i

\* LRU: the entry goes to the end of the list.
LEMMA ListMoves ==
  ASSUME NEW c, ListState(c), policy = "lru", NEW k \in Keys, Has(c, k),
         NEW d, d = [c EXCEPT !.order = Append(RemoveFirst(@, k), k)]
  PROVE  ListState(d) /\ Touched(c, d, k)
<1> DEFINE r == RemoveFirst(c.order, k)
           q == Append(r, k)
           s == c.order
<1>1. /\ c \in Caches /\ s \in Seq(Keys) /\ c.heap = <<>>
      /\ \A p, u \in 1 .. Len(s) : s[p] = s[u] => p = u
  BY DEF ListState, Caches
<1>2. PICK i \in 1 .. Len(s) : s[i] = k
  BY DEF ListState
<1>3. /\ r \in Seq(Keys) /\ Len(r) = Len(s) - 1 /\ Len(s) \in Nat
      /\ \A p \in 1 .. Len(r) : r[p] # k /\ \E u \in 1 .. Len(s) : r[p] = s[u]
      /\ \A p, u \in 1 .. Len(r) : r[p] = r[u] => p = u
      /\ \A u \in 1 .. Len(s) : s[u] # k => \E p \in 1 .. Len(r) : r[p] = s[u]
      /\ \A p, v \in 1 .. Len(r) : p < v =>
           \E u, w \in 1 .. Len(s) : u < w /\ s[u] = r[p] /\ s[w] = r[v]
  <2>1. Shorter(s, r, k)
    BY <1>1, <1>2, ListWithout
  <2> HIDE DEF r
  <2> QED
    BY <2>1 DEF Shorter
<1> HIDE DEF r
<1>4. /\ q \in Seq(Keys)
      /\ \A p \in 1 .. Len(q) : q[p] = k \/ \E u \in 1 .. Len(r) : q[p] = r[u]
      /\ \A p, u \in 1 .. Len(q) : q[p] = q[u] => p = u
      /\ \E p \in 1 .. Len(q) : q[p] = k
      /\ \A u \in 1 .. Len(r) : \E p \in 1 .. Len(q) : q[p] = r[u]
      /\ \A p, v \in 1 .. Len(q) : p < v =>
           /\ q[p] # k
           /\ q[v] = k \/ \E u, w \in 1 .. Len(r) : u < w /\ r[u] = q[p] /\ r[w] = q[v]
  <2>1. Longer(r, q, k)
    BY <1>3, ListWith
  <2> HIDE DEF q
  <2> QED
    BY <2>1 DEF Longer
<1>5. /\ d.items = c.items /\ d.total = c.total /\ d.order = q /\ d.heap = c.heap /\ d.seq = c.seq
      /\ d = [c EXCEPT !.order = q]
  BY <1>1 DEF Caches, r
<1> HIDE DEF q
<1>6. d \in Caches
  BY <1>1, <1>4, <1>5 DEF Caches
<1>7. \A x \in Keys : Has(d, x) <=> Has(c, x)
  BY <1>5 DEF Has
<1>8. ASSUME NEW p \in 1 .. Len(d.order) PROVE Has(d, d.order[p])
  <2>1. CASE q[p] = k
    BY <1>5, <1>7, <2>1
  <2>2. CASE q[p] # k
    <3>1. PICK u \in 1 .. Len(r) : q[p] = r[u]
      BY <1>4, <1>5, <1>8, <2>2
    <3>2. PICK w \in 1 .. Len(s) : r[u] = s[w]
      BY <1>3, <3>1
    <3>3. s[w] \in Keys /\ Has(c, s[w])
      BY <1>1, <3>2 DEF ListState
    <3> QED
      BY <1>5, <1>7, <3>1, <3>2, <3>3
  <2> QED
    BY <2>1, <2>2
<1>9. ASSUME NEW x \in Keys, Has(d, x) PROVE \E p \in 1 .. Len(d.order) : d.order[p] = x
  <2>1. CASE x = k
    BY <1>4, <1>5, <2>1
  <2>2. CASE x # k
    <3>1. PICK w \in 1 .. Len(s) : s[w] = x
      BY <1>7, <1>9 DEF ListState
    <3>2. PICK u \in 1 .. Len(r) : r[u] = x
      BY <1>3, <2>2, <3>1
    <3>3. \E p \in 1 .. Len(q) : q[p] = r[u]
      BY <1>4
    <3> QED
      BY <1>5, <3>2, <3>3
  <2> QED
    BY <2>1, <2>2
<1>10. \A p, u \in 1 .. Len(d.order) : d.order[p] = d.order[u] => p = u
  BY <1>4, <1>5
<1>11. d.heap = <<>> /\ \A x \in Keys : Has(d, x) => d.items[x].heapIdx = 0
  BY <1>1, <1>5, <1>7 DEF ListState
<1>12. ListState(d)
  BY <1>6, <1>8, <1>9, <1>10, <1>11 DEF ListState
<1>13. ASSUME NEW a \in Keys, NEW b \in Keys, Ahead(d, a, b)
       PROVE  a # k /\ (b = k \/ Ahead(c, a, b))
  <2>1. PICK p \in 1 .. Len(q), v \in 1 .. Len(q) : p < v /\ q[p] = a /\ q[v] = b
    BY <1>5, <1>13 DEF Ahead
  <2>2. a # k /\ (b = k \/ \E u, w \in 1 .. Len(r) : u < w /\ r[u] = a /\ r[w] = b)
    <3>1. /\ q[p] # k
          /\ q[v] = k \/ \E u, w \in 1 .. Len(r) : u < w /\ r[u] = q[p] /\ r[w] = q[v]
      BY <1>4, <2>1
    <3> QED
      BY <2>1, <3>1
  <2>3. ASSUME NEW u \in 1 .. Len(r), NEW w \in 1 .. Len(r), u < w, r[u] = a, r[w] = b
        PROVE  Ahead(c, a, b)
    <3>1. \E m, n \in 1 .. Len(s) : m < n /\ s[m] = r[u] /\ s[n] = r[w]
      BY <1>3, <2>3
    <3> QED
      BY <2>3, <3>1 DEF Ahead
  <2> QED
    BY <2>2, <2>3
<1>14. Touched(c, d, k)
  BY <1>5, <1>7, <1>13 DEF Touched
<1> QED
  BY <1>12, <1>14

\* LFU: the entry finds its new place in the heap.
LEMMA LFUUses ==
  ASSUME NEW c, LFUState(c), policy = "lfu", NEW k \in Keys, Has(c, k),
         c.items[k].freq < MaxFreq, NEW d, d = Touch(c, k)
  PROVE  LFUState(d) /\ Touched(c, d, k)
<1> DEFINE e == [c.items[k] EXCEPT !.freq = @ + 1]
           x == SetEntry(c, k, e, c.total)
           i == c.items[k].heapIdx
           n == Len(c.heap)
<1>1. c \in Caches /\ c.order = <<>> /\ c.total \in Int /\ c.items \in [Keys -> Entries \cup {None}]
  BY DEF LFUState, HeapState, Caches
<1>2. x = [c EXCEPT !.items[k].freq = @ + 1]
  BY <1>1 DEF SetEntry, Caches
<1>3. n \in Nat /\ i \in 1 .. n
  BY HeapType DEF LFUState, HeapState, Indexed
<1>e. e = [c.items[k] EXCEPT !.freq = @ + 1] /\ x = SetEntry(c, k, e, c.total)
  OBVIOUS
<1> HIDE DEF e, x
<1>4. /\ x \in Caches /\ x.total = c.total /\ x.order = c.order /\ x.heap = c.heap /\ x.seq = c.seq
      /\ \A y \in Keys : Has(x, y) <=> Has(c, y)
      /\ \A y \in Keys : Has(c, y) =>
           /\ x.items[y].size = c.items[y].size /\ x.items[y].left = c.items[y].left
           /\ x.items[y].seq = c.items[y].seq /\ x.items[y].heapIdx = c.items[y].heapIdx
      /\ DownReady(x, i, n)
  BY <1>e, UseCounts
<1>5. d = Sift(x, i, n)
  <2>1. x.items[k].heapIdx = i /\ i > 0 /\ Len(x.heap) = n
    BY <1>3, <1>4
  <2> QED
    BY <1>2, <2>1 DEF Touch
<1> HIDE DEF i, n
<1>6. HeapState(d) /\ Permuted(x, d, n) /\ Ordered(d, n)
  <2>1. i <= n
    BY <1>3
  <2> QED
    BY <1>4, <1>5, <2>1, SiftHeaps
<1>7. /\ d.total = x.total /\ d.order = x.order /\ d.seq = x.seq
      /\ \A y \in Keys : Has(d, y) <=> Has(x, y)
      /\ \A y \in Keys : Has(x, y) =>
           /\ d.items[y].size = x.items[y].size /\ d.items[y].left = x.items[y].left
           /\ d.items[y].seq = x.items[y].seq
           /\ d.items[y].heapIdx = 0 <=> x.items[y].heapIdx = 0
      /\ Len(d.heap) = n
  BY <1>4, <1>6 DEF Permuted, Alike, n
<1>8. ASSUME NEW y \in Keys, Has(d, y) PROVE d.items[y].heapIdx # 0 /\ d.items[y].seq <= d.seq
  <2>1. Has(c, y) /\ c.items[y].heapIdx # 0 /\ c.items[y].seq <= c.seq
    BY <1>4, <1>7, <1>8 DEF LFUState
  <2> QED
    BY <1>4, <1>7, <2>1
<1>9. LFUState(d)
  BY <1>1, <1>4, <1>6, <1>7, <1>8 DEF LFUState
<1>10. \A a, b \in Keys : ~ Ahead(d, a, b)
  BY <1>1, <1>4, <1>7 DEF Ahead
<1>11. Touched(c, d, k)
  BY <1>4, <1>7, <1>10 DEF Touched
<1> QED
  BY <1>9, <1>11

\* Touch, under each policy.
LEMMA Touches ==
  ASSUME NEW c, Shaped(c), NEW k \in Keys, Has(c, k),
         policy = "lfu" => c.items[k].freq < MaxFreq, NEW d, d = Touch(c, k)
  PROVE  Shaped(d) /\ Touched(c, d, k)
<1>1. CASE policy = "lfu"
  BY <1>1, LFUUses DEF Shaped
<1>2. CASE policy = "lru"
  <2>1. d = [c EXCEPT !.order = Append(RemoveFirst(@, k), k)]
    BY <1>2 DEF Touch
  <2>2. ListState(c)
    BY <1>2 DEF Shaped
  <2> QED
    BY <1>2, <2>1, <2>2, ListMoves DEF Shaped
<1>3. CASE policy # "lfu" /\ policy # "lru"
  <2>1. d = c
    BY <1>3 DEF Touch
  <2> QED
    BY <1>3, <2>1 DEF Touched
<1> QED
  BY <1>1, <1>2, <1>3

\* The total is right where neither it nor a size changes.
LEMMA SameBytes ==
  ASSUME NEW c, NEW d, Counted(c), d.total = c.total,
         \A x \in Keys : Has(d, x) <=> Has(c, x),
         \A x \in Keys : Has(c, x) => d.items[x].size = c.items[x].size
  PROVE  Counted(d)
<1>1. Held(d) = Held(c) /\ \A x \in Held(c) : d.items[x].size = c.items[x].size
  BY DEF Held
<1>2. BytesOf(d) = BytesOf(c)
  BY <1>1 DEF BytesOf
<1> QED
  BY <1>2 DEF Counted

\* Another size and expiry.
Renewed(c, k, size, ttl) ==
  SetEntry(c, k, [c.items[k] EXCEPT !.size = size, !.left = ttl], c.total + size - c.items[k].size)

\* d has the keys of c, in the same order.
SameOrder(c, d) ==
  /\ \A x \in Keys : Has(d, x) <=> Has(c, x)
  /\ \A x \in Keys : Has(c, x) => d.items[x].seq = c.items[x].seq
  /\ \A x \in Keys : Has(c, x) => d.items[x].freq = c.items[x].freq
  /\ \A a, b \in Keys : Ahead(d, a, b) <=> Ahead(c, a, b)

\* A replacement, before its use of the entry.
LEMMA Renews ==
  ASSUME NEW c, Shaped(c), Counted(c), NEW k \in Keys, Has(c, k), NEW size \in Nat, NEW ttl \in Int,
         NEW d, d = Renewed(c, k, size, ttl)
  PROVE  Shaped(d) /\ Counted(d) /\ SameOrder(c, d)
<1> DEFINE e == [c.items[k] EXCEPT !.size = size, !.left = ttl]
           t == c.total + size - c.items[k].size
<1>1. c \in Caches /\ c.total \in Int
  BY ShapedType DEF Caches
<1>2. c.items[k] \in Entries /\ c.items[k].size \in Nat
  BY <1>1, EntryType
<1>3. /\ e \in Entries /\ e.size = size /\ e.freq = c.items[k].freq /\ e.seq = c.items[k].seq
      /\ e.heapIdx = c.items[k].heapIdx
  BY <1>2 DEF Entries
<1>4. t \in Int
  BY <1>1, <1>2
<1>5. d = SetEntry(c, k, e, t)
  BY DEF Renewed
<1>t. t = c.total + size - c.items[k].size
  OBVIOUS
<1> HIDE DEF e, t
<1>6. /\ d \in Caches /\ d.total = t /\ d.order = c.order /\ d.heap = c.heap /\ d.seq = c.seq
      /\ d.items[k] = e /\ \A x \in Keys : x # k => d.items[x] = c.items[x]
  BY <1>1, <1>3, <1>4, <1>5, SetEntrySets
<1>7. \A x \in Keys : Has(d, x) <=> Has(c, x)
  BY <1>3, <1>6, EntryIsSome DEF Has
<1>8. ASSUME NEW x \in Keys, Has(c, x)
      PROVE  /\ d.items[x].freq = c.items[x].freq /\ d.items[x].seq = c.items[x].seq
             /\ d.items[x].heapIdx = c.items[x].heapIdx
  <2>1. CASE x = k
    BY <1>3, <1>6, <2>1
  <2>2. CASE x # k
    BY <1>6, <2>2
  <2> QED
    BY <2>1, <2>2
<1>9. SameShape(c, d)
  BY <1>6, <1>7, <1>8 DEF SameShape
<1>10. Shaped(d) /\ \A a, b \in Keys : Ahead(d, a, b) <=> Ahead(c, a, b)
  BY <1>9, SameShapeHolds
<1>11. Counted(d)
  <2>1. d.total = c.total + (IF Has(d, k) THEN d.items[k].size ELSE 0)
                          - (IF Has(c, k) THEN c.items[k].size ELSE 0)
    BY <1>3, <1>6, <1>7, <1>t
  <2>2. \A x \in Keys : x # k /\ Has(c, x) => d.items[x].size = c.items[x].size
    BY <1>6
  <2> QED
    BY <1>1, <1>6, <1>7, <2>1, <2>2, Recount
<1> QED
  BY <1>7, <1>8, <1>10, <1>11 DEF SameOrder

-----------------------------------------------------------------------------
(* Insertion. *)

\* d is c with k, as the last to have come.
With(c, d, k, size) ==
  /\ \A x \in Keys : Has(d, x) <=> Has(c, x) \/ x = k
  /\ \A x \in Keys : Has(c, x) =>
       /\ d.items[x].size = c.items[x].size
       /\ d.items[x].seq = c.items[x].seq
       /\ policy = "lfu" => d.items[x].seq < d.items[k].seq
  /\ d.items[k].size = size /\ d.total = c.total + size
  /\ \A a, b \in Keys : Ahead(d, a, b) => a # k /\ (b = k \/ Ahead(c, a, b))

\* The entry is in the map, and in no structure yet.
Placed(c, k, e, o, n) ==
  [c EXCEPT !.items = [@ EXCEPT ![k] = e], !.total = @ + e.size, !.order = o, !.seq = n]

\* What Placed does to each part of a Cache.
LEMMA Places ==
  ASSUME NEW c \in Caches, NEW k \in Keys, ~ Has(c, k), NEW e \in Entries, NEW o \in Seq(Keys),
         NEW n \in 0 .. MaxSeq, NEW d, d = Placed(c, k, e, o, n)
  PROVE  /\ d \in Caches /\ d.total = c.total + e.size /\ d.order = o /\ d.heap = c.heap /\ d.seq = n
         /\ d.items[k] = e /\ \A x \in Keys : x # k => d.items[x] = c.items[x]
<1> DEFINE its == [c.items EXCEPT ![k] = e]
<1>1. c.items \in [Keys -> Entries \cup {None}] /\ c.total \in Int /\ e.size \in Nat
  BY DEF Caches, Entries
<1>2. /\ its \in [Keys -> Entries \cup {None}] /\ its[k] = e
      /\ \A x \in Keys : x # k => its[x] = c.items[x]
  BY <1>1
<1>3. /\ d.items = its /\ d.total = c.total + e.size /\ d.order = o /\ d.heap = c.heap /\ d.seq = n
      /\ d = [c EXCEPT !.items = its, !.total = c.total + e.size, !.order = o, !.seq = n]
  BY DEF Placed, Caches
<1>4. c.total + e.size \in Int
  BY <1>1
<1> HIDE DEF its
<1>5. d \in Caches
  BY <1>2, <1>3, <1>4 DEF Caches
<1> QED
  BY <1>2, <1>3, <1>5

\* FIFO and LRU: a new entry is the last of the list.
LEMMA ListInserts ==
  ASSUME NEW c, ListState(c), policy # "lfu", NEW k \in Keys, ~ Has(c, k),
         NEW size \in Nat, NEW ttl \in Int,
         NEW e, e = [size |-> size, left |-> ttl, freq |-> 1, seq |-> 0, heapIdx |-> 0],
         NEW d, d = Placed(c, k, e, Append(c.order, k), c.seq)
  PROVE  ListState(d) /\ With(c, d, k, size)
<1> DEFINE s == c.order
           q == Append(s, k)
<1>1. /\ c \in Caches /\ s \in Seq(Keys) /\ c.heap = <<>> /\ c.seq \in 0 .. MaxSeq
      /\ \A p, u \in 1 .. Len(s) : s[p] = s[u] => p = u
  BY DEF ListState, Caches
<1>2. \A p \in 1 .. Len(s) : s[p] # k
  BY DEF ListState
<1>3. /\ q \in Seq(Keys)
      /\ \A p \in 1 .. Len(q) : q[p] = k \/ \E u \in 1 .. Len(s) : q[p] = s[u]
      /\ \A p, u \in 1 .. Len(q) : q[p] = q[u] => p = u
      /\ \E p \in 1 .. Len(q) : q[p] = k
      /\ \A u \in 1 .. Len(s) : \E p \in 1 .. Len(q) : q[p] = s[u]
      /\ \A p, v \in 1 .. Len(q) : p < v =>
           /\ q[p] # k
           /\ q[v] = k \/ \E u, w \in 1 .. Len(s) : u < w /\ s[u] = q[p] /\ s[w] = q[v]
  <2>1. Longer(s, q, k)
    BY <1>1, <1>2, ListWith
  <2> HIDE DEF q
  <2> QED
    BY <2>1 DEF Longer
<1>4. e \in Entries /\ e.size = size /\ e.heapIdx = 0
  BY BoundsAssumption DEF Entries
<1>5. d = Placed(c, k, e, q, c.seq)
  OBVIOUS
<1> HIDE DEF q
<1>6. /\ d \in Caches /\ d.total = c.total + e.size /\ d.order = q /\ d.heap = c.heap
      /\ d.items[k] = e /\ \A x \in Keys : x # k => d.items[x] = c.items[x]
  BY <1>1, <1>3, <1>4, <1>5, Places
<1>7. \A x \in Keys : Has(d, x) <=> Has(c, x) \/ x = k
  <2>1. e # None
    BY <1>4, EntryIsSome
  <2>2. d.items[k] = e /\ \A x \in Keys : x # k => d.items[x] = c.items[x]
    BY <1>6
  <2> QED
    BY <2>1, <2>2 DEF Has
<1>8. ASSUME NEW p \in 1 .. Len(d.order) PROVE Has(d, d.order[p])
  <2>1. CASE q[p] = k
    BY <1>6, <1>7, <2>1
  <2>2. CASE q[p] # k
    <3>1. PICK u \in 1 .. Len(s) : q[p] = s[u]
      <4>1. p \in 1 .. Len(q)
        BY <1>6, <1>8
      <4> QED
        BY <1>3, <2>2, <4>1
    <3>2. s[u] \in Keys /\ Has(c, s[u])
      BY <1>1, <3>1 DEF ListState
    <3> QED
      BY <1>6, <1>7, <3>1, <3>2
  <2> QED
    BY <2>1, <2>2
<1>9. ASSUME NEW x \in Keys, Has(d, x) PROVE \E p \in 1 .. Len(d.order) : d.order[p] = x
  <2>1. CASE x = k
    BY <1>3, <1>6, <2>1
  <2>2. CASE x # k
    <3>1. PICK u \in 1 .. Len(s) : s[u] = x
      BY <1>7, <1>9, <2>2 DEF ListState
    <3> QED
      BY <1>3, <1>6, <3>1
  <2> QED
    BY <2>1, <2>2
<1>10. \A p, u \in 1 .. Len(d.order) : d.order[p] = d.order[u] => p = u
  BY <1>3, <1>6
<1>11. ASSUME NEW x \in Keys, Has(d, x) PROVE d.items[x].heapIdx = 0
  <2>1. CASE x = k
    BY <1>4, <1>6, <2>1
  <2>2. CASE x # k
    BY <1>6, <1>7, <1>11, <2>2 DEF ListState
  <2> QED
    BY <2>1, <2>2
<1>12. ListState(d)
  BY <1>1, <1>6, <1>8, <1>9, <1>10, <1>11 DEF ListState
<1>13. ASSUME NEW a \in Keys, NEW b \in Keys, Ahead(d, a, b)
       PROVE  a # k /\ (b = k \/ Ahead(c, a, b))
  <2>1. PICK p \in 1 .. Len(q), v \in 1 .. Len(q) : p < v /\ q[p] = a /\ q[v] = b
    BY <1>6, <1>13 DEF Ahead
  <2>2. /\ q[p] # k
        /\ q[v] = k \/ \E u, w \in 1 .. Len(s) : u < w /\ s[u] = q[p] /\ s[w] = q[v]
    BY <1>3, <2>1
  <2> QED
    BY <2>1, <2>2 DEF Ahead
<1>14. \A x \in Keys : Has(c, x) => x # k /\ d.items[x] = c.items[x]
  BY <1>6
<1>15. With(c, d, k, size)
  BY <1>4, <1>6, <1>7, <1>13, <1>14 DEF With
<1> QED
  BY <1>12, <1>15

\* LFU: a new entry is in the heap, and later than all others.
LEMMA LFUInserts ==
  ASSUME NEW c, LFUState(c), policy = "lfu", NEW k \in Keys, ~ Has(c, k),
         NEW size \in Nat, NEW ttl \in Int, NEW n \in 0 .. MaxSeq, n = c.seq + 1,
         NEW e, e = [size |-> size, left |-> ttl, freq |-> 1, seq |-> n, heapIdx |-> 0],
         NEW x, x = Placed(c, k, e, c.order, n), NEW d, d = HeapPush(x, k)
  PROVE  LFUState(d) /\ With(c, d, k, size)
<1>1. /\ c \in Caches /\ HeapState(c) /\ c.order = <<>> /\ c.order \in Seq(Keys)
      /\ c.seq \in 0 .. MaxSeq /\ Len(c.heap) \in Nat
      /\ \A p \in 1 .. Len(c.heap) : c.heap[p] \in Keys /\ Has(c, c.heap[p])
  BY HeapType DEF LFUState, HeapState, Caches
<1>2. c.seq + 1 \in 0 .. MaxSeq /\ c.seq \in Nat
  BY <1>1, BoundsAssumption
<1>3. e \in Entries /\ e.size = size /\ e.seq = c.seq + 1 /\ e.heapIdx = 0
  BY <1>2, BoundsAssumption DEF Entries
<1>4. /\ x \in Caches /\ x.total = c.total + e.size /\ x.order = c.order /\ x.heap = c.heap
      /\ x.seq = c.seq + 1 /\ x.items[k] = e /\ \A y \in Keys : y # k => x.items[y] = c.items[y]
  <2>1. /\ x \in Caches /\ x.total = c.total + e.size /\ x.order = c.order /\ x.heap = c.heap
        /\ x.seq = n /\ x.items[k] = e /\ \A y \in Keys : y # k => x.items[y] = c.items[y]
    <3>1. c \in Caches /\ c.order \in Seq(Keys) /\ e \in Entries
      BY <1>1, <1>3
    <3>2. x \in Caches
      BY <3>1, Places
    <3>3. x.total = c.total + e.size
      BY <3>1, Places
    <3>4. x.order = c.order /\ x.heap = c.heap
      BY <3>1, Places
    <3>5. x.seq = n
      BY <3>1, Places
    <3>6. x.items[k] = e /\ \A y \in Keys : y # k => x.items[y] = c.items[y]
      BY <3>1, Places
    <3> QED
      BY <3>2, <3>3, <3>4, <3>5, <3>6
  <2> QED
    BY <2>1
<1>5. \A y \in Keys : Has(x, y) <=> Has(c, y) \/ y = k
  BY <1>3, <1>4, EntryIsSome DEF Has
<1>6. \A y \in Keys : Has(c, y) => y # k /\ x.items[y] = c.items[y] /\ Has(x, y)
  BY <1>4, <1>5
<1>7. ASSUME NEW y \in Keys, Has(c, y)
      PROVE  c.items[y].heapIdx # 0 /\ c.items[y].seq \in Nat /\ c.items[y].seq < c.seq + 1
  <2>1. c.items[y].heapIdx # 0 /\ c.items[y].seq <= c.seq /\ c.items[y].seq \in Nat
    BY <1>1, <1>7, EntryType DEF LFUState
  <2> QED
    BY <1>2, <2>1
<1>8. Indexed(x)
  <2>1. \A p \in 1 .. Len(x.heap) : Has(x, x.heap[p]) /\ x.items[x.heap[p]].heapIdx = p
    BY <1>1, <1>4, <1>6 DEF HeapState, Indexed
  <2>2. ASSUME NEW y \in Keys, Has(x, y), x.items[y].heapIdx # 0
        PROVE  x.items[y].heapIdx \in 1 .. Len(x.heap) /\ x.heap[x.items[y].heapIdx] = y
    <3>1. y # k
      BY <1>3, <1>4, <2>2
    <3>2. Has(c, y) /\ x.items[y] = c.items[y]
      BY <1>4, <1>5, <2>2, <3>1
    <3> QED
      BY <1>1, <1>4, <2>2, <3>2 DEF HeapState, Indexed
  <2> QED
    BY <2>1, <2>2 DEF Indexed
<1>9. Distinct(x)
  <2>1. ASSUME NEW a \in Keys, NEW b \in Keys, Has(x, a), Has(x, b), a # b
        PROVE  x.items[a].seq # x.items[b].seq
    <3>1. CASE a # k /\ b # k
      BY <1>1, <1>4, <1>5, <2>1, <3>1 DEF HeapState, Distinct
    <3>2. CASE a = k
      BY <1>2, <1>3, <1>4, <1>5, <1>6, <1>7, <2>1, <3>2
    <3>3. CASE b = k
      BY <1>2, <1>3, <1>4, <1>5, <1>6, <1>7, <2>1, <3>3
    <3> QED
      BY <3>1, <3>2, <3>3
  <2> QED
    BY <2>1 DEF Distinct
<1>10. HeapState(x)
  BY <1>4, <1>8, <1>9 DEF HeapState
<1>11. Ordered(x, Len(x.heap))
  <2>1. ASSUME NEW i \in 2 .. Len(x.heap) PROVE InOrder(x, i)
    <3>1. i \in 2 .. Len(c.heap) /\ i \in 1 .. Len(c.heap) /\ i \div 2 \in 1 .. Len(c.heap)
      BY <1>1, <1>4, <2>1, Halves
    <3>2. Lower(c, c.heap[i \div 2], c.heap[i])
      BY <3>1 DEF LFUState, Ordered, InOrder
    <3>3. x.items[c.heap[i]] = c.items[c.heap[i]] /\ x.items[c.heap[i \div 2]] = c.items[c.heap[i \div 2]]
      BY <1>1, <1>6, <3>1
    <3>4. Lower(x, c.heap[i \div 2], c.heap[i])
      BY <3>2, <3>3 DEF Lower
    <3> QED
      BY <1>4, <3>4 DEF InOrder
  <2> QED
    BY <2>1 DEF Ordered
<1>12. /\ HeapState(d) /\ Alike(x, d) /\ d.items[k].heapIdx # 0
       /\ \A y \in Keys : Has(x, y) /\ y # k => (d.items[y].heapIdx = 0 <=> x.items[y].heapIdx = 0)
       /\ Ordered(d, Len(d.heap))
  <2>1. Has(x, k) /\ x.items[k].heapIdx = 0
    BY <1>3, <1>4, <1>5
  <2> QED
    BY <1>10, <1>11, <2>1, HeapPushes
<1>13. /\ d.total = x.total /\ d.order = x.order /\ d.seq = x.seq
       /\ \A y \in Keys : Has(d, y) <=> Has(x, y)
       /\ \A y \in Keys : Has(x, y) =>
            d.items[y].size = x.items[y].size /\ d.items[y].seq = x.items[y].seq
  BY <1>12 DEF Alike
<1>14. ASSUME NEW y \in Keys, Has(d, y) PROVE d.items[y].heapIdx # 0 /\ d.items[y].seq <= d.seq
  <2>1. CASE y = k
    <3>1. Has(x, k) /\ x.items[k].seq = n /\ x.seq = n
      BY <1>3, <1>4, <1>5
    <3>2. d.items[k].seq = n /\ d.seq = n
      BY <1>13, <3>1
    <3> QED
      BY <1>12, <2>1, <3>2
  <2>2. CASE y # k
    <3>1. Has(x, y) /\ Has(c, y) /\ x.items[y] = c.items[y]
      BY <1>4, <1>5, <1>13, <1>14, <2>2
    <3>2. d.items[y].heapIdx # 0
      BY <1>7, <1>12, <2>2, <3>1
    <3>3. d.items[y].seq = c.items[y].seq /\ d.seq = c.seq + 1
      BY <1>4, <1>13, <3>1
    <3>4. c.items[y].seq <= c.seq + 1
      BY <1>2, <1>7, <3>1
    <3> QED
      BY <3>2, <3>3, <3>4
  <2> QED
    BY <2>1, <2>2
<1>15. LFUState(d)
  BY <1>1, <1>4, <1>12, <1>13, <1>14 DEF LFUState
<1>16. ASSUME NEW y \in Keys, Has(c, y)
       PROVE  /\ d.items[y].size = c.items[y].size /\ d.items[y].seq = c.items[y].seq
              /\ d.items[y].seq < d.items[k].seq
  <2>1. Has(x, y) /\ x.items[y] = c.items[y] /\ Has(x, k)
    BY <1>5, <1>6, <1>16
  <2>2. d.items[k].seq = c.seq + 1
    BY <1>3, <1>4, <1>13, <2>1
  <2> QED
    BY <1>7, <1>13, <1>16, <2>1, <2>2
<1>17. d.items[k].size = size /\ d.total = c.total + size
  <2>1. Has(x, k)
    BY <1>5
  <2> QED
    BY <1>3, <1>4, <1>13, <2>1
<1>18. \A a, b \in Keys : ~ Ahead(d, a, b)
  BY <1>1, <1>4, <1>13 DEF Ahead
<1>19. \A y \in Keys : Has(d, y) <=> Has(c, y) \/ y = k
  BY <1>5, <1>13
<1>20. With(c, d, k, size)
  BY <1>16, <1>17, <1>18, <1>19 DEF With
<1> QED
  BY <1>15, <1>20

\* InsertEntry, under each policy.
LEMMA Inserts ==
  ASSUME NEW c, Shaped(c), NEW k \in Keys, ~ Has(c, k), policy = "lfu" => c.seq < MaxSeq,
         NEW m, m.size \in Nat, NEW ttl \in Int, NEW d, d = InsertEntry(c, k, m, ttl)
  PROVE  Shaped(d) /\ With(c, d, k, m.size)
<1>1. c \in Caches /\ c.items \in [Keys -> Entries \cup {None}] /\ c.seq \in 0 .. MaxSeq
  BY ShapedType DEF Caches
<1>2. CASE policy = "lfu"
  <2> DEFINE n == c.seq + 1
             e == [size |-> m.size, left |-> ttl, freq |-> 1, seq |-> n, heapIdx |-> 0]
             x == Placed(c, k, e, c.order, n)
             f == [size |-> m.size, left |-> ttl, freq |-> 1, seq |-> 0, heapIdx |-> 0]
             y == [c EXCEPT !.items[k] = f, !.total = @ + m.size]
  <2>1. n \in 0 .. MaxSeq /\ LFUState(c)
    BY <1>1, <1>2, BoundsAssumption DEF Shaped
  <2>2. x = [y EXCEPT !.seq = @ + 1, !.items[k].seq = c.seq + 1]
    <3>1. [y.items EXCEPT ![k].seq = n] = [c.items EXCEPT ![k] = e]
      BY <1>1 DEF Caches
    <3>2. [y EXCEPT !.seq = @ + 1, !.items[k].seq = n] =
            [c EXCEPT !.items = [c.items EXCEPT ![k] = e], !.total = c.total + m.size, !.seq = n]
      BY <1>1, <3>1 DEF Caches
    <3>3. x = [c EXCEPT !.items = [c.items EXCEPT ![k] = e], !.total = c.total + m.size, !.seq = n]
      BY <1>1 DEF Caches, Placed
    <3> QED
      BY <3>2, <3>3
  <2>3. d = HeapPush(x, k)
    BY <1>2, <2>2 DEF InsertEntry
  <2>4. LFUState(d) /\ With(c, d, k, m.size)
    <3>1. /\ n = c.seq + 1 /\ x = Placed(c, k, e, c.order, n)
          /\ e = [size |-> m.size, left |-> ttl, freq |-> 1, seq |-> n, heapIdx |-> 0]
      OBVIOUS
    <3> HIDE DEF x, e, n
    <3> QED
      BY <1>2, <2>1, <2>3, <3>1, LFUInserts
  <2> QED
    BY <1>2, <2>4 DEF Shaped
<1>3. CASE policy # "lfu"
  <2> DEFINE e == [size |-> m.size, left |-> ttl, freq |-> 1, seq |-> 0, heapIdx |-> 0]
  <2>1. ListState(c)
    BY <1>3 DEF Shaped
  <2>2. d = Placed(c, k, e, Append(c.order, k), c.seq)
    BY <1>1, <1>3 DEF InsertEntry, Placed, Caches
  <2>3. ListState(d) /\ With(c, d, k, m.size)
    <3>1. e = [size |-> m.size, left |-> ttl, freq |-> 1, seq |-> 0, heapIdx |-> 0]
      OBVIOUS
    <3> HIDE DEF e
    <3> QED
      BY <1>3, <2>1, <2>2, <3>1, ListInserts
  <2> QED
    BY <1>3, <2>3 DEF Shaped
<1> QED
  BY <1>2, <1>3

-----------------------------------------------------------------------------
(* The invariant. *)

\* An answer has a size.
LEMMA MessageType == \A m \in Messages : m.size \in Nat /\ m.size > 0
BY SettingsAssumption

\* Lifetimes of what is stored are numbers.
LEMMA LifetimeType == \A m \in Messages : policy \in Policies /\ fixedTTL \in FixedTTLs => Lifetime(m) \in Int
<1> SUFFICES ASSUME NEW m \in Messages, fixedTTL \in FixedTTLs PROVE Lifetime(m) \in Int
  OBVIOUS
<1>1. fixedTTL \in Int /\ MinTTL \in Int /\ MaxTTL \in Int /\ ServfailTTL \in Int /\ m.ttl \in Int
  BY SettingsAssumption DEF NoRecord
<1>2. Clamp(m.ttl) \in Int
  BY <1>1 DEF Clamp, AtMost
<1>3. RecordTTL(m) \in Int
  BY <1>1, <1>2 DEF RecordTTL, AtMost
<1> QED
  BY <1>1, <1>3 DEF Lifetime

\* The first state.
LEMMA InitIInv == Init => IInv
<1> SUFFICES ASSUME Init PROVE IInv
  OBVIOUS
<1>1. /\ policy \in Policies /\ fixedTTL \in FixedTTLs /\ after \in [Keys -> SUBSET Keys]
      /\ cache = [items |-> [k \in Keys |-> None], total |-> 0, order |-> <<>>,
                  heap |-> <<>>, seq |-> 0]
  BY DEF Init
<1>2. \A k \in Keys : ~ Has(cache, k)
  BY <1>1 DEF Has
<1>3. cache.total = 0 /\ cache.order = <<>> /\ cache.heap = <<>> /\ cache \in Caches
  BY <1>1, BoundsAssumption DEF Caches
<1>4. Shaped(cache)
  <2>1. HeapState(cache) /\ Ordered(cache, Len(cache.heap))
    BY <1>2, <1>3 DEF HeapState, Indexed, Distinct, Ordered
  <2> QED
    BY <1>2, <1>3, <2>1 DEF Shaped, LFUState, ListState
<1>5. Counted(cache)
  <2>1. BytesOf(cache) = {}
    BY <1>2 DEF BytesOf, Held
  <2> QED
    BY <1>3, <2>1, FS_EmptySet DEF Counted
<1>6. Follows(cache, after)
  BY <1>2, <1>3 DEF Follows, Ahead
<1> QED
  BY <1>1, <1>4, <1>5, <1>6 DEF IInv

\* The history with k as the last to have come.
Later(f, k) == [j \in Keys |-> IF j = k THEN {} ELSE f[j] \cup {k}]

\* Later keeps the type of the history.
LEMMA LaterType ==
  ASSUME NEW f \in [Keys -> SUBSET Keys], NEW k \in Keys
  PROVE  Later(f, k) \in [Keys -> SUBSET Keys]
BY DEF Later

\* The history is right after a use,
LEMMA UseFollows ==
  ASSUME NEW c, NEW d, NEW k \in Keys, NEW f, NEW g, Follows(c, f), Touched(c, d, k),
         g = IF policy = "lru" THEN Later(f, k) ELSE f
  PROVE  Follows(d, g)
<1>1. CASE policy = "lfu"
  BY <1>1 DEF Follows, Touched
<1>2. CASE policy # "lfu"
  <2> SUFFICES ASSUME NEW a \in Keys, NEW b \in Keys, Ahead(d, a, b) PROVE b \in g[a]
    BY <1>2 DEF Follows
  <2>1. \/ policy # "lru" /\ Ahead(c, a, b)
        \/ policy = "lru" /\ a # k /\ (b = k \/ Ahead(c, a, b))
    BY DEF Touched
  <2>2. Ahead(c, a, b) => b \in f[a]
    BY <1>2 DEF Follows
  <2> QED
    BY <2>1, <2>2 DEF Later
<1> QED
  BY <1>1, <1>2

\* and after an insertion.
LEMMA WithFollows ==
  ASSUME NEW c, NEW d, NEW k \in Keys, NEW size, NEW f, Follows(c, f), With(c, d, k, size),
         Shaped(c), Shaped(d)
  PROVE  Follows(d, Later(f, k))
<1>1. CASE policy = "lfu"
  <2> SUFFICES ASSUME NEW a \in Keys, NEW b \in Keys, Has(d, a), Has(d, b),
                      d.items[a].seq < d.items[b].seq
               PROVE  b \in Later(f, k)[a]
    BY <1>1 DEF Follows
  <2>1. d.items[a].seq \in Nat /\ d.items[b].seq \in Nat /\ d.items[k].seq \in Nat
    <3>1. d \in Caches /\ Has(d, k)
      BY ShapedType DEF With
    <3> QED
      BY <3>1, EntryType
  <2>2. a # k
    <3>1. CASE b = k
      BY <2>1, <3>1
    <3>2. CASE b # k
      <4>1. Has(c, b)
        BY <3>2 DEF With
      <4>2. d.items[b].seq < d.items[k].seq
        BY <1>1, <4>1 DEF With
      <4> QED
        BY <2>1, <4>2
    <3> QED
      BY <3>1, <3>2
  <2>3. ASSUME b # k PROVE b \in f[a]
    <3>1. Has(c, a) /\ Has(c, b)
      BY <2>2, <2>3 DEF With
    <3>2. c.items[a].seq < c.items[b].seq
      BY <3>1 DEF With
    <3> QED
      BY <1>1, <3>1, <3>2 DEF Follows
  <2> QED
    BY <2>2, <2>3 DEF Later
<1>2. CASE policy # "lfu"
  <2> SUFFICES ASSUME NEW a \in Keys, NEW b \in Keys, Ahead(d, a, b) PROVE b \in Later(f, k)[a]
    BY <1>2 DEF Follows
  <2>1. a # k /\ (b = k \/ Ahead(c, a, b))
    BY DEF With
  <2>2. Ahead(c, a, b) => b \in f[a]
    BY <1>2 DEF Follows
  <2> QED
    BY <2>1, <2>2 DEF Later
<1> QED
  BY <1>1, <1>2

\* Where entries only leave, the history stays true.
LEMMA LessFollows ==
  ASSUME NEW c, NEW d, NEW f, Follows(c, f),
         \A x \in Keys : Has(d, x) => Has(c, x) /\ d.items[x].seq = c.items[x].seq,
         \A a, b \in Keys : Ahead(d, a, b) => Ahead(c, a, b)
  PROVE  Follows(d, f)
BY DEF Follows

\* The total is right after an insertion.
LEMMA WithCounts ==
  ASSUME NEW c \in Caches, NEW d \in Caches, NEW k \in Keys, NEW size \in Nat,
         ~ Has(c, k), With(c, d, k, size), Counted(c)
  PROVE  Counted(d)
<1>1. Has(d, k) /\ \A x \in Keys : x # k => (Has(d, x) <=> Has(c, x))
  BY DEF With
<1>2. \A x \in Keys : x # k /\ Has(c, x) => d.items[x].size = c.items[x].size
  BY DEF With
<1>3. d.total = c.total + (IF Has(d, k) THEN d.items[k].size ELSE 0)
                        - (IF Has(c, k) THEN c.items[k].size ELSE 0)
  <2>1. d.total = c.total + size /\ d.items[k].size = size /\ c.total \in Int
    BY DEF With, Caches
  <2> QED
    BY <1>1, <2>1
<1> QED
  BY <1>1, <1>2, <1>3, Recount

\* The next state of IInv, where the settings stay.
LEMMA Carries ==
  ASSUME IInv, UNCHANGED settings, after' \in [Keys -> SUBSET Keys],
         Shaped(cache'), Counted(cache'), Follows(cache', after')
  PROVE  IInv'
<1>1. policy' = policy /\ fixedTTL' = fixedTTL
  BY DEF settings
<1>2. policy' \in Policies /\ fixedTTL' \in FixedTTLs
  BY <1>1 DEF IInv
<1>3. Shaped(cache)'
  BY <1>1 DEF Shaped
<1>4. Counted(cache)'
  BY DEF Counted, BytesOf, Held, Has
<1>5. Follows(cache, after)'
  BY <1>1 DEF Follows, Ahead, Has
<1> QED
  BY <1>2, <1>3, <1>4, <1>5 DEF IInv

\* The parts of the invariant.
LEMMA Invariant ==
  ASSUME IInv
  PROVE  /\ cache \in Caches /\ Shaped(cache) /\ Counted(cache) /\ Follows(cache, after)
         /\ after \in [Keys -> SUBSET Keys] /\ policy \in Policies /\ fixedTTL \in FixedTTLs
BY ShapedType DEF IInv

-----------------------------------------------------------------------------
(* The methods keep the invariant. *)

\* What a use of an entry does to the history.
LEMMA UsedIs ==
  ASSUME IInv, NEW k \in Keys, Used(k)
  PROVE  /\ after' = (IF policy = "lru" THEN Later(after, k) ELSE after)
         /\ after' \in [Keys -> SUBSET Keys]
<1>1. after' = IF policy = "lru" THEN Later(after, k) ELSE after
  BY DEF Used, Came, Later
<1> QED
  BY <1>1, Invariant, LaterType

\* The bound of the model on uses.
LEMMA MayUseIs ==
  ASSUME NEW k \in Keys, MayUse(k)
  PROVE  policy = "lfu" => cache.items[k].freq < MaxFreq
BY DEF MayUse

\* Hits of Get,
LEMMA HitStep ==
  ASSUME IInv, NEW k \in Keys, Hit(k)
  PROVE  IInv'
<1>1. Has(cache, k) /\ MayUse(k) /\ cache' = Touch(cache, k) /\ Used(k) /\ UNCHANGED settings
  BY DEF Hit
<1>2. Shaped(cache') /\ Touched(cache, cache', k)
  BY <1>1, Invariant, MayUseIs, Touches
<1>3. Counted(cache')
  <2>1. /\ cache'.total = cache.total /\ \A x \in Keys : Has(cache', x) <=> Has(cache, x)
        /\ \A x \in Keys : Has(cache, x) => cache'.items[x].size = cache.items[x].size
    BY <1>2 DEF Touched
  <2> QED
    BY <2>1, Invariant, SameBytes
<1>4. Follows(cache', after')
  <2>1. after' = (IF policy = "lru" THEN Later(after, k) ELSE after)
    BY <1>1, UsedIs
  <2> QED
    BY <1>2, <2>1, Invariant, UseFollows
<1> QED
  BY <1>1, <1>2, <1>3, <1>4, UsedIs, Carries

\* the removals of Get and GetStale,
LEMMA MissGoneStep ==
  ASSUME IInv, NEW k \in Keys, MissGone(k)
  PROVE  IInv'
<1>1. Has(cache, k) /\ cache' = RemoveEntry(cache, k) /\ UNCHANGED settings /\ after' = after
  BY DEF MissGone
<1>2. Shaped(cache') /\ Without(cache, cache', k)
  BY <1>1, Invariant, RemoveEntryRemoves
<1>3. Counted(cache')
  <2>1. cache' \in Caches
    BY <1>2, ShapedType
  <2> QED
    BY <1>1, <1>2, <2>1, Invariant, WithoutCounts
<1>4. Follows(cache', after')
  <2>1. /\ \A x \in Keys : Has(cache', x) => Has(cache, x) /\ cache'.items[x].seq = cache.items[x].seq
        /\ \A a, b \in Keys : Ahead(cache', a, b) => Ahead(cache, a, b)
    BY <1>2 DEF Without
  <2>2. Follows(cache', after)
    BY <2>1, Invariant, LessFollows
  <2> QED
    BY <1>1, <2>2
<1> QED
  BY <1>1, <1>2, <1>3, <1>4, Invariant, Carries

\* What a replacement does: other numbers, then a use.
LEMMA Replaces ==
  ASSUME NEW c, Shaped(c), Counted(c), NEW k \in Keys, Has(c, k),
         policy = "lfu" => c.items[k].freq < MaxFreq,
         NEW m, m.size \in Nat, NEW ttl \in Int, NEW d, d = ReplaceEntry(c, k, m, ttl),
         NEW x, x = Renewed(c, k, m.size, ttl)
  PROVE  /\ Shaped(x) /\ Shaped(d) /\ Counted(d) /\ Touched(x, d, k) /\ SameOrder(c, x)
<1>1. c \in Caches /\ c.items \in [Keys -> Entries \cup {None}] /\ c.items[k] \in Entries
  BY ShapedType, EntryType DEF Caches
<1>2. x = [c EXCEPT !.total = @ + m.size - c.items[k].size,
                    !.items[k].size = m.size, !.items[k].left = ttl]
  <2> DEFINE e == [c.items[k] EXCEPT !.size = m.size, !.left = ttl]
  <2>1. [[c.items EXCEPT ![k].size = m.size] EXCEPT ![k].left = ttl] = [c.items EXCEPT ![k] = e]
    BY <1>1
  <2>2. [c EXCEPT !.total = @ + m.size - c.items[k].size, !.items[k].size = m.size, !.items[k].left = ttl] =
          [c EXCEPT !.items = [[@ EXCEPT ![k].size = m.size] EXCEPT ![k].left = ttl],
                    !.total = @ + m.size - c.items[k].size]
    BY <1>1 DEF Caches
  <2> QED
    BY <2>1, <2>2 DEF Renewed, SetEntry
<1>3. d = Touch(x, k)
  BY <1>2 DEF ReplaceEntry
<1>4. Shaped(x) /\ Counted(x) /\ SameOrder(c, x)
  <2>1. m.size \in Nat
    OBVIOUS
  <2> DEFINE size == m.size
  <2> HIDE DEF size
  <2>2. x = Renewed(c, k, size, ttl) /\ size \in Nat
    BY <2>1 DEF size
  <2> QED
    BY <2>2, Renews
<1>5. Shaped(d) /\ Touched(x, d, k)
  <2>1. Has(x, k) /\ (policy = "lfu" => x.items[k].freq < MaxFreq)
    BY <1>4 DEF SameOrder
  <2> QED
    BY <1>3, <1>4, <2>1, Touches
<1>6. Counted(d)
  <2>1. /\ d.total = x.total /\ \A y \in Keys : Has(d, y) <=> Has(x, y)
        /\ \A y \in Keys : Has(x, y) => d.items[y].size = x.items[y].size
    BY <1>5 DEF Touched
  <2> QED
    BY <1>4, <2>1, SameBytes
<1> QED
  BY <1>4, <1>5, <1>6

\* What Set does when it has the key.
LEMMA Replacement ==
  ASSUME IInv, NEW k \in Keys, NEW m \in Messages, Replace(k, m),
         NEW x, x = Renewed(cache, k, m.size, Lifetime(m))
  PROVE  /\ Shaped(x) /\ Shaped(cache') /\ Counted(cache') /\ Touched(x, cache', k)
         /\ SameOrder(cache, x)
<1>1. Has(cache, k) /\ MayUse(k) /\ cache' = ReplaceEntry(cache, k, m, Lifetime(m))
  BY DEF Replace
<1>2. m.size \in Nat /\ Lifetime(m) \in Int
  BY MessageType, LifetimeType, Invariant
<1> DEFINE t == Lifetime(m)
<1>3. x = Renewed(cache, k, m.size, t) /\ cache' = ReplaceEntry(cache, k, m, t) /\ t \in Int
  BY <1>1, <1>2
<1> HIDE DEF t
<1> QED
  BY <1>1, <1>2, <1>3, Invariant, MayUseIs, Replaces

\* replacements,
LEMMA ReplaceStep ==
  ASSUME IInv, NEW k \in Keys, NEW m \in Messages, Replace(k, m)
  PROVE  IInv'
<1> DEFINE x == Renewed(cache, k, m.size, Lifetime(m))
<1>x. x = Renewed(cache, k, m.size, Lifetime(m))
  OBVIOUS
<1> HIDE DEF x
<1>1. Used(k) /\ UNCHANGED settings
  BY DEF Replace
<1>2. /\ Shaped(x) /\ Shaped(cache') /\ Counted(cache') /\ Touched(x, cache', k)
      /\ SameOrder(cache, x)
  BY <1>x, Replacement
<1>3. Follows(x, after)
  BY <1>2, Invariant, LessFollows DEF SameOrder
<1>4. after' = (IF policy = "lru" THEN Later(after, k) ELSE after)
  BY <1>1, UsedIs
<1>5. Follows(cache', after')
  BY <1>2, <1>3, <1>4, UseFollows
<1> QED
  BY <1>1, <1>2, <1>5, UsedIs, Carries

\* What Set does when it has not.
LEMMA Insertion ==
  ASSUME IInv, NEW k \in Keys, NEW m \in Messages, Insert(k, m),
         NEW e, e = EvictFor(cache, m.size)
  PROVE  /\ m.size \in Nat /\ m.size > 0 /\ EvictedFrom(cache, e, m.size) /\ Room(e, m.size)
         /\ ~ Has(cache, k) /\ ~ Has(e, k)
         /\ Shaped(cache') /\ With(e, cache', k, m.size)
<1>1. /\ ~ Has(cache, k) /\ (policy = "lfu" => cache.seq < MaxSeq)
      /\ cache' = InsertEntry(e, k, m, Lifetime(m))
  BY DEF Insert
<1>2. m.size \in Nat /\ m.size > 0 /\ Lifetime(m) \in Int
  BY MessageType, LifetimeType, Invariant
<1> DEFINE t == Lifetime(m)
           size == m.size
<1>3. /\ cache' = InsertEntry(e, k, m, t) /\ t \in Int
      /\ size \in Nat /\ e = EvictFor(cache, size) /\ m.size = size
  BY <1>1, <1>2
<1> HIDE DEF t, size
<1>4. EvictedFrom(cache, e, size) /\ Room(e, size)
  BY <1>3, Invariant, EvictForEvicts
<1>5. ~ Has(e, k) /\ Shaped(e) /\ e.seq = cache.seq
  BY <1>1, <1>4 DEF EvictedFrom
<1>6. Shaped(cache') /\ With(e, cache', k, m.size)
  BY <1>1, <1>2, <1>3, <1>5, Inserts
<1> QED
  BY <1>1, <1>2, <1>3, <1>4, <1>5, <1>6

\* insertions,
LEMMA InsertStep ==
  ASSUME IInv, NEW k \in Keys, NEW m \in Messages, Insert(k, m)
  PROVE  IInv'
<1> DEFINE e == EvictFor(cache, m.size)
           size == m.size
<1>e. e = EvictFor(cache, m.size) /\ size = m.size
  OBVIOUS
<1> HIDE DEF e, size
<1>1. UNCHANGED settings /\ after' = Later(after, k)
  BY DEF Insert, Came, Later
<1>2. /\ size \in Nat /\ EvictedFrom(cache, e, size) /\ ~ Has(e, k)
      /\ Shaped(cache') /\ With(e, cache', k, size)
  BY <1>e, Insertion
<1>3. Shaped(e) /\ Counted(e) /\ e \in Caches /\ cache' \in Caches
  BY <1>2, ShapedType DEF EvictedFrom
<1>4. Counted(cache')
  BY <1>2, <1>3, WithCounts
<1>5. Follows(e, after)
  <2>1. /\ \A x \in Keys : Has(e, x) => Has(cache, x) /\ e.items[x].seq = cache.items[x].seq
        /\ \A a, b \in Keys : Ahead(e, a, b) => Ahead(cache, a, b)
    BY <1>2 DEF EvictedFrom
  <2> QED
    BY <2>1, Invariant, LessFollows
<1>6. Follows(cache', after')
  BY <1>1, <1>2, <1>3, <1>5, WithFollows
<1>7. after' \in [Keys -> SUBSET Keys]
  BY <1>1, Invariant, LaterType
<1> QED
  BY <1>1, <1>2, <1>4, <1>6, <1>7, Carries

\* A Cache without entries.
LEMMA EmptyHolds ==
  ASSUME NEW c \in Caches, \A k \in Keys : ~ Has(c, k), c.order = <<>>, c.heap = <<>>, c.total = 0,
         NEW f
  PROVE  Shaped(c) /\ Counted(c) /\ Follows(c, f)
<1>1. HeapState(c) /\ Ordered(c, Len(c.heap))
  BY DEF HeapState, Indexed, Distinct, Ordered
<1>2. Shaped(c)
  BY <1>1 DEF Shaped, LFUState, ListState
<1>3. BytesOf(c) = {}
  BY DEF BytesOf, Held
<1>4. Counted(c)
  BY <1>3, FS_EmptySet DEF Counted
<1>5. Follows(c, f)
  BY DEF Follows, Ahead
<1> QED
  BY <1>2, <1>4, <1>5

\* Clear,
LEMMA ClearStep ==
  ASSUME IInv, Clear
  PROVE  IInv'
<1> DEFINE its == [k \in Keys |-> None]
<1>1. /\ cache' = [cache EXCEPT !.items = its, !.total = 0, !.order = <<>>, !.heap = <<>>]
      /\ after' = [k \in Keys |-> {}] /\ UNCHANGED settings
  BY DEF Clear
<1>2. its \in [Keys -> Entries \cup {None}] /\ \A k \in Keys : its[k] = None
  OBVIOUS
<1> HIDE DEF its
<1>3. /\ cache' \in Caches /\ cache'.items = its
      /\ cache'.order = <<>> /\ cache'.heap = <<>> /\ cache'.total = 0
  <2>1. cache \in Caches /\ <<>> \in Seq(Keys)
    BY Invariant
  <2>2. /\ cache'.items = its /\ cache'.seq = cache.seq
        /\ cache'.order = <<>> /\ cache'.heap = <<>> /\ cache'.total = 0
    BY <1>1, <2>1 DEF Caches
  <2>3. cache' \in Caches
    <3>1. cache' = [items |-> its, total |-> 0, order |-> <<>>, heap |-> <<>>, seq |-> cache.seq]
      BY <1>1, <2>1 DEF Caches
    <3>2. cache.seq \in 0 .. MaxSeq
      BY <2>1 DEF Caches
    <3> QED
      BY <1>2, <2>1, <3>1, <3>2 DEF Caches
  <2> QED
    BY <2>2, <2>3
<1>4. \A k \in Keys : ~ Has(cache', k)
  BY <1>2, <1>3 DEF Has
<1>5. Shaped(cache') /\ Counted(cache') /\ Follows(cache', after')
  BY <1>3, <1>4, EmptyHolds
<1>6. after' \in [Keys -> SUBSET Keys]
  BY <1>1
<1> QED
  BY <1>1, <1>5, <1>6, Carries

\* An entry that gets older is an entry.
LEMMA OlderType ==
  ASSUME NEW e \in Entries
  PROVE  /\ Older(e) \in Entries /\ Older(e).size = e.size /\ Older(e).freq = e.freq
         /\ Older(e).seq = e.seq /\ Older(e).heapIdx = e.heapIdx
<1>1. e.left \in Int /\ e.left - 1 \in Int
  BY DEF Entries
<1> QED
  BY <1>1 DEF Older, Entries

\* and the clock keep the invariant.
LEMMA TickStep ==
  ASSUME IInv, Tick
  PROVE  IInv'
<1> DEFINE its == [k \in Keys |-> IF Has(cache, k) THEN Older(cache.items[k]) ELSE None]
<1>0. cache \in Caches /\ cache.items \in [Keys -> Entries \cup {None}]
  BY Invariant DEF Caches
<1>1. cache' = [cache EXCEPT !.items = its] /\ after' = after /\ UNCHANGED settings
  BY <1>0 DEF Tick, Caches
<1>2. \A k \in Keys : Has(cache, k) => its[k] \in Entries
  BY <1>0, EntryType, OlderType
<1>3. its \in [Keys -> Entries \cup {None}]
  BY <1>2
<1>4. \A k \in Keys : its[k] = IF Has(cache, k) THEN Older(cache.items[k]) ELSE None
  OBVIOUS
<1> HIDE DEF its
<1>5. /\ cache' \in Caches /\ cache'.items = its /\ cache'.total = cache.total
      /\ cache'.order = cache.order /\ cache'.heap = cache.heap /\ cache'.seq = cache.seq
  BY <1>0, <1>1, <1>3 DEF Caches
<1>6. \A k \in Keys : Has(cache', k) <=> Has(cache, k)
  BY <1>2, <1>4, <1>5, EntryIsSome DEF Has
<1>7. ASSUME NEW k \in Keys, Has(cache, k)
      PROVE  /\ cache'.items[k].size = cache.items[k].size /\ cache'.items[k].freq = cache.items[k].freq
             /\ cache'.items[k].seq = cache.items[k].seq
             /\ cache'.items[k].heapIdx = cache.items[k].heapIdx
  <2>1. cache'.items[k] = Older(cache.items[k]) /\ cache.items[k] \in Entries
    BY <1>0, <1>4, <1>5, <1>7, EntryType
  <2> QED
    BY <2>1, OlderType
<1>8. SameShape(cache, cache')
  BY <1>5, <1>6, <1>7 DEF SameShape
<1>9. Shaped(cache') /\ \A a, b \in Keys : Ahead(cache', a, b) <=> Ahead(cache, a, b)
  BY <1>8, Invariant, SameShapeHolds
<1>10. Counted(cache')
  BY <1>5, <1>6, <1>7, Invariant, SameBytes
<1>11. Follows(cache', after)
  BY <1>6, <1>7, <1>9, Invariant, LessFollows
<1> QED
  BY <1>1, <1>9, <1>10, <1>11, Invariant, Carries

\* So does every step.
LEMMA NextIInv == IInv /\ [Next]_vars => IInv'
<1> SUFFICES ASSUME IInv, [Next]_vars PROVE IInv'
  OBVIOUS
<1>1. CASE Tick
  BY <1>1, TickStep
<1>2. CASE Clear
  BY <1>2, ClearStep
<1>3. ASSUME NEW k \in Keys, Hit(k) PROVE IInv'
  BY <1>3, HitStep
<1>4. ASSUME NEW k \in Keys, MissGone(k) PROVE IInv'
  BY <1>4, MissGoneStep
<1>5. ASSUME NEW k \in Keys, NEW m \in Messages, Replace(k, m) PROVE IInv'
  BY <1>5, ReplaceStep
<1>6. ASSUME NEW k \in Keys, NEW m \in Messages, Insert(k, m) PROVE IInv'
  BY <1>6, InsertStep
<1>7. ASSUME UNCHANGED vars PROVE IInv'
  <2>1. cache' = cache /\ after' = after /\ UNCHANGED settings
    BY <1>7 DEF vars
  <2>2. Shaped(cache') /\ Counted(cache') /\ Follows(cache', after')
    BY <2>1, Invariant
  <2>3. after' \in [Keys -> SUBSET Keys]
    BY <2>1, Invariant
  <2> QED
    BY <2>1, <2>2, <2>3, Carries
<1> QED
  BY <1>1, <1>2, <1>3, <1>4, <1>5, <1>6, <1>7 DEF Next

\* The invariant holds of every state the Cache can reach.
LEMMA Invariance == Spec => []IInv
BY InitIInv, NextIInv, PTL DEF Spec

-----------------------------------------------------------------------------
(* What a step does to the keys. *)

\* A step keeps the keys, clears them, takes out one that is gone, or inserts.
LEMMA Changes ==
  ASSUME IInv, [Next]_vars
  PROVE  \/ \A x \in Keys : Has(cache', x) <=> Has(cache, x)
         \/ \A x \in Keys : ~ Has(cache', x)
         \/ \E k \in Keys : /\ cache.items[k].left < - StaleMaxAge
                            /\ \A x \in Keys : Has(cache', x) <=> Has(cache, x) /\ x # k
         \/ \E k \in Keys, m \in Messages : Insert(k, m)
<1> DEFINE Same == \A x \in Keys : Has(cache', x) <=> Has(cache, x)
<1>1. ASSUME Tick PROVE Same
  <2>1. cache.items \in [Keys -> Entries \cup {None}]
    BY Invariant DEF Caches
  <2>2. \A k \in Keys : cache'.items[k] = IF Has(cache, k) THEN Older(cache.items[k]) ELSE None
    BY <1>1, Invariant DEF Tick, Caches
  <2>3. \A k \in Keys : Has(cache, k) => Older(cache.items[k]) # None
    BY <2>1, Invariant, EntryType, OlderType, EntryIsSome
  <2> QED
    BY <2>2, <2>3 DEF Has
<1>2. ASSUME Clear PROVE \A x \in Keys : ~ Has(cache', x)
  <2>1. cache'.items = [k \in Keys |-> None]
    BY <1>2, Invariant DEF Clear, Caches
  <2> QED
    BY <2>1 DEF Has
<1>3. ASSUME NEW k \in Keys, Hit(k) PROVE Same
  <2>1. Has(cache, k) /\ MayUse(k) /\ cache' = Touch(cache, k)
    BY <1>3 DEF Hit
  <2>2. Touched(cache, cache', k)
    BY <2>1, Invariant, MayUseIs, Touches
  <2> QED
    BY <2>2 DEF Touched
<1>4. ASSUME NEW k \in Keys, MissGone(k)
      PROVE  /\ cache.items[k].left < - StaleMaxAge
             /\ \A x \in Keys : Has(cache', x) <=> Has(cache, x) /\ x # k
  <2>1. Has(cache, k) /\ Removed(cache.items[k]) /\ cache' = RemoveEntry(cache, k)
    BY <1>4 DEF MissGone
  <2>2. Without(cache, cache', k)
    BY <2>1, Invariant, RemoveEntryRemoves
  <2> QED
    BY <2>1, <2>2 DEF Without, Removed, IsGone
<1>5. ASSUME NEW k \in Keys, NEW m \in Messages, Replace(k, m) PROVE Same
  <2> DEFINE x == Renewed(cache, k, m.size, Lifetime(m))
  <2>x. x = Renewed(cache, k, m.size, Lifetime(m))
    OBVIOUS
  <2> HIDE DEF x
  <2>1. Touched(x, cache', k) /\ \A y \in Keys : Has(x, y) <=> Has(cache, y)
    BY <1>5, <2>x, Replacement DEF SameOrder
  <2> QED
    BY <2>1 DEF Touched
<1>6. ASSUME UNCHANGED vars PROVE Same
  BY <1>6 DEF vars, Has
<1> HIDE DEF Same
<1>7. Next \/ UNCHANGED vars
  OBVIOUS
<1>8. Same \/ (\A x \in Keys : ~ Has(cache', x))
        \/ (\E k \in Keys : MissGone(k)) \/ (\E k \in Keys, m \in Messages : Insert(k, m))
  BY <1>1, <1>2, <1>3, <1>5, <1>6, <1>7 DEF Next
<1> QED
  BY <1>4, <1>8 DEF Same

\* An insertion, by what it leaves of the entries: left are those it did not
\* evict.
LEMMA InsertionChanges ==
  ASSUME IInv, NEW k \in Keys, NEW m \in Messages, Insert(k, m)
  PROVE  /\ ~ Has(cache, k) /\ Has(cache', k)
         /\ \A a, b \in Keys : Has(cache, a) /\ ~ Has(cache', a) /\ Has(cache, b) /\ Has(cache', b) =>
              Sooner(cache, a, b)
         /\ (\E a \in Keys : Has(cache, a) /\ ~ Has(cache', a)) =>
              /\ MaxBytes > 0
              /\ \E j \in Keys : /\ Has(cache, j) /\ ~ Has(cache', j)
                                 /\ cache'.total + cache.items[j].size > MaxBytes
         /\ \/ MaxBytes = 0
            \/ cache'.total <= MaxBytes
            \/ \A x \in Keys : Has(cache', x) => ~ Has(cache, x)
<1> DEFINE e == EvictFor(cache, m.size)
           size == m.size
<1>e. e = EvictFor(cache, m.size) /\ size = m.size
  OBVIOUS
<1> HIDE DEF e, size
<1>1. /\ size \in Nat /\ EvictedFrom(cache, e, size) /\ Room(e, size)
      /\ ~ Has(cache, k) /\ ~ Has(e, k) /\ With(e, cache', k, size)
  BY <1>e, Insertion
<1>2. /\ \A x \in Keys : Has(cache', x) <=> Has(e, x) \/ x = k
      /\ cache'.total = e.total + size
  BY <1>1 DEF With
<1>3. e.total \in Int /\ cache \in Caches
  BY <1>1, ShapedType, Invariant DEF EvictedFrom, Caches
<1>4. \A x \in Keys : Has(cache, x) => (Has(cache', x) <=> Has(e, x))
  BY <1>1, <1>2
<1>5. Has(cache', k)
  BY <1>2
<1>6. \A a, b \in Keys : Has(cache, a) /\ ~ Has(cache', a) /\ Has(cache, b) /\ Has(cache', b) =>
        Sooner(cache, a, b)
  BY <1>1, <1>4 DEF EvictedFrom
<1>7. ASSUME NEW a \in Keys, Has(cache, a), ~ Has(cache', a)
      PROVE  /\ MaxBytes > 0
             /\ \E j \in Keys : /\ Has(cache, j) /\ ~ Has(cache', j)
                                /\ cache'.total + cache.items[j].size > MaxBytes
  <2>1. ~ Has(e, a)
    BY <1>4, <1>7
  <2>2. /\ MaxBytes > 0
        /\ \E j \in Keys : Has(cache, j) /\ ~ Has(e, j) /\ e.total + cache.items[j].size + size > MaxBytes
    BY <1>1, <1>7, <2>1 DEF EvictedFrom
  <2>3. PICK j \in Keys : Has(cache, j) /\ ~ Has(e, j) /\ e.total + cache.items[j].size + size > MaxBytes
    BY <2>2
  <2>4. cache.items[j].size \in Nat
    BY <1>3, <2>3, EntryType
  <2>5. cache'.total + cache.items[j].size > MaxBytes
    BY <1>1, <1>2, <1>3, <2>3, <2>4, Limits
  <2> QED
    BY <1>4, <2>2, <2>3, <2>5
<1>8. \/ MaxBytes = 0
      \/ cache'.total <= MaxBytes
      \/ \A x \in Keys : Has(cache', x) => ~ Has(cache, x)
  <2>1. CASE ~ \E x \in Keys : Has(e, x)
    BY <1>4, <2>1
  <2>2. CASE ~ Full(e, size)
    <3>1. ~ (e.total + size > MaxBytes)
      BY <2>2 DEF Full
    <3> QED
      BY <1>1, <1>2, <1>3, <3>1, Limits
  <2> QED
    BY <1>1, <2>1, <2>2 DEF Room
<1> QED
  BY <1>1, <1>5, <1>6, <1>7, <1>8

-----------------------------------------------------------------------------
(* The theorems. *)

\* The state of the Cache has its types (cache.go:56-109).
THEOREM TypeCorrect == Spec => []TypeOK
<1>1. IInv => TypeOK
  <2> SUFFICES ASSUME IInv PROVE TypeOK
    OBVIOUS
  <2>1. cache \in Caches /\ Counted(cache)
    BY Invariant
  <2>2. cache.total \in Nat
    BY <2>1, FS_CardinalityType DEF Counted
  <2>3. cache \in [items : [Keys -> Entries \cup {None}], total : Nat,
                   order : Seq(Keys), heap : Seq(Keys), seq : 0 .. MaxSeq]
    BY <2>1, <2>2 DEF Caches
  <2> QED
    BY <2>3, Invariant DEF TypeOK
<1> QED
  BY <1>1, Invariance, PTL

\* A list of distinct elements is as long as they are many.
LEMMA CountList ==
  ASSUME NEW s \in Seq(Keys), \A p, q \in 1 .. Len(s) : s[p] = s[q] => p = q,
         NEW P, \A x : x \in P <=> \E p \in 1 .. Len(s) : s[p] = x
  PROVE  ToSet(s) = P /\ Len(s) = Cardinality(P)
<1>1. Len(s) \in Nat /\ DOMAIN s = 1 .. Len(s)
  OBVIOUS
<1>2. ToSet(s) = P
  BY <1>1 DEF ToSet
<1>3. s \in [1 .. Len(s) -> P]
  BY <1>1
<1>4. s \in Injection(1 .. Len(s), P)
  BY <1>3 DEF Injection, IsInjective
<1>5. s \in Surjection(1 .. Len(s), P)
  BY <1>3 DEF Surjection
<1>6. ExistsBijection(1 .. Len(s), P)
  BY <1>4, <1>5 DEF ExistsBijection, Bijection
<1>7. Cardinality(P) = Len(s)
  BY <1>1, <1>6, FS_CountingElements
<1> QED
  BY <1>2, <1>7

\* The byte count is right, each entry is once in the structure that finds the
\* victims, and the heap is a heap with the right indexes, whatever the methods
\* did (cache.go:270-333, 374-394).
THEOREM Bookkept == Spec => []Bookkeeping
<1>1. IInv => Bookkeeping
  <2> SUFFICES ASSUME IInv PROVE Bookkeeping
    OBVIOUS
  <2>1. cache \in Caches /\ cache.order \in Seq(Keys) /\ cache.heap \in Seq(Keys) /\ Shaped(cache)
    BY Invariant DEF Caches
  <2>2. \A x : x \in Present <=> x \in Keys /\ Has(cache, x)
    BY DEF Present, Has
  <2>3. cache.total = Cardinality(Bytes)
    <3>1. Present = Held(cache)
      BY <2>2 DEF Held
    <3>2. Bytes = BytesOf(cache)
      BY <3>1 DEF Bytes, BytesOf, Size
    <3> QED
      BY <3>2, Invariant DEF Counted
  <2>4. CASE policy = "lfu"
    <3>1. LFUState(cache) /\ HeapState(cache) /\ cache.order = <<>> /\ Ordered(cache, Len(cache.heap))
      BY <2>1, <2>4 DEF Shaped, LFUState
    <3>2. \A k \in Present : cache.items[k].heapIdx \in 1 .. Len(cache.heap)
                             /\ cache.heap[cache.items[k].heapIdx] = k
      BY <2>2, <3>1 DEF LFUState, HeapState, Indexed
    <3>3. \A p \in 1 .. Len(cache.heap) : cache.heap[p] \in Present
      BY <2>2, <3>1, HeapType
    <3>4. ToSet(cache.heap) = Present /\ Len(cache.heap) = Cardinality(Present)
      <4>1. \A x : x \in Present <=> \E p \in 1 .. Len(cache.heap) : cache.heap[p] = x
        BY <3>2, <3>3
      <4> QED
        BY <2>1, <3>1, <4>1, HeapInjective, CountList
    <3>5. \A i \in 2 .. Len(cache.heap) : Less(cache, i \div 2, i)
      BY <3>1, LessIsLower DEF Ordered, InOrder
    <3> QED
      BY <2>3, <2>4, <3>1, <3>2, <3>4, <3>5 DEF Bookkeeping
  <2>5. CASE policy # "lfu"
    <3>1. ListState(cache)
      BY <2>1, <2>5 DEF Shaped
    <3>2. ToSet(cache.order) = Present /\ Len(cache.order) = Cardinality(Present)
      <4>1. \A p \in 1 .. Len(cache.order) : cache.order[p] \in Present
        BY <2>1, <2>2, <3>1 DEF ListState
      <4>2. \A x : x \in Present <=> \E p \in 1 .. Len(cache.order) : cache.order[p] = x
        BY <2>2, <3>1, <4>1 DEF ListState
      <4>3. \A p, q \in 1 .. Len(cache.order) : cache.order[p] = cache.order[q] => p = q
        BY <3>1 DEF ListState
      <4> QED
        BY <2>1, <4>2, <4>3, CountList
    <3> QED
      BY <2>3, <2>5, <3>2 DEF Bookkeeping
  <2> QED
    BY <2>4, <2>5
<1> QED
  BY <1>1, Invariance, PTL

\* Present is what the map has.
LEMMA PresentIs ==
  /\ \A x : x \in Present <=> x \in Keys /\ Has(cache, x)
  /\ \A x : x \in Present' <=> x \in Keys /\ Has(cache', x)
BY DEF Present, Has

\* Only insertions add a key.
LEMMA AddedByInsert ==
  ASSUME IInv, [Next]_vars, Added # {}
  PROVE  \E k \in Keys, m \in Messages : Insert(k, m)
<1>1. PICK x \in Keys : ~ Has(cache, x) /\ Has(cache', x)
  BY DEF Added
<1> QED
  BY <1>1, Changes

\* Whatever an insertion evicts had to leave before everything it keeps: it came
\* earlier, or was used earlier or less (cache.go:335-372, README.md:178).
THEOREM EvictionOrder == Spec => VictimsByPolicy
<1>1. IInv /\ [Next]_vars => \A j \in Evicted, k \in Kept : Before(j, k)
  <2> SUFFICES ASSUME IInv, [Next]_vars, NEW j \in Evicted, NEW k \in Kept PROVE Before(j, k)
    OBVIOUS
  <2>1. /\ j \in Keys /\ Has(cache, j) /\ ~ Has(cache', j) /\ Added # {}
        /\ k \in Keys /\ Has(cache, k) /\ Has(cache', k)
    BY PresentIs DEF Evicted, Kept
  <2>2. Sooner(cache, j, k)
    BY <2>1, AddedByInsert, InsertionChanges
  <2>3. CASE policy = "lfu"
    BY <2>1, <2>2, <2>3, Invariant DEF Sooner, Lower, Follows, Before
  <2>4. CASE policy # "lfu"
    BY <2>1, <2>2, <2>4, Invariant DEF Sooner, Follows, Before
  <2> QED
    BY <2>3, <2>4
<1> QED
  BY <1>1, Invariance, PTL DEF Spec, VictimsByPolicy

\* An insertion evicts until the entry fits or nothing is left, and nothing
\* without which it would have fitted (cache.go:335-343).
THEOREM EvictionBounds == Spec => EvictsWhatItMust
<1>1. IInv /\ [Next]_vars =>
        (Added # {} =>
           /\ MaxBytes = 0 => Evicted = {}
           /\ MaxBytes > 0 => cache'.total <= MaxBytes \/ Kept = {}
           /\ Evicted # {} => \E j \in Evicted : cache'.total + Size(j) > MaxBytes)
  <2> SUFFICES ASSUME IInv, [Next]_vars, Added # {}
               PROVE  /\ MaxBytes = 0 => Evicted = {}
                      /\ MaxBytes > 0 => cache'.total <= MaxBytes \/ Kept = {}
                      /\ Evicted # {} => \E j \in Evicted : cache'.total + Size(j) > MaxBytes
    OBVIOUS
  <2>1. PICK k \in Keys, m \in Messages : Insert(k, m)
    BY AddedByInsert
  <2>2. /\ (\E a \in Keys : Has(cache, a) /\ ~ Has(cache', a)) =>
             /\ MaxBytes > 0
             /\ \E j \in Keys : /\ Has(cache, j) /\ ~ Has(cache', j)
                                /\ cache'.total + cache.items[j].size > MaxBytes
        /\ \/ MaxBytes = 0
           \/ cache'.total <= MaxBytes
           \/ \A x \in Keys : Has(cache', x) => ~ Has(cache, x)
    BY <2>1, InsertionChanges
  <2>3. /\ \A x : x \in Evicted <=> x \in Keys /\ Has(cache, x) /\ ~ Has(cache', x)
        /\ \A x : x \in Kept <=> x \in Keys /\ Has(cache, x) /\ Has(cache', x)
    BY PresentIs DEF Evicted, Kept
  <2>4. MaxBytes \in Nat
    BY Limits
  <2>5. MaxBytes > 0 => cache'.total <= MaxBytes \/ Kept = {}
    BY <2>2, <2>3, <2>4
  <2>6. ASSUME Evicted # {} PROVE MaxBytes > 0 /\ \E j \in Evicted : cache'.total + Size(j) > MaxBytes
    <3>1. \E a \in Keys : Has(cache, a) /\ ~ Has(cache', a)
      BY <2>3, <2>6
    <3>2. PICK j \in Keys : Has(cache, j) /\ ~ Has(cache', j) /\ cache'.total + cache.items[j].size > MaxBytes
      BY <2>2, <3>1
    <3> QED
      BY <2>2, <2>3, <3>1, <3>2 DEF Size
  <2> QED
    BY <2>4, <2>5, <2>6
<1> QED
  BY <1>1, Invariance, PTL DEF Spec, EvictsWhatItMust

\* Only Clear and the evictions take out what may still be served stale
\* (cache.go:36-38, 126-170).
THEOREM StaleKept == Spec => KeptWhileStale
<1>1. IInv /\ [Next]_vars =>
        \A k \in Present : ~ Has(cache', k) /\ k \notin Evicted /\ Present' # {} =>
          cache.items[k].left < - StaleMaxAge
  <2> SUFFICES ASSUME IInv, [Next]_vars, NEW k \in Present,
                      ~ Has(cache', k), k \notin Evicted, Present' # {}
               PROVE  cache.items[k].left < - StaleMaxAge
    OBVIOUS
  <2>1. k \in Keys /\ Has(cache, k) /\ Added = {} /\ \E x \in Keys : Has(cache', x)
    BY PresentIs DEF Evicted
  <2>2. ~ \E j \in Keys, m \in Messages : Insert(j, m)
    BY <2>1, InsertionChanges DEF Added
  <2>3. PICK j \in Keys : /\ cache.items[j].left < - StaleMaxAge
                          /\ \A x \in Keys : Has(cache', x) <=> Has(cache, x) /\ x # j
    BY <2>1, <2>2, Changes
  <2> QED
    BY <2>1, <2>3
<1> QED
  BY <1>1, Invariance, PTL DEF Spec, KeptWhileStale
=============================================================================
