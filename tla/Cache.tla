-------------------------------- MODULE Cache --------------------------------
(***************************************************************************)
(* The response cache of internal/cache/cache.go with its three eviction   *)
(* policies.  Every method runs under c.mu, so a method is one action.     *)
(*                                                                         *)
(* A message is its size, the least TTL of its records (NoRecord without   *)
(* any) and what recordTTL and cacheable look at; a key is a key of keyOf, *)
(* which module Serving has.                                               *)
(* The clock ticks in seconds: instants between two seconds, and parts of  *)
(* a second in the settings, are left out.  An entry's expire is the time  *)
(* left until it.  order is the list of FIFO and LRU, front first; heap    *)
(* the array of lfuHeap, counted from 1, and heapIdx 0 stands for -1.      *)
(***************************************************************************)
EXTENDS Integers, Sequences, FiniteSets, SequencesExt

CONSTANTS Keys, None,
          Policies,          \* the policies cfg.Eviction may name
          Messages,          \* the answers Set may get
          MaxBytes,          \* cfg.MaxBytes, 0: no limit
          FixedTTLs,         \* values of cfg.TTL, 0: follow the records
          StaleMaxAge, MinTTL, MaxTTL,
          ServfailTTL,       \* the 30 seconds of recordTTL
          MaxFreq, MaxSeq    \* bounds: uses of an entry, insertions (LFU)

NoRecord == -1

Entries == [size : Nat, left : Int, freq : 1 .. MaxFreq, seq : 0 .. MaxSeq,
            heapIdx : Nat]

ASSUME NoneAssumption == None \notin [size : Nat, left : Int, freq : Nat, seq : Nat, heapIdx : Nat]

ASSUME BoundsAssumption == MaxFreq \in Nat \ {0} /\ MaxSeq \in Nat

ASSUME SettingsAssumption ==
  /\ Policies \subseteq {"fifo", "lru", "lfu"}
  /\ {MaxBytes, StaleMaxAge, MinTTL, MaxTTL} \cup FixedTTLs \subseteq Nat
  /\ ServfailTTL \in Nat \ {0}
  /\ MaxTTL > 0 => MinTTL <= MaxTTL
  /\ \A m \in Messages : m.size \in Nat \ {0} /\ m.ttl \in Nat \cup {NoRecord}

VARIABLES policy,   \* c.cfg.Eviction
          fixedTTL, \* c.cfg.TTL
          cache,    \* items, total, order, heap and seq of the Cache
          after     \* history: key -> the keys that came after it

settings == <<policy, fixedTTL>>
vars == <<settings, cache, after>>

Init ==
  /\ policy \in Policies /\ fixedTTL \in FixedTTLs
  /\ cache = [items |-> [k \in Keys |-> None], total |-> 0, order |-> <<>>,
              heap |-> <<>>, seq |-> 0]
  /\ after = [k \in Keys |-> {}]

Present == {k \in Keys : cache.items[k] # None}
Has(c, k) == c.items[k] # None

-----------------------------------------------------------------------------
(* lfuHeap, and what container/heap does with it. *)

Less(c, i, j) ==
  LET a == c.items[c.heap[i]]
      b == c.items[c.heap[j]] IN
    a.freq < b.freq \/ (a.freq = b.freq /\ a.seq < b.seq)

\* Mutated: only one of the two indexes is kept.
SwapOne(c, i, j) ==
  [c EXCEPT !.heap = [@ EXCEPT ![i] = c.heap[j], ![j] = c.heap[i]],
            !.items = [@ EXCEPT ![c.heap[j]].heapIdx = i]]

Swap(c, i, j) ==
  [c EXCEPT !.heap = [@ EXCEPT ![i] = c.heap[j], ![j] = c.heap[i]],
            !.items = [@ EXCEPT ![c.heap[j]].heapIdx = i, ![c.heap[i]].heapIdx = j]]

\* A loop of at most n rounds; Step changes nothing once the loop is over.
Repeat(Step(_), x, n) ==
  LET r[i \in 0 .. n] == IF i = 0 THEN x ELSE Step(r[i - 1]) IN r[n]

UpStep(s) ==
  LET i == s.at \div 2 IN
    IF s.at = 1 \/ ~ Less(s.cache, s.at, i) THEN s
    ELSE [cache |-> Swap(s.cache, i, s.at), at |-> i]

Up(c, j) == Repeat(UpStep, [cache |-> c, at |-> j], Len(c.heap)).cache

\* The lesser of the two children of i.
Child(c, i, n) ==
  LET l == 2 * i IN IF l + 1 <= n /\ Less(c, l + 1, l) THEN l + 1 ELSE l

DownStep(s, n) ==
  LET j == Child(s.cache, s.at, n) IN
    IF 2 * s.at > n \/ ~ Less(s.cache, j, s.at) THEN s
    ELSE [cache |-> Swap(s.cache, s.at, j), at |-> j]

Down(c, i, n) == Repeat(LAMBDA s : DownStep(s, n), [cache |-> c, at |-> i], Len(c.heap))

\* Fix, and the end of Remove: up, unless it went down.
Sift(c, i, n) ==
  LET d == Down(c, i, n) IN IF d.at > i THEN d.cache ELSE Up(c, i)

HeapPush(c, k) ==
  LET n == Len(c.heap) + 1 IN
    Up([c EXCEPT !.heap = Append(@, k), !.items[k].heapIdx = n], n)

\* The Pop method: the last of the array leaves it.
PopLast(c) ==
  [c EXCEPT !.heap = Front(@), !.items[Last(c.heap)].heapIdx = 0]

HeapRemove(c, i) ==
  LET n == Len(c.heap) IN
    PopLast(IF i = n THEN c ELSE Sift(Swap(c, i, n), i, n - 1))

HeapPop(c) ==
  LET n == Len(c.heap) IN PopLast(Down(Swap(c, 1, n), 1, n - 1).cache)

-----------------------------------------------------------------------------
(* Entries. *)

\* Mutated: the heap is not put in order again.
TouchUnfixed(c, k) ==
  IF policy = "lru" THEN [c EXCEPT !.order = Append(RemoveFirst(@, k), k)]
  ELSE IF policy = "lfu" THEN [c EXCEPT !.items[k].freq = @ + 1]
  ELSE c

Touch(c, k) ==
  IF policy = "lru" THEN [c EXCEPT !.order = Append(RemoveFirst(@, k), k)]
  ELSE IF policy = "lfu"
       THEN LET d == [c EXCEPT !.items[k].freq = @ + 1] IN
              IF d.items[k].heapIdx > 0
              THEN Sift(d, d.items[k].heapIdx, Len(d.heap)) ELSE d
  ELSE c

\* delete, the total, the list, and the heap if the entry is still in it.
RemoveEntry(c, k) ==
  LET d == IF c.items[k].heapIdx > 0 THEN HeapRemove(c, c.items[k].heapIdx) ELSE c IN
    [d EXCEPT !.items[k] = None, !.total = @ - c.items[k].size,
              !.order = RemoveFirst(@, k)]

EvictOne(c) ==
  IF policy = "lfu" THEN RemoveEntry(HeapPop(c), c.heap[1])
                    ELSE RemoveEntry(c, Head(c.order))

\* Mutated: the room for the new entry is not counted.
FullAlready(c, size) == c.total > MaxBytes
Full(c, size) == c.total + size > MaxBytes

EvictStep(c, size) ==
  IF MaxBytes > 0 /\ (\E k \in Keys : Has(c, k)) /\ Full(c, size) THEN EvictOne(c) ELSE c

EvictFor(c, size) ==
  Repeat(LAMBDA d : EvictStep(d, size), c, Len(c.order) + Len(c.heap))

InsertEntry(c, k, m, ttl) ==
  LET e == [size |-> m.size, left |-> ttl, freq |-> 1, seq |-> 0, heapIdx |-> 0]
      d == [c EXCEPT !.items[k] = e, !.total = @ + m.size] IN
    IF policy = "lfu"
    THEN HeapPush([d EXCEPT !.seq = @ + 1, !.items[k].seq = c.seq + 1], k)
    ELSE [d EXCEPT !.order = Append(@, k)]

\* Mutated: the difference of the sizes is taken the wrong way round.
ReplaceEntrySwapped(c, k, m, ttl) ==
  Touch([c EXCEPT !.total = @ + c.items[k].size - m.size,
                  !.items[k].size = m.size, !.items[k].left = ttl], k)

ReplaceEntry(c, k, m, ttl) ==
  Touch([c EXCEPT !.total = @ + m.size - c.items[k].size,
                  !.items[k].size = m.size, !.items[k].left = ttl], k)

-----------------------------------------------------------------------------
(* Lifetimes. *)

\* Clamp and the upper limit of Get: 0 is no limit.
AtMost(t, max) == IF max > 0 /\ t > max THEN max ELSE t
Clamp(t) == IF t = NoRecord THEN t
            ELSE AtMost(IF MinTTL > 0 /\ t < MinTTL THEN MinTTL ELSE t, MaxTTL)

\* recordTTL, of a message that Clamp has seen.
RecordTTL(m) ==
  LET t == Clamp(m.ttl) IN
    IF t = NoRecord THEN 0
    ELSE IF m.rcode = "servfail" THEN AtMost(t, ServfailTTL) ELSE t

\* cacheable: m.ip, that the answer has an address or is not asked for one;
\* m.soa, that its authority section has an SOA record.
Cacheable(m) ==
  /\ ~ m.truncated
  /\ \/ m.rcode = "success" /\ (m.ip \/ m.soa)
     \/ m.rcode = "nxdomain" /\ m.soa
     \/ m.rcode = "servfail"

Lifetime(m) == IF fixedTTL > 0 THEN fixedTTL ELSE RecordTTL(m)

\* now.After(e.expire), now.After(e.staleUntil)
IsExpired(e) == e.left < 0
IsGone(e) == e.left < - StaleMaxAge

-----------------------------------------------------------------------------
(* The methods. *)

Came(k) == after' = [j \in Keys |-> IF j = k THEN {} ELSE after[j] \cup {k}]
Used(k) == IF policy = "lru" THEN Came(k) ELSE UNCHANGED after
MayUse(k) == policy = "lfu" => cache.items[k].freq < MaxFreq

\* A hit of Get.
Hit(k) ==
  /\ Has(cache, k) /\ ~ IsExpired(cache.items[k]) /\ MayUse(k)
  /\ cache' = Touch(cache, k) /\ Used(k)
  /\ UNCHANGED settings

\* Mutated: what is expired is removed, stale or not.
RemovedAtExpiry(e) == IsExpired(e)
Removed(e) == IsGone(e)

\* Get and GetStale remove an entry whose stale time is over; otherwise
\* GetStale, and a miss of Get, change nothing.
MissGone(k) ==
  /\ Has(cache, k) /\ Removed(cache.items[k])
  /\ cache' = RemoveEntry(cache, k)
  /\ UNCHANGED <<settings, after>>

\* Clamp, then Set.
Replace(k, m) ==
  /\ Cacheable(m) /\ Lifetime(m) > 0
  /\ Has(cache, k) /\ MayUse(k)
  /\ cache' = ReplaceEntry(cache, k, m, Lifetime(m)) /\ Used(k)
  /\ UNCHANGED settings

Insert(k, m) ==
  /\ Cacheable(m) /\ Lifetime(m) > 0
  /\ ~ Has(cache, k) /\ (policy = "lfu" => cache.seq < MaxSeq)
  /\ cache' = InsertEntry(EvictFor(cache, m.size), k, m, Lifetime(m))
  /\ Came(k)
  /\ UNCHANGED settings

Clear ==
  /\ cache' = [cache EXCEPT !.items = [k \in Keys |-> None], !.total = 0,
                            !.order = <<>>, !.heap = <<>>]
  /\ after' = [k \in Keys |-> {}]
  /\ UNCHANGED settings

\* An entry that is gone does not get older.
Older(e) == [e EXCEPT !.left = IF IsGone(e) THEN @ ELSE @ - 1]

Tick ==
  /\ cache' = [cache EXCEPT !.items =
                 [k \in Keys |-> IF Has(cache, k) THEN Older(@[k]) ELSE None]]
  /\ UNCHANGED <<settings, after>>

Next ==
  \/ Tick \/ Clear
  \/ \E k \in Keys : Hit(k) \/ MissGone(k)
  \/ \E k \in Keys, m \in Messages : Replace(k, m) \/ Insert(k, m)

Spec == Init /\ [][Next]_vars

-----------------------------------------------------------------------------
Size(k) == cache.items[k].size

\* Types of the state of Cache.
TypeOK ==
  /\ policy \in Policies /\ fixedTTL \in FixedTTLs
  /\ cache \in [items : [Keys -> Entries \cup {None}], total : Nat,
                order : Seq(Keys), heap : Seq(Keys), seq : 0 .. MaxSeq]
  /\ after \in [Keys -> SUBSET Keys]

\* The bytes of the entries.
Bytes == UNION {{k} \X (1 .. Size(k)) : k \in Present}

\* The map, the byte count and the structure that finds the victims agree:
\* each entry is once in the list or in the heap, the heap is a heap and
\* every heapIdx points at its own entry (cache.go:270-333, 374-394).
Bookkeeping ==
  LET where == IF policy = "lfu" THEN cache.heap ELSE cache.order IN
    /\ cache.total = Cardinality(Bytes)
    /\ ToSet(where) = Present /\ Len(where) = Cardinality(Present)
    /\ policy = "lfu" =>
         /\ cache.order = <<>>
         /\ \A k \in Present : cache.heap[cache.items[k].heapIdx] = k
         /\ \A i \in 2 .. Len(cache.heap) : Less(cache, i \div 2, i)

\* j has to leave before k: it came first, or was used less.
Before(j, k) ==
  IF policy = "lfu"
  THEN LET a == cache.items[j]
           b == cache.items[k] IN
         a.freq < b.freq \/ (a.freq = b.freq /\ k \in after[j])
  ELSE k \in after[j]

Added == {k \in Keys : ~ Has(cache, k) /\ Has(cache', k)}
Evicted == {k \in Present : Added # {} /\ ~ Has(cache', k)}
Kept == {k \in Present : Has(cache', k)}

\* An insertion evicts the entries its policy names: the oldest, the ones not
\* used for longest, or the ones used least, and among those the oldest
\* (README.md:178).
VictimsByPolicy ==
  [][\A j \in Evicted, k \in Kept : Before(j, k)]_vars

\* An insertion makes the room it needs, and no more: without the eviction of
\* one of its victims the entry would not have fitted (cache.go:335-343).
EvictsWhatItMust ==
  [][Added # {} =>
       /\ MaxBytes = 0 => Evicted = {}
       /\ MaxBytes > 0 => cache'.total <= MaxBytes \/ Kept = {}
       /\ Evicted # {} => \E j \in Evicted : cache'.total + Size(j) > MaxBytes]_vars

\* Nothing but an eviction or Clear takes an entry out before its stale time
\* is over: neither the misses of Get nor replacement (cache.go:36-38).
KeptWhileStale ==
  [][\A k \in Present : ~ Has(cache', k) /\ k \notin Evicted /\ Present' # {} =>
       cache.items[k].left < - StaleMaxAge]_vars
=============================================================================
