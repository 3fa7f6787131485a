--------------------------- MODULE ResolutionProofs ---------------------------
(***************************************************************************)
(* Theorems about Resolution, for any hosts, addresses, lookups, targets   *)
(* and times: its types, that an address DNS has dropped is forgotten in   *)
(* time, and that the prober leaves a family that is dead.                 *)
(***************************************************************************)
EXTENDS Resolution, FiniteSetTheorems, TLAPS

\* A thread at the inner resolvers has a key; a probe of a host with a static
\* address does not get there.
KeyOK ==
  /\ \A t \in Threads : Asking(t) => key[t] \in Keys
  /\ \A h \in Targets : Asking(h) => Static[h] = {}

\* What is in the zone has not been dropped.
ZoneOK == \A h \in Hosts : \A a \in zone[h] : withdrawn[h][a] = InZone

\* An address about to be stored was dropped no longer ago than its lookup read
\* the clock.
FreshOK ==
  \A t \in Threads : pc[t] = "store" =>
    \A a \in addrs[t] : withdrawn[key[t][2]][a] <= since[t]

\* The time since an address was dropped and the time its entry has left are
\* together no more than the lifetime of an entry.
EntryOK ==
  \A k \in Keys : Unexpired(k) =>
    \A a \in entries[k].addrs : withdrawn[k[2]][a] + entries[k].left <= TTL

\* In a round all through which one family was up: no other has been heard, and
\* that one has been, or will be, at each target with a static address of it.
HeardOK ==
  only # None =>
    /\ round = "probing" /\ up = {only} /\ only \in Families
    /\ heard \subseteq {only}
    /\ \A h \in Targets : OfFamily(Static[h], only) # {} =>
         /\ pc[h] = "measure" => only \in heard \/ OfFamily(addrs[h], only) # {}
         /\ pc[h] = "done" => only \in heard

IInv == TypeOK /\ KeyOK /\ ZoneOK /\ FreshOK /\ EntryOK /\ HeardOK

-----------------------------------------------------------------------------
\* What is beyond this age was dropped an entry's lifetime, and a lookup's time
\* limit, ago.
LEMMA BoundIsAge == Bound \in Nat /\ Bound >= TTL /\ Bound > Timeout
BY TimeAssumption DEF Bound

LEMMA ThreadKinds ==
  /\ Lookups \subseteq Threads /\ Targets \subseteq Threads
  /\ \A l \in Lookups : l \notin Targets
BY ThreadsAssumption DEF Threads

\* What Cardinality(up) = 1 in BeginProbe rests on.
LEMMA SubsetOfFamilies ==
  ASSUME NEW S \in SUBSET Families
  PROVE  IsFiniteSet(S)
<1>1. IsFiniteSet({"ipv4"}) /\ Families = {"ipv4"} \cup {"ipv6"}
  BY FS_Singleton DEF Families
<1> QED
  BY <1>1, FS_AddElement, FS_Subset

\* filterByNetwork picks some of the addresses, and all of them for "ip".
LEMMA FilterPicks ==
  ASSUME NEW S, NEW n \in Networks
  PROVE  Filter(S, n) \subseteq S /\ (n = "ip" => Filter(S, n) = S)
BY ThreadsAssumption DEF Filter, OfFamily

\* An entry that has not expired holds addresses.
LEMMA EntryType ==
  ASSUME TypeOK, NEW k \in Keys, entries[k] # None
  PROVE  entries[k].addrs \subseteq Addrs /\ entries[k].left \in 0 .. TTL
BY DEF TypeOK

\* Resolved gives a thread its addresses and takes it on.
LEMMA Resolves ==
  ASSUME TypeOK, NEW t \in Threads, NEW S \in SUBSET Addrs, Resolved(t, S)
  PROVE  /\ addrs' = [addrs EXCEPT ![t] = S]
         /\ pc' = [pc EXCEPT ![t] = IF t \in Targets THEN "measure" ELSE "select"]
BY DEF Resolved, Known

\* The three outcomes of a lookup before the inner resolvers.
LEMMA LookupSteps ==
  ASSUME TypeOK, NEW t \in Threads, NEW n \in Networks, NEW h \in Hosts,
         Lookup(t, n, h)
  PROVE  /\ <<n, h>> \in Keys
         /\ key' = [key EXCEPT ![t] = <<n, h>>]
         /\ UNCHANGED <<worldVars, entries, since, proberVars, only>>
         /\ \/ /\ Filter(Static[h], n) # {}
               /\ addrs' = [addrs EXCEPT ![t] = Filter(Static[h], n)]
               /\ pc' = [pc EXCEPT ![t] = IF t \in Targets THEN "measure" ELSE "select"]
            \/ /\ Filter(Static[h], n) = {} /\ Unexpired(<<n, h>>)
               /\ addrs' = [addrs EXCEPT ![t] = entries[<<n, h>>].addrs]
               /\ pc' = [pc EXCEPT ![t] = IF t \in Targets THEN "measure" ELSE "select"]
            \/ /\ Filter(Static[h], n) = {} /\ addrs' = addrs
               /\ pc' = [pc EXCEPT ![t] = "ask"]
<1>1. <<n, h>> \in Keys
  BY DEF Keys
<1> QED
  BY <1>1 DEF Lookup, Resolved, Known

\* A lookup takes its own thread on, with addresses, and no other thread.
LEMMA LookupShape ==
  ASSUME TypeOK, NEW t \in Threads, NEW n \in Networks, NEW h \in Hosts,
         Lookup(t, n, h)
  PROVE  \E S \in SUBSET Addrs, p \in {"ask", "select", "measure"} :
           /\ addrs' = [addrs EXCEPT ![t] = S] /\ pc' = [pc EXCEPT ![t] = p]
           /\ t \in Targets /\ Filter(Static[h], n) # {} => p = "measure"
<1> DEFINE p == IF t \in Targets THEN "measure" ELSE "select"
           F == Filter(Static[h], n)
           E == entries[<<n, h>>].addrs
<1>1. F \in SUBSET Addrs
  BY AddrsAssumption, FilterPicks
<1>2. Unexpired(<<n, h>>) => E \in SUBSET Addrs
  BY LookupSteps, EntryType DEF Unexpired
<1>3. /\ p \in {"ask", "select", "measure"}
      /\ t \in Targets => p = "measure"
  OBVIOUS
<1>4. addrs[t] \in SUBSET Addrs /\ addrs = [addrs EXCEPT ![t] = addrs[t]]
  BY DEF TypeOK
<1>5. \/ F # {} /\ addrs' = [addrs EXCEPT ![t] = F] /\ pc' = [pc EXCEPT ![t] = p]
      \/ /\ F = {} /\ Unexpired(<<n, h>>)
         /\ addrs' = [addrs EXCEPT ![t] = E] /\ pc' = [pc EXCEPT ![t] = p]
      \/ F = {} /\ addrs' = addrs /\ pc' = [pc EXCEPT ![t] = "ask"]
  BY LookupSteps
<1> HIDE DEF p, F, E
<1>6. CASE F # {} /\ addrs' = [addrs EXCEPT ![t] = F] /\ pc' = [pc EXCEPT ![t] = p]
  BY <1>1, <1>3, <1>6
<1>7. CASE /\ F = {} /\ Unexpired(<<n, h>>)
           /\ addrs' = [addrs EXCEPT ![t] = E] /\ pc' = [pc EXCEPT ![t] = p]
  BY <1>2, <1>3, <1>7
<1>8. CASE F = {} /\ addrs' = addrs /\ pc' = [pc EXCEPT ![t] = "ask"]
  BY <1>4, <1>8 DEF F
<1> QED
  BY <1>5, <1>6, <1>7, <1>8

\* A lookup takes no other thread anywhere.
LEMMA OthersStay ==
  ASSUME TypeOK, NEW t \in Threads, NEW n \in Networks, NEW h \in Hosts,
         Lookup(t, n, h), NEW x \in Threads, x # t
  PROVE  pc'[x] = pc[x] /\ addrs'[x] = addrs[x] /\ key'[x] = key[x]
<1>1. PICK S, p : addrs' = [addrs EXCEPT ![t] = S] /\ pc' = [pc EXCEPT ![t] = p]
  BY LookupShape
<1>2. key' = [key EXCEPT ![t] = <<n, h>>]
  BY LookupSteps
<1> QED
  BY <1>1, <1>2 DEF TypeOK

LEMMA InitIInv == Init => IInv
<1> SUFFICES ASSUME Init PROVE IInv
  OBVIOUS
<1>1. TypeOK
  <2>1. withdrawn \in [Hosts -> [Addrs -> InZone .. Bound]] /\ zone \in [Hosts -> SUBSET Addrs]
    BY BoundIsAge DEF Init, InZone
  <2>2. pc \in [Threads -> {"idle", "begin", "ask", "store", "select", "dial",
                            "measure", "done"}]
    BY DEF Init
  <2>3. /\ since \in [Threads -> 0 .. Timeout] /\ addrs \in [Threads -> SUBSET Addrs]
        /\ key \in [Threads -> Keys \cup {NoKey}]
        /\ entries \in [Keys -> [addrs : SUBSET Addrs, left : 0 .. TTL] \cup {None}]
    BY TimeAssumption DEF Init
  <2> QED
    BY <2>1, <2>2, <2>3 DEF Init, TypeOK, Families
<1>2. KeyOK /\ ZoneOK /\ FreshOK /\ EntryOK /\ HeardOK
  BY ThreadKinds DEF Init, KeyOK, ZoneOK, FreshOK, EntryOK, HeardOK, Asking, Unexpired
<1> QED
  BY <1>1, <1>2 DEF IInv

-----------------------------------------------------------------------------
LEMMA TypeStep == IInv /\ [Next]_vars => TypeOK'
<1> SUFFICES ASSUME IInv, [Next]_vars PROVE TypeOK'
  OBVIOUS
<1> USE DEF worldVars, threadVars, proberVars
<1>t. TypeOK /\ KeyOK
  BY DEF IInv
<1>1. CASE UNCHANGED vars
  BY <1>t, <1>1 DEF vars, TypeOK
<1>2. CASE Tick
  <2>1. since' \in [Threads -> 0 .. Timeout]
    <3>1. \A t \in Threads : since[t] + (IF Asking(t) THEN 1 ELSE 0) \in 0 .. Timeout
      BY <1>t, <1>2, TimeAssumption DEF Tick, TypeOK
    <3> QED
      BY <1>2, <3>1 DEF Tick
  <2>2. withdrawn' \in [Hosts -> [Addrs -> InZone .. Bound]]
    <3>1. \A n \in InZone .. Bound : Older(n) \in InZone .. Bound
      BY BoundIsAge DEF Older, InZone
    <3> QED
      BY <1>t, <1>2, <3>1 DEF Tick, TypeOK
  <2>3. entries' \in [Keys -> [addrs : SUBSET Addrs, left : 0 .. TTL] \cup {None}]
    <3>1. ASSUME NEW k \in Keys, entries[k] # None
          PROVE  [entries[k] EXCEPT !.left = Elapse(@)] \in [addrs : SUBSET Addrs, left : 0 .. TTL]
      <4>1. entries[k] \in [addrs : SUBSET Addrs, left : 0 .. TTL]
        BY <1>t, <3>1 DEF TypeOK
      <4>2. Elapse(entries[k].left) \in 0 .. TTL
        BY <4>1, TimeAssumption DEF Elapse
      <4> QED
        BY <4>1, <4>2
    <3> QED
      BY <1>2, <3>1 DEF Tick
  <2> QED
    BY <1>t, <1>2, <2>1, <2>2, <2>3 DEF Tick, TypeOK
<1>3. CASE Switch
  BY <1>t, <1>3 DEF Switch, TypeOK
<1>4. ASSUME NEW h \in Hosts, Renumber(h) PROVE TypeOK'
  <2>1. PICK S \in SUBSET Addrs :
          /\ zone' = [zone EXCEPT ![h] = S]
          /\ withdrawn' = [withdrawn EXCEPT ![h] = [a \in Addrs |->
               IF a \in S THEN InZone ELSE IF a \in zone[h] THEN 0 ELSE @[a]]]
    BY <1>4 DEF Renumber
  <2>2. [a \in Addrs |-> IF a \in S THEN InZone
                         ELSE IF a \in zone[h] THEN 0 ELSE withdrawn[h][a]]
          \in [Addrs -> InZone .. Bound]
    BY <1>t, BoundIsAge DEF TypeOK, InZone
  <2>3. withdrawn' \in [Hosts -> [Addrs -> InZone .. Bound]]
    BY <1>t, <2>1, <2>2 DEF TypeOK
  <2> QED
    BY <1>t, <1>4, <2>1, <2>3 DEF Renumber, TypeOK
<1>5. ASSUME NEW t \in Threads, Answer(t) PROVE TypeOK'
  <2>1. pc[t] = "ask" /\ key[t] \in Keys
    BY <1>t, <1>5 DEF Answer, KeyOK, Asking
  <2>2. Filter(zone[key[t][2]], key[t][1]) \subseteq Addrs
    BY <1>t, <2>1, FilterPicks DEF TypeOK, Keys
  <2>3. addrs' \in [Threads -> SUBSET Addrs]
    BY <1>t, <1>5, <2>2 DEF Answer, TypeOK
  <2>4. pc' \in [Threads -> {"idle", "begin", "ask", "store", "select", "dial",
                             "measure", "done"}]
    BY <1>t, <1>5 DEF Answer, TypeOK
  <2>5. key' \in [Threads -> Keys \cup {NoKey}] /\ since' \in [Threads -> 0 .. Timeout]
    BY <1>t, <1>5, TimeAssumption DEF Answer, TypeOK
  <2> QED
    BY <1>t, <1>5, <2>3, <2>4, <2>5 DEF Answer, TypeOK
<1>6. ASSUME NEW t \in Threads, Store(t) PROVE TypeOK'
  <2>1. pc[t] = "store" /\ key[t] \in Keys /\ addrs[t] \in SUBSET Addrs
    BY <1>t, <1>6 DEF Store, KeyOK, Asking, TypeOK
  <2>2. Life(t) \in 0 .. TTL
    BY <1>t, TimeAssumption DEF Life, TypeOK
  <2>3. entries' \in [Keys -> [addrs : SUBSET Addrs, left : 0 .. TTL] \cup {None}]
    BY <1>t, <1>6, <2>1, <2>2 DEF Store, TypeOK
  <2>4. since' \in [Threads -> 0 .. Timeout]
    BY <1>t, <1>6, TimeAssumption DEF Store, TypeOK
  <2>5. Resolved(t, addrs[t])
    BY <1>6 DEF Store
  <2> QED
    BY <1>t, <1>6, <2>1, <2>3, <2>4, <2>5, Resolves DEF Store, TypeOK
<1>7. ASSUME NEW t \in Threads, NEW n \in Networks, NEW h \in Hosts, Lookup(t, n, h)
      PROVE  TypeOK'
  <2>1. PICK S \in SUBSET Addrs, p \in {"ask", "select", "measure"} :
          addrs' = [addrs EXCEPT ![t] = S] /\ pc' = [pc EXCEPT ![t] = p]
    BY <1>t, <1>7, LookupShape
  <2>2. /\ <<n, h>> \in Keys /\ key' = [key EXCEPT ![t] = <<n, h>>]
        /\ UNCHANGED <<worldVars, entries, since, proberVars, only>>
    BY <1>t, <1>7, LookupSteps
  <2>3. addrs' \in [Threads -> SUBSET Addrs]
    BY <1>t, <2>1 DEF TypeOK
  <2>4. pc' \in [Threads -> {"idle", "begin", "ask", "store", "select", "dial",
                             "measure", "done"}]
    BY <1>t, <2>1 DEF TypeOK
  <2>5. key' \in [Threads -> Keys \cup {NoKey}]
    BY <1>t, <2>2 DEF TypeOK
  <2> QED
    BY <1>t, <2>2, <2>3, <2>4, <2>5 DEF TypeOK
<1>8. ASSUME NEW l \in Lookups, Select(l) PROVE TypeOK'
  <2>1. \A S \in SUBSET Addrs : Prefer(S, current) \in SUBSET Addrs
    BY DEF Prefer, OfFamily
  <2> QED
    BY <1>t, <1>8, <2>1 DEF Select, TypeOK
<1>9. ASSUME NEW l \in Lookups, Dialed(l) PROVE TypeOK'
  BY <1>t, <1>9 DEF Dialed, TypeOK
<1>10. ASSUME NEW h \in Targets, Measure(h) PROVE TypeOK'
  <2>1. h \in Threads
    BY ThreadKinds
  <2>2. \A a \in addrs[h] : FamilyOf[a] \in Families
    BY <1>t, <2>1, AddrsAssumption DEF TypeOK
  <2>3. heard' \subseteq Families /\ addrs' \in [Threads -> SUBSET Addrs]
    BY <1>t, <1>10, <2>1, <2>2 DEF Measure, TypeOK
  <2>4. pc' \in [Threads -> {"idle", "begin", "ask", "store", "select", "dial",
                             "measure", "done"}]
    BY <1>t, <1>10 DEF Measure, TypeOK
  <2>5. key' \in [Threads -> Keys \cup {NoKey}]
    BY <1>t, <1>10 DEF Measure, TypeOK
  <2> QED
    BY <1>t, <1>10, <2>3, <2>4, <2>5 DEF Measure, TypeOK
<1>11. CASE BeginProbe
  <2>1. only' \in Families \cup {None}
    <3>1. CASE Cardinality(up) = 1
      <4>1. up \in SUBSET Families /\ IsFiniteSet(up)
        BY <1>t, SubsetOfFamilies DEF TypeOK
      <4>2. PICK f : up = {f}
        BY <3>1, <4>1, FS_Singleton
      <4> QED
        BY <1>11, <3>1, <4>1, <4>2 DEF BeginProbe
    <3>2. CASE Cardinality(up) # 1
      BY <1>11, <3>2 DEF BeginProbe
    <3> QED
      BY <3>1, <3>2
  <2> QED
    BY <1>t, <1>11, <2>1 DEF BeginProbe, TypeOK
<1>12. CASE EndProbe
  BY <1>t, <1>12 DEF EndProbe, TypeOK, Choice
<1>13. CASE EndProber
  BY <1>t, <1>13 DEF EndProber, TypeOK
<1> QED
  BY <1>1, <1>2, <1>3, <1>4, <1>5, <1>6, <1>7, <1>8, <1>9, <1>10, <1>11, <1>12, <1>13,
     ThreadKinds, ThreadsAssumption
  DEF Next, DialLookup, ProbeLookup

LEMMA KeyStep == IInv /\ [Next]_vars => KeyOK'
<1> SUFFICES ASSUME IInv, [Next]_vars PROVE KeyOK'
  OBVIOUS
<1> USE DEF worldVars, threadVars, proberVars
<1>t. TypeOK /\ KeyOK
  BY DEF IInv
<1>1. CASE UNCHANGED vars
  BY <1>t, <1>1 DEF vars, KeyOK, Asking
<1>2. CASE Tick
  BY <1>t, <1>2 DEF Tick, KeyOK, Asking
<1>3. CASE Switch
  BY <1>t, <1>3 DEF Switch, KeyOK, Asking
<1>4. ASSUME NEW h \in Hosts, Renumber(h) PROVE KeyOK'
  BY <1>t, <1>4 DEF Renumber, KeyOK, Asking
<1>5. ASSUME NEW t \in Threads, Answer(t) PROVE KeyOK'
  BY <1>t, <1>5, ThreadKinds DEF Answer, KeyOK, Asking, TypeOK
<1>6. ASSUME NEW t \in Threads, Store(t) PROVE KeyOK'
  <2>1. UNCHANGED key /\ pc' = [pc EXCEPT ![t] = IF t \in Targets THEN "measure" ELSE "select"]
    BY <1>6 DEF Store, Resolved
  <2> QED
    BY <1>t, <2>1, ThreadKinds DEF KeyOK, Asking, TypeOK
<1>7. ASSUME NEW t \in Threads, NEW n \in Networks, NEW h \in Hosts, Lookup(t, n, h),
             t \in Targets => n = "ip" /\ h = t
      PROVE  KeyOK'
  <2>1. \A x \in Threads : x # t => pc'[x] = pc[x] /\ key'[x] = key[x]
    BY <1>t, <1>7, OthersStay
  <2>2. key'[t] \in Keys
    <3>1. <<n, h>> \in Keys /\ key' = [key EXCEPT ![t] = <<n, h>>]
      BY <1>t, <1>7, LookupSteps
    <3> QED
      BY <1>t, <3>1 DEF TypeOK
  <2>3. t \in Targets /\ pc'[t] \in {"ask", "store"} => Static[t] = {}
    <3> SUFFICES ASSUME t \in Targets, pc'[t] \in {"ask", "store"} PROVE Static[t] = {}
      OBVIOUS
    <3>1. n = "ip" /\ h = t /\ Filter(Static[h], n) = Static[h]
      BY <1>7, FilterPicks
    <3>2. PICK p : /\ pc' = [pc EXCEPT ![t] = p]
                   /\ t \in Targets /\ Filter(Static[h], n) # {} => p = "measure"
      BY <1>t, <1>7, LookupShape
    <3>3. pc'[t] = p
      BY <1>t, <3>2 DEF TypeOK
    <3> QED
      BY <3>1, <3>2, <3>3
  <2> QED
    BY <1>t, <2>1, <2>2, <2>3, ThreadKinds DEF KeyOK, Asking
<1>8. ASSUME NEW l \in Lookups, Select(l) PROVE KeyOK'
  BY <1>t, <1>8 DEF Select, KeyOK, Asking, TypeOK
<1>9. ASSUME NEW l \in Lookups, Dialed(l) PROVE KeyOK'
  BY <1>t, <1>9 DEF Dialed, KeyOK, Asking, TypeOK
<1>10. ASSUME NEW h \in Targets, Measure(h) PROVE KeyOK'
  <2>1. /\ pc'[h] \in {"measure", "done"}
        /\ \A x \in Threads : x # h => pc'[x] = pc[x] /\ key'[x] = key[x]
    BY <1>t, <1>10, ThreadKinds DEF Measure, TypeOK
  <2> QED
    BY <1>t, <2>1, ThreadKinds DEF KeyOK, Asking
<1>11. CASE BeginProbe
  BY <1>t, <1>11, ThreadKinds DEF BeginProbe, KeyOK, Asking
<1>12. CASE EndProbe
  BY <1>t, <1>12, ThreadKinds DEF EndProbe, KeyOK, Asking
<1>13. CASE EndProber
  BY <1>t, <1>13 DEF EndProber, KeyOK, Asking
<1> QED
  BY <1>1, <1>2, <1>3, <1>4, <1>5, <1>6, <1>7, <1>8, <1>9, <1>10, <1>11, <1>12, <1>13,
     ThreadKinds, ThreadsAssumption
  DEF Next, DialLookup, ProbeLookup

\* Time makes a dropped address a tick older at most, and a change of the zone
\* makes none older.
LEMMA AgeSteps ==
  ASSUME TypeOK, [Next]_vars, NEW h \in Hosts, NEW a \in Addrs
  PROVE  /\ withdrawn[h][a] \in Int /\ withdrawn'[h][a] \in Int
         /\ withdrawn'[h][a] <= withdrawn[h][a] \/ withdrawn'[h][a] <= 0 \/ Tick
         /\ withdrawn'[h][a] <= withdrawn[h][a] + 1 \/ withdrawn'[h][a] <= 0
<1> USE DEF worldVars, threadVars, proberVars
<1>1. withdrawn[h][a] \in InZone .. Bound /\ InZone \in Int /\ Bound \in Int
  BY BoundIsAge DEF TypeOK, InZone
<1>2. CASE Tick
  <2>1. withdrawn'[h][a] = Older(withdrawn[h][a])
    BY <1>2 DEF Tick
  <2> QED
    BY <1>1, <1>2, <2>1 DEF Older
<1>3. ASSUME NEW g \in Hosts, Renumber(g)
      PROVE  withdrawn'[h][a] \in {withdrawn[h][a], InZone, 0}
  BY <1>3 DEF Renumber, TypeOK
<1>4. CASE UNCHANGED withdrawn
  BY <1>1, <1>4
<1>5. CASE \E g \in Hosts : Renumber(g)
  BY <1>1, <1>3, <1>5 DEF InZone
<1>6. Tick \/ (\E g \in Hosts : Renumber(g)) \/ UNCHANGED withdrawn
  BY DEF Next, vars, Switch, Answer, Store, DialLookup, Lookup, Select, Dialed, ProbeLookup,
         Measure, BeginProbe, EndProbe, EndProber
<1> QED
  BY <1>2, <1>4, <1>5, <1>6

LEMMA ZoneStep == IInv /\ [Next]_vars => ZoneOK'
<1> SUFFICES ASSUME IInv, [Next]_vars PROVE ZoneOK'
  OBVIOUS
<1> USE DEF worldVars, threadVars, proberVars
<1>t. TypeOK /\ ZoneOK
  BY DEF IInv
<1>1. CASE Tick
  BY <1>t, <1>1 DEF Tick, Older, ZoneOK, TypeOK
<1>2. ASSUME NEW g \in Hosts, Renumber(g) PROVE ZoneOK'
  <2>1. PICK S \in SUBSET Addrs :
          /\ zone' = [zone EXCEPT ![g] = S]
          /\ withdrawn' = [withdrawn EXCEPT ![g] = [a \in Addrs |->
               IF a \in S THEN InZone ELSE IF a \in zone[g] THEN 0 ELSE @[a]]]
    BY <1>2 DEF Renumber
  <2>2. \A a \in zone'[g] : withdrawn'[g][a] = InZone
    BY <1>t, <2>1 DEF TypeOK
  <2>3. \A h \in Hosts : h # g => zone'[h] = zone[h] /\ withdrawn'[h] = withdrawn[h]
    BY <1>t, <2>1 DEF TypeOK
  <2> QED
    BY <1>t, <2>2, <2>3 DEF ZoneOK
<1>3. CASE UNCHANGED <<zone, withdrawn>>
  BY <1>t, <1>3 DEF ZoneOK
<1>4. Tick \/ (\E g \in Hosts : Renumber(g)) \/ UNCHANGED <<zone, withdrawn>>
  BY DEF Next, vars, Switch, Answer, Store, DialLookup, Lookup, Select, Dialed, ProbeLookup,
         Measure, BeginProbe, EndProbe, EndProber
<1> QED
  BY <1>1, <1>2, <1>3, <1>4

\* The only step to "store" is the answer; a thread there keeps its key and
\* addresses, and its age grows with the clock.
LEMMA StoringSteps ==
  ASSUME IInv, [Next]_vars, NEW t \in Threads, pc'[t] = "store"
  PROVE  \/ Answer(t) /\ pc[t] = "ask"
         \/ /\ pc[t] = "store" /\ key'[t] = key[t] /\ addrs'[t] = addrs[t]
            /\ since'[t] = since[t] + IF Tick THEN 1 ELSE 0
<1> USE DEF worldVars, threadVars, proberVars
<1>t. TypeOK /\ since[t] \in Nat
  BY TimeAssumption DEF IInv, TypeOK
<1> DEFINE Same == /\ pc[t] = "store" /\ key'[t] = key[t] /\ addrs'[t] = addrs[t]
                   /\ since'[t] = since[t]
<1>0. CASE Tick
  BY <1>t, <1>0 DEF Tick, Asking
<1>1. ASSUME UNCHANGED vars PROVE Same
  BY <1>1 DEF vars
<1>2. ASSUME Switch \/ EndProber \/ \E h \in Hosts : Renumber(h) PROVE Same
  BY <1>2 DEF Switch, EndProber, Renumber
<1>3. ASSUME NEW u \in Threads, Answer(u), u # t PROVE Same
  BY <1>t, <1>3 DEF Answer, TypeOK
<1>4. ASSUME NEW u \in Threads, Store(u) PROVE Same
  BY <1>t, <1>4 DEF Store, Resolved, TypeOK
<1>5. ASSUME NEW u \in Threads, NEW n \in Networks, NEW h \in Hosts, Lookup(u, n, h) PROVE Same
  <2>1. UNCHANGED since
    BY <1>t, <1>5, LookupSteps
  <2>2. PICK p \in {"ask", "select", "measure"} : pc' = [pc EXCEPT ![u] = p]
    BY <1>t, <1>5, LookupShape
  <2>3. u # t
    BY <1>t, <2>2 DEF TypeOK
  <2>4. pc'[t] = pc[t] /\ addrs'[t] = addrs[t] /\ key'[t] = key[t]
    BY <1>t, <1>5, <2>3, OthersStay
  <2> QED
    BY <2>1, <2>4
<1>6. ASSUME NEW l \in Lookups, Select(l) \/ Dialed(l) PROVE Same
  BY <1>t, <1>6 DEF Select, Dialed, TypeOK
<1>7. ASSUME NEW h \in Targets, Measure(h) PROVE Same
  BY <1>t, <1>7 DEF Measure, TypeOK
<1>8. ASSUME BeginProbe \/ EndProbe PROVE Same
  BY <1>8 DEF BeginProbe, EndProbe
<1>9. CASE Answer(t)
  BY <1>9 DEF Answer
<1>10. ~ Tick /\ Same => since'[t] = since[t] + IF Tick THEN 1 ELSE 0
  BY <1>t
<1>11. Tick \/ Answer(t) \/ (~ Tick /\ Same)
  BY <1>1, <1>2, <1>3, <1>4, <1>5, <1>6, <1>7, <1>8, ThreadKinds, ThreadsAssumption
  DEF Next, DialLookup, ProbeLookup
<1> QED
  BY <1>0, <1>9, <1>10, <1>11

LEMMA FreshStep == IInv /\ [Next]_vars => FreshOK'
<1> SUFFICES ASSUME IInv, [Next]_vars, NEW t \in Threads, pc'[t] = "store", NEW a \in addrs'[t]
             PROVE  withdrawn'[key'[t][2]][a] <= since'[t]
  BY DEF FreshOK
<1>t. TypeOK /\ KeyOK /\ ZoneOK /\ FreshOK
  BY DEF IInv
<1>1. since[t] \in Nat
  BY <1>t, TimeAssumption DEF TypeOK
<1>2. CASE Answer(t) /\ pc[t] = "ask"
  <2>1. key[t] \in Keys /\ key'[t] = key[t] /\ since'[t] = since[t] /\ withdrawn' = withdrawn
    BY <1>t, <1>2 DEF Answer, KeyOK, Asking, TypeOK, worldVars
  <2>2. a \in zone[key[t][2]]
    BY <1>t, <1>2, <2>1, FilterPicks DEF Answer, TypeOK, Keys
  <2>3. withdrawn[key[t][2]][a] = InZone
    BY <1>t, <2>1, <2>2 DEF ZoneOK, Keys
  <2> QED
    BY <1>1, <2>1, <2>3 DEF InZone
<1>3. CASE /\ pc[t] = "store" /\ key'[t] = key[t] /\ addrs'[t] = addrs[t]
           /\ since'[t] = since[t] + IF Tick THEN 1 ELSE 0
  <2>1. key[t][2] \in Hosts /\ a \in Addrs
    BY <1>t, <1>3 DEF KeyOK, Asking, TypeOK, Keys
  <2>2. withdrawn[key[t][2]][a] <= since[t]
    BY <1>t, <1>3 DEF FreshOK
  <2> QED
    BY <1>t, <1>1, <1>3, <2>1, <2>2, AgeSteps
<1> QED
  BY <1>2, <1>3, StoringSteps

LEMMA EntryStep == IInv /\ [Next]_vars => EntryOK'
<1> SUFFICES ASSUME IInv, [Next]_vars, NEW k \in Keys, Unexpired(k)', NEW a \in entries'[k].addrs
             PROVE  withdrawn'[k[2]][a] + entries'[k].left <= TTL
  BY DEF EntryOK
<1> USE DEF worldVars, threadVars, proberVars
<1>t. TypeOK /\ KeyOK /\ FreshOK /\ EntryOK
  BY DEF IInv
<1>p. TypeOK'
  BY TypeStep
<1>h. k[2] \in Hosts
  BY DEF Keys
<1>1. CASE Tick
  <2>1. entries[k] # None /\ entries'[k] = [entries[k] EXCEPT !.left = Elapse(@)]
    BY <1>1 DEF Tick, Unexpired
  <2>2. entries[k].left \in 0 .. TTL /\ entries[k].addrs \subseteq Addrs
    BY <1>t, <2>1, EntryType
  <2>3. entries'[k].left = Elapse(entries[k].left) /\ entries'[k].addrs = entries[k].addrs
    BY <1>t, <2>1 DEF TypeOK
  <2>4. entries[k].left > 0 /\ entries'[k].left = entries[k].left - 1
    BY <2>2, <2>3, TimeAssumption DEF Unexpired, Elapse
  <2>5. withdrawn[k[2]][a] + entries[k].left <= TTL
    BY <1>t, <2>1, <2>3, <2>4 DEF EntryOK, Unexpired
  <2> QED
    BY <1>t, <1>h, <2>2, <2>3, <2>4, <2>5, AgeSteps, TimeAssumption
<1>2. CASE entries' = entries /\ ~ Tick
  <2>1. Unexpired(k) /\ entries[k].left \in 0 .. TTL /\ a \in Addrs
    BY <1>t, <1>2, EntryType DEF Unexpired
  <2>2. withdrawn[k[2]][a] + entries[k].left <= TTL
    BY <1>t, <1>2, <2>1 DEF EntryOK
  <2> QED
    BY <1>t, <1>h, <1>2, <2>1, <2>2, AgeSteps, TimeAssumption
<1>3. ASSUME NEW t \in Threads, Store(t) PROVE withdrawn'[k[2]][a] + entries'[k].left <= TTL
  <2>1. withdrawn' = withdrawn
    BY <1>3 DEF Store
  <2>2. CASE key[t] # k
    <3>1. entries'[k] = entries[k]
      BY <1>t, <1>3, <2>2 DEF Store, TypeOK
    <3> QED
      BY <1>t, <2>1, <3>1 DEF EntryOK, Unexpired
  <2>3. CASE key[t] = k
    <3>1. entries'[k] = [addrs |-> addrs[t], left |-> Life(t)]
      BY <1>t, <1>3, <2>3 DEF Store, TypeOK
    <3>2. withdrawn[k[2]][a] <= since[t]
      BY <1>t, <1>3, <2>3, <3>1 DEF Store, FreshOK
    <3>3. withdrawn[k[2]][a] \in Int /\ since[t] \in Nat
      <4>1. a \in Addrs
        BY <1>t, <3>1 DEF TypeOK
      <4> QED
        BY <1>t, <1>h, <4>1, AgeSteps, TimeAssumption DEF TypeOK
    <3>4. Life(t) > 0
      BY <3>1 DEF Unexpired
    <3>5. Life(t) = TTL - since[t]
      BY <3>4 DEF Life
    <3> QED
      BY <2>1, <3>1, <3>2, <3>3, <3>5, TimeAssumption
  <2> QED
    BY <2>2, <2>3
<1>4. Tick \/ (entries' = entries /\ ~ Tick) \/ \E t \in Threads : Store(t)
  BY DEF Next, vars, Switch, Renumber, Answer, DialLookup, Lookup, Select, Dialed,
         ProbeLookup, Measure, BeginProbe, EndProbe, EndProber
<1> QED
  BY <1>1, <1>2, <1>3, <1>4

-----------------------------------------------------------------------------
\* A step that leaves the prober's variables alone keeps HeardOK, if it leaves
\* each target where it was or takes it elsewhere than to be measured or done.
LEMMA HeardKept ==
  ASSUME HeardOK, UNCHANGED <<up, round, heard, only>>,
         \A h \in Targets : Static[h] # {} =>
           \/ pc'[h] = pc[h] /\ addrs'[h] = addrs[h]
           \/ pc'[h] \notin {"measure", "done"}
           \/ pc'[h] = "measure" /\ addrs'[h] = Static[h]
  PROVE  HeardOK'
<1>1. \A h \in Targets : OfFamily(Static[h], only) # {} => Static[h] # {}
  BY DEF OfFamily
<1> QED
  BY <1>1 DEF HeardOK

LEMMA HeardStep == IInv /\ [Next]_vars => HeardOK'
<1> SUFFICES ASSUME IInv, [Next]_vars PROVE HeardOK'
  OBVIOUS
<1> USE DEF worldVars, threadVars, proberVars
<1>t. TypeOK /\ KeyOK /\ HeardOK
  BY DEF IInv
<1>1. CASE UNCHANGED vars
  BY <1>t, <1>1, HeardKept DEF vars
<1>2. CASE Tick
  BY <1>t, <1>2, HeardKept DEF Tick
<1>3. CASE Switch
  BY <1>t, <1>3 DEF Switch, HeardOK
<1>4. ASSUME NEW h \in Hosts, Renumber(h) PROVE HeardOK'
  BY <1>t, <1>4, HeardKept DEF Renumber
<1>5. ASSUME NEW t \in Threads, Answer(t) PROVE HeardOK'
  <2>1. t \in Targets => Static[t] = {}
    BY <1>t, <1>5 DEF Answer, KeyOK, Asking
  <2>2. \A h \in Targets : h # t => pc'[h] = pc[h] /\ addrs'[h] = addrs[h]
    BY <1>t, <1>5, ThreadKinds DEF Answer, TypeOK
  <2>3. UNCHANGED <<up, round, heard, only>>
    BY <1>5 DEF Answer
  <2> QED
    BY <1>t, <2>1, <2>2, <2>3, HeardKept
<1>6. ASSUME NEW t \in Threads, Store(t) PROVE HeardOK'
  <2>1. t \in Targets => Static[t] = {}
    BY <1>t, <1>6 DEF Store, KeyOK, Asking
  <2>2. \A h \in Targets : h # t => pc'[h] = pc[h] /\ addrs'[h] = addrs[h]
    BY <1>t, <1>6, ThreadKinds DEF Store, Resolved, TypeOK
  <2>3. UNCHANGED <<up, round, heard, only>>
    BY <1>6 DEF Store
  <2> QED
    BY <1>t, <2>1, <2>2, <2>3, HeardKept
<1>7. ASSUME NEW t \in Threads, NEW n \in Networks, NEW h \in Hosts, Lookup(t, n, h),
             t \in Targets => n = "ip" /\ h = t
      PROVE  HeardOK'
  <2>1. \A x \in Targets : x # t => pc'[x] = pc[x] /\ addrs'[x] = addrs[x]
    <3>1. \A x \in Threads : x # t => pc'[x] = pc[x] /\ addrs'[x] = addrs[x]
      BY <1>t, <1>7, OthersStay
    <3> QED
      BY <3>1, ThreadKinds
  <2>2. t \in Targets /\ Static[t] # {} => pc'[t] = "measure" /\ addrs'[t] = Static[t]
    <3> SUFFICES ASSUME t \in Targets, Static[t] # {}
                 PROVE  pc'[t] = "measure" /\ addrs'[t] = Static[t]
      OBVIOUS
    <3>1. n = "ip" /\ h = t /\ Filter(Static[h], n) = Static[h]
      BY <1>7, FilterPicks
    <3>2. /\ addrs' = [addrs EXCEPT ![t] = Filter(Static[h], n)]
          /\ pc' = [pc EXCEPT ![t] = "measure"]
      BY <1>t, <1>7, <3>1, LookupSteps
    <3> QED
      BY <1>t, <3>1, <3>2 DEF TypeOK
  <2>3. UNCHANGED <<up, round, heard, only>>
    BY <1>t, <1>7, LookupSteps
  <2> QED
    BY <1>t, <2>1, <2>2, <2>3, HeardKept
<1>8. ASSUME NEW l \in Lookups, Select(l) PROVE HeardOK'
  <2>1. \A h \in Targets : pc'[h] = pc[h] /\ addrs'[h] = addrs[h]
    BY <1>t, <1>8, ThreadKinds DEF Select, TypeOK
  <2> QED
    BY <1>t, <1>8, <2>1, HeardKept DEF Select
<1>9. ASSUME NEW l \in Lookups, Dialed(l) PROVE HeardOK'
  <2>1. \A h \in Targets : pc'[h] = pc[h] /\ addrs'[h] = addrs[h]
    BY <1>t, <1>9, ThreadKinds DEF Dialed, TypeOK
  <2> QED
    BY <1>t, <1>9, <2>1, HeardKept DEF Dialed
<1>10. ASSUME NEW h \in Targets, Measure(h) PROVE HeardOK'
  <2> SUFFICES ASSUME only # None PROVE HeardOK'
    BY <1>10 DEF Measure, HeardOK
  <2>1. UNCHANGED <<up, round, only>> /\ pc[h] = "measure"
    BY <1>10 DEF Measure
  <2>2. \A x \in Targets : x # h => pc'[x] = pc[x] /\ addrs'[x] = addrs[x]
    BY <1>t, <1>10, ThreadKinds DEF Measure, TypeOK
  <2>3. ASSUME NEW a \in addrs[h], addrs' = [addrs EXCEPT ![h] = @ \ {a}],
               heard' = heard \cup ({FamilyOf[a]} \cap up), UNCHANGED pc
        PROVE  HeardOK'
    <3>1. heard \subseteq heard' /\ heard' \subseteq {only}
      BY <1>t, <2>3 DEF HeardOK
    <3>2. OfFamily(Static[h], only) # {} => only \in heard' \/ OfFamily(addrs'[h], only) # {}
      <4>1. CASE FamilyOf[a] = only
        BY <1>t, <2>3, <4>1 DEF HeardOK
      <4>2. CASE FamilyOf[a] # only
        <5>1. addrs'[h] = addrs[h] \ {a}
          BY <1>t, <2>3, ThreadKinds DEF TypeOK
        <5>2. OfFamily(addrs'[h], only) = OfFamily(addrs[h], only)
          BY <4>2, <5>1 DEF OfFamily
        <5> QED
          BY <1>t, <2>1, <3>1, <5>2 DEF HeardOK
      <4> QED
        BY <4>1, <4>2
    <3> QED
      BY <1>t, <2>1, <2>2, <2>3, <3>1, <3>2 DEF HeardOK
  <2>4. CASE addrs[h] = {} /\ pc' = [pc EXCEPT ![h] = "done"] /\ UNCHANGED <<addrs, heard>>
    <3>1. OfFamily(addrs[h], only) = {}
      BY <2>4 DEF OfFamily
    <3>2. pc'[h] = "done"
      BY <1>t, <2>4, ThreadKinds DEF TypeOK
    <3> QED
      BY <1>t, <2>1, <2>2, <2>4, <3>1, <3>2 DEF HeardOK
  <2> QED
    BY <1>10, <2>3, <2>4 DEF Measure
<1>11. CASE BeginProbe
  <2>1. \A h \in Targets : pc'[h] = "begin"
    BY <1>11, ThreadKinds DEF BeginProbe
  <2>2. ASSUME only' # None PROVE up' = {only'} /\ only' \in Families
    <3>1. Cardinality(up) = 1 /\ only' = (CHOOSE f \in up : TRUE) /\ up' = up
      BY <1>11, <2>2 DEF BeginProbe
    <3>2. PICK f : up = {f}
      BY <1>t, <3>1, SubsetOfFamilies, FS_Singleton DEF TypeOK
    <3> QED
      BY <1>t, <3>1, <3>2 DEF TypeOK
  <2> QED
    BY <1>11, <2>1, <2>2 DEF BeginProbe, HeardOK
<1>12. CASE EndProbe
  BY <1>12 DEF EndProbe, HeardOK
<1>13. CASE EndProber
  BY <1>t, <1>13 DEF EndProber, HeardOK
<1> QED
  BY <1>1, <1>2, <1>3, <1>4, <1>5, <1>6, <1>7, <1>8, <1>9, <1>10, <1>11, <1>12, <1>13,
     ThreadKinds, ThreadsAssumption
  DEF Next, DialLookup, ProbeLookup

-----------------------------------------------------------------------------
LEMMA Invariance == Spec => []IInv
<1>1. IInv /\ [Next]_vars => IInv'
  BY TypeStep, KeyStep, ZoneStep, FreshStep, EntryStep, HeardStep DEF IInv
<1> QED
  BY InitIInv, <1>1, PTL DEF Spec

\* The chain, the prober and their goroutines keep the types of their state.
THEOREM TypeCorrect == Spec => []TypeOK
<1>1. IInv => TypeOK
  BY DEF IInv
<1> QED
  BY Invariance, <1>1, PTL

\* A thread gets addresses from the hosts map, the cache or the inner resolvers.
LEMMA ResolvingSteps ==
  ASSUME TypeOK, [Next]_vars, NEW t \in Threads,
         pc'[t] \in {"select", "measure"}, pc'[t] # pc[t]
  PROVE  Store(t) \/ \E n \in Networks, h \in Hosts : Lookup(t, n, h)
<1> USE DEF worldVars, threadVars, proberVars
<1>1. ~ UNCHANGED vars /\ ~ Tick /\ ~ Switch /\ ~ EndProber /\ \A h \in Hosts : ~ Renumber(h)
  BY DEF vars, Tick, Switch, EndProber, Renumber
<1>2. \A u \in Threads : ~ Answer(u)
  BY DEF Answer, TypeOK
<1>3. ASSUME NEW u \in Threads, Store(u) PROVE u = t
  BY <1>3 DEF Store, Resolved, TypeOK
<1>4. ASSUME NEW u \in Threads, NEW n \in Networks, NEW h \in Hosts, Lookup(u, n, h) PROVE u = t
  BY <1>4, OthersStay
<1>5. \A l \in Lookups : ~ Select(l) /\ ~ Dialed(l)
  BY DEF Select, Dialed, TypeOK
<1>6. \A h \in Targets : ~ Measure(h)
  BY DEF Measure, TypeOK
<1>7. ~ BeginProbe /\ ~ EndProbe
  BY DEF BeginProbe, EndProbe
<1> QED
  BY <1>1, <1>2, <1>3, <1>4, <1>5, <1>6, <1>7, ThreadKinds, ThreadsAssumption
  DEF Next, DialLookup, ProbeLookup

\* An address that DNS has dropped is handed out for less than an entry's
\* lifetime from then on, or than one lookup may take, in whatever order the
\* lookups of its host end: an entry's time is counted from before its lookup
\* (bootstrap/cache.go:48-64).
THEOREM WithdrawnAreForgotten == Spec => WithdrawnIsForgotten
<1>1. IInv /\ [Next]_vars =>
        [\A t \in Threads :
           pc'[t] \in {"select", "measure"} /\ pc[t] # pc'[t] /\ Static[key'[t][2]] = {} =>
             \A a \in addrs'[t] : withdrawn[key'[t][2]][a] < Bound]_vars
  <2> SUFFICES ASSUME IInv, [Next]_vars, NEW t \in Threads,
                      pc'[t] \in {"select", "measure"}, pc[t] # pc'[t],
                      Static[key'[t][2]] = {}, NEW a \in addrs'[t]
               PROVE  withdrawn[key'[t][2]][a] < Bound
    OBVIOUS
  <2>t. TypeOK /\ KeyOK /\ FreshOK /\ EntryOK
    BY DEF IInv
  <2>1. CASE Store(t)
    <3>1. key'[t] = key[t] /\ key[t] \in Keys /\ pc[t] = "store"
      BY <2>t, <2>1 DEF Store, KeyOK, Asking
    <3>2. addrs'[t] = addrs[t]
      BY <2>t, <2>1 DEF Store, Resolved, Known, TypeOK
    <3>3. withdrawn[key[t][2]][a] <= since[t]
      BY <2>t, <3>1, <3>2 DEF FreshOK
    <3>4. since[t] \in 0 .. Timeout /\ withdrawn[key[t][2]][a] \in Int
      BY <2>t, <3>1, <3>2, AgeSteps DEF TypeOK, Keys
    <3> QED
      BY <3>1, <3>3, <3>4, BoundIsAge, TimeAssumption
  <2>2. ASSUME NEW n \in Networks, NEW h \in Hosts, Lookup(t, n, h)
        PROVE  withdrawn[key'[t][2]][a] < Bound
    <3> DEFINE k == <<n, h>>
    <3>1. k \in Keys /\ key'[t] = k /\ k[2] = h
      <4>1. k \in Keys /\ key' = [key EXCEPT ![t] = k]
        BY <2>t, <2>2, LookupSteps
      <4> QED
        BY <2>t, <4>1 DEF TypeOK
    <3>2. Filter(Static[h], n) = {}
      BY <3>1, FilterPicks
    <3>3. Unexpired(k) /\ addrs'[t] = entries[k].addrs
      <4>1. pc' # [pc EXCEPT ![t] = "ask"]
        BY <2>t DEF TypeOK
      <4>2. Unexpired(k) /\ addrs' = [addrs EXCEPT ![t] = entries[k].addrs]
        BY <2>t, <2>2, <3>2, <4>1, LookupSteps
      <4> QED
        BY <2>t, <4>2 DEF TypeOK
    <3>4. entries[k].left \in 0 .. TTL /\ entries[k].left > 0 /\ a \in Addrs
      BY <2>t, <3>1, <3>3, EntryType DEF Unexpired
    <3>5. withdrawn[h][a] + entries[k].left <= TTL
      BY <2>t, <3>1, <3>3 DEF EntryOK
    <3>6. withdrawn[h][a] \in Int
      BY <2>t, <3>4, AgeSteps
    <3> HIDE DEF k
    <3> QED
      BY <3>1, <3>4, <3>5, <3>6, BoundIsAge, TimeAssumption
  <2> QED
    BY <2>t, <2>1, <2>2, ResolvingSteps
<1> QED
  BY Invariance, <1>1, PTL DEF Spec, WithdrawnIsForgotten

\* The prober leaves a dead family: a round all through which the other one
\* only was up ends with that one preferred, if any target has a static address
\* of it (README.md:230-233).
THEOREM DeadFamiliesAreLeft == Spec => DeadFamilyIsLeft
<1>1. IInv /\ [Next]_vars =>
        [/\ round = "probing" /\ round' = "resting"
         /\ \E h \in Targets : OfFamily(Static[h], only) # {}
         => current' = only]_vars
  <2> SUFFICES ASSUME IInv, [Next]_vars, round = "probing", round' = "resting",
                      NEW h \in Targets, OfFamily(Static[h], only) # {}
               PROVE  current' = only
    OBVIOUS
  <2>1. EndProbe
    BY DEF Next, vars, worldVars, proberVars, Tick, Switch, Renumber, Answer, Store, DialLookup,
           Lookup, Select, Dialed, ProbeLookup, Measure, BeginProbe, EndProber
  <2>2. only # None
    <3>1. PICK a \in Static[h] : FamilyOf[a] = only
      BY DEF OfFamily
    <3>2. a \in Addrs
      BY <3>1, AddrsAssumption, ThreadsAssumption
    <3> QED
      BY <3>1, <3>2, AddrsAssumption
  <2>3. heard = {only}
    BY <2>1, <2>2 DEF EndProbe, IInv, HeardOK
  <2> QED
    BY <2>1, <2>3 DEF EndProbe, Choice
<1> QED
  BY Invariance, <1>1, PTL DEF Spec, DeadFamilyIsLeft
=============================================================================
