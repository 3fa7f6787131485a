---------------------------- MODULE CachingProofs ----------------------------
(***************************************************************************)
(* Theorems about CachingUpstream: its types, one query at a time for each *)
(* key, no older answer over a newer one, and no message shared with the   *)
(* layer above, for any number of keys, calls and lifetimes.               *)
(***************************************************************************)
EXTENDS CachingUpstream, TLAPS

\* The threads whose name is in the coalescer's map.
Leading(t) == pc[t] \in {"query", "leave"}

\* A thread between the two sections of Do owns its key in the map.
FlightOK == \A t \in Threads : Leading(t) => flight[KeyOf(t)] = t

\* A key in the map is that of a thread between the two sections.
TakenOK ==
  \A k \in Keys : flight[k] # None => KeyOf(flight[k]) = k /\ Leading(flight[k])

\* A refresh begins when its call returns a stale answer.
RefreshOK ==
  \A c \in Calls : pc[Caller(c)] \in {"idle", "stale"} => pc[Refresh(c)] = "idle"

\* Entries and queries under way are numbered below the last query, and an
\* entry was asked for no later than the query that may replace it.
NumberOK ==
  /\ \A k \in Keys : entry[k] # None => entry[k].answer <= queries
  /\ \A t \in Threads : pc[t] = "query" =>
       /\ 0 < query[t] /\ query[t] <= queries
       /\ entry[KeyOf(t)] # None => entry[KeyOf(t)].answer <= query[t]

\* Only messages and requests of calls that have returned are ever changed.
ChangedOK ==
  \A x \in changed : \E c \in Calls :
    pc[Caller(c)] = "returned" /\ x \in {Original(Caller(c)), Request(Caller(c))}

\* A waiter has joined a thread.
JoinedOK == \A t \in Threads : pc[t] = "waiting" => joined[t] \in Threads

IInv == TypeOK /\ JoinedOK /\ FlightOK /\ TakenOK /\ RefreshOK /\ NumberOK /\ ChangedOK

\* A thread belongs to a call and has that call's key.
LEMMA ThreadKey ==
  ASSUME TypeOK, NEW t \in Threads
  PROVE  t[1] \in Calls /\ KeyOf(t) \in Keys
BY DEF TypeOK, Threads, KeyOf

LEMMA CallThreads ==
  ASSUME NEW c \in Calls
  PROVE  /\ Caller(c) \in Threads /\ Refresh(c) \in Threads
         /\ Caller(c)[1] = c /\ Caller(c) # Refresh(c)
BY DEF Threads, Caller, Refresh

LEMMA InitIInv == Init => IInv
BY DEF Init, IInv, TypeOK, JoinedOK, FlightOK, TakenOK, RefreshOK, NumberOK, ChangedOK, Leading, Threads, Caller, Refresh

-----------------------------------------------------------------------------
\* What the steps do to the program counters and the entries.
LEMMA TypeStep == IInv /\ [Next]_vars => TypeOK'
<1> SUFFICES ASSUME IInv, [Next]_vars PROVE TypeOK'
  OBVIOUS
<1> USE DEF IInv
<1>t. TypeOK
  OBVIOUS
<1>1. CASE UNCHANGED vars
  BY <1>t, <1>1 DEF TypeOK, vars, callVars, queryVars, flightVars
<1>2. CASE Tick
  <2>1. \A k \in Keys : Present(k) => Older(entry[k]) \in Entries
    BY <1>t DEF TypeOK, Present, Older, Entries
  <2>2. entry' \in [Keys -> Entries \cup {None}]
    BY <1>t, <1>2, <2>1 DEF Tick, TypeOK
  <2> QED
    BY <1>t, <1>2, <2>2 DEF Tick, TypeOK, callVars, queryVars, flightVars
<1>3. ASSUME NEW k \in Keys, Evict(k) PROVE TypeOK'
  BY <1>t, <1>3 DEF Evict, Drop, TypeOK, callVars, queryVars, flightVars
<1>4. ASSUME NEW c \in Calls, Get(c) PROVE TypeOK'
  <2>1. Caller(c) \in Threads /\ key[c] \in Keys
    BY <1>t, CallThreads DEF TypeOK
  <2>2. entry' \in [Keys -> Entries \cup {None}]
    BY <1>t, <1>4, <2>1 DEF Get, Drop, TypeOK
  <2>3. pc' \in [Threads -> {"idle", "stale", "do", "query", "leave", "waiting",
                             "returned"}]
    BY <1>t, <1>4, <2>1 DEF Get, Goto, TypeOK
  <2>4. reply' \in [Threads -> Nat \cup {None}]
    BY <1>t, <1>4, <2>1 DEF Get, Fresh, Present, Entries, TypeOK
  <2> QED
    BY <1>t, <1>4, <2>2, <2>3, <2>4 DEF Get, TypeOK, queryVars, flightVars
<1>5. ASSUME NEW c \in Calls, GetStale(c) PROVE TypeOK'
  <2>1. Caller(c) \in Threads /\ Refresh(c) \in Threads /\ key[c] \in Keys
    BY <1>t, CallThreads DEF TypeOK
  <2>2. entry' \in [Keys -> Entries \cup {None}]
    BY <1>t, <1>5, <2>1 DEF GetStale, Drop, TypeOK
  <2>3. pc' \in [Threads -> {"idle", "stale", "do", "query", "leave", "waiting",
                             "returned"}]
    BY <1>t, <1>5, <2>1 DEF GetStale, Goto, TypeOK
  <2>4. reply' \in [Threads -> Nat \cup {None}] /\ staleHits' \subseteq Calls
    BY <1>t, <1>5, <2>1 DEF GetStale, Stale, Expired, Present, Entries, TypeOK
  <2> QED
    BY <1>t, <1>5, <2>2, <2>3, <2>4 DEF GetStale, TypeOK, queryVars, flightVars
<1>6. ASSUME NEW c \in Calls, GoOn(c) PROVE TypeOK'
  <2>1. changed' \subseteq Threads \X {"original", "snapshot", "request"}
    BY <1>t, <1>6, CallThreads DEF GoOn, Original, Request, TypeOK
  <2> QED
    BY <1>t, <1>6, <2>1 DEF GoOn, TypeOK, callVars, queryVars, flightVars
<1>7. ASSUME NEW t \in Threads, Enter(t) PROVE TypeOK'
  <2>1. KeyOf(t) \in Keys
    BY <1>t, ThreadKey
  <2>2. CASE Leads(t) /\ Goto(t, "query")
    BY <1>t, <1>7, <2>1, <2>2 DEF Enter, Goto, TypeOK
  <2>3. CASE ~ Leads(t)
    BY <1>t, <1>7, <2>1, <2>3 DEF Enter, Leads, Goto, TypeOK
  <2> QED
    BY <1>7, <2>2, <2>3 DEF Enter
<1>8. ASSUME NEW t \in Threads, Answered(t) PROVE TypeOK'
  <2>1. KeyOf(t) \in Keys /\ query[t] \in Nat \ {0}
    BY <1>t, <1>8, ThreadKey DEF Answered, NumberOK, TypeOK
  <2>2. entry' \in [Keys -> Entries \cup {None}] /\ result' \in [Threads -> Nat \cup {None}]
    <3>1. CASE Done(t, 0) /\ OnError(KeyOf(t))
      BY <1>t, <3>1 DEF Done, OnError, TypeOK
    <3>2. ASSUME NEW ttl \in TTLs, Set(KeyOf(t), query[t], ttl), Done(t, query[t])
          PROVE  /\ entry' \in [Keys -> Entries \cup {None}]
                 /\ result' \in [Threads -> Nat \cup {None}]
      <4>1. [answer |-> query[t], left |-> ttl] \in Entries
        BY <2>1, LifetimeAssumption DEF Entries
      <4>2. entry' \in [Keys -> Entries \cup {None}]
        BY <1>t, <2>1, <3>2, <4>1 DEF Set, TypeOK
      <4> QED
        BY <1>t, <2>1, <3>2, <4>2 DEF Done, TypeOK
    <3> QED
      BY <1>8, <3>1, <3>2 DEF Answered
  <2>3. pc' \in [Threads -> {"idle", "stale", "do", "query", "leave", "waiting",
                             "returned"}]
    BY <1>t, <1>8 DEF Answered, Goto, TypeOK
  <2> QED
    BY <1>t, <1>8, <2>2, <2>3 DEF Answered, TypeOK, flightVars
<1>9. ASSUME NEW t \in Threads, Delete(t) PROVE TypeOK'
  <2>1. KeyOf(t) \in Keys
    BY <1>t, ThreadKey
  <2> QED
    BY <1>t, <1>9, <2>1 DEF Delete, Leave, Goto, TypeOK, queryVars
<1>10. ASSUME NEW t \in Threads, Wake(t) PROVE TypeOK'
  <2>1. reply' \in [Threads -> Nat \cup {None}]
    <3>1. result[joined[t]] # None /\ joined[t] \in Threads
      BY <1>10 DEF Wake, JoinedOK
    <3>2. reply' = [reply EXCEPT ![t] = result[joined[t]]]
      BY <1>10 DEF Wake
    <3> QED
      BY <1>t, <3>1, <3>2 DEF TypeOK
  <2> QED
    BY <1>t, <1>10, <2>1 DEF Wake, Goto, TypeOK, queryVars, flightVars
<1> QED
  BY <1>1, <1>2, <1>3, <1>4, <1>5, <1>6, <1>7, <1>8, <1>9, <1>10 DEF Next, Do

-----------------------------------------------------------------------------
\* KeyOf is constant.
LEMMA KeysStay ==
  IInv /\ [Next]_vars => key' = key /\ \A t \in Threads : KeyOf(t)' = KeyOf(t)
<1> SUFFICES ASSUME IInv, [Next]_vars PROVE key' = key
  BY DEF KeyOf
<1> QED
  BY DEF Next, vars, Tick, Evict, Get, GetStale, GoOn, Do, Enter, Answered, Delete,
         Wake, callVars

LEMMA FlightStep == IInv /\ [Next]_vars => FlightOK'
<1> SUFFICES ASSUME IInv, [Next]_vars, NEW s \in Threads, Leading(s)'
             PROVE  flight'[KeyOf(s)] = s
  BY KeysStay DEF FlightOK
<1>t. TypeOK /\ FlightOK /\ KeyOf(s) \in Keys
  BY ThreadKey DEF IInv
<1>1. CASE UNCHANGED <<pc, flight>>
  BY <1>t, <1>1 DEF FlightOK, Leading
<1>4. ASSUME NEW c \in Calls, Get(c) PROVE flight'[KeyOf(s)] = s
  BY <1>t, <1>4, CallThreads DEF Get, Goto, TypeOK, FlightOK, Leading, flightVars
<1>5. ASSUME NEW c \in Calls, GetStale(c) PROVE flight'[KeyOf(s)] = s
  BY <1>t, <1>5, CallThreads DEF GetStale, Goto, TypeOK, FlightOK, Leading, flightVars
<1>7. ASSUME NEW t \in Threads, Enter(t) PROVE flight'[KeyOf(s)] = s
  <2>1. KeyOf(t) \in Keys /\ (s # t => pc'[s] = pc[s])
    BY <1>t, <1>7, ThreadKey DEF Enter, Goto, TypeOK
  <2>2. CASE Leads(t) /\ flight' = [flight EXCEPT ![KeyOf(t)] = t]
    <3>1. CASE s = t
      BY <1>t, <2>1, <2>2, <3>1 DEF TypeOK
    <3>2. CASE s # t
      <4>1. flight[KeyOf(s)] = s /\ flight[KeyOf(t)] = None
        BY <1>t, <2>1, <2>2, <3>2 DEF Leads, FlightOK, Leading
      <4> QED
        BY <1>t, <2>1, <2>2, <4>1, NoneAssumption DEF TypeOK
    <3> QED
      BY <3>1, <3>2
  <2>3. CASE ~ Leads(t)
    BY <1>t, <1>7, <2>1, <2>3 DEF Enter, Leads, Goto, TypeOK, FlightOK, Leading
  <2> QED
    BY <1>7, <2>2, <2>3 DEF Enter
<1>8. ASSUME NEW t \in Threads, Answered(t) PROVE flight'[KeyOf(s)] = s
  BY <1>t, <1>8 DEF Answered, Goto, TypeOK, FlightOK, Leading, flightVars
<1>9. ASSUME NEW t \in Threads, Delete(t) PROVE flight'[KeyOf(s)] = s
  <2>1. s # t /\ Leading(s) /\ flight[KeyOf(t)] = t /\ KeyOf(t) \in Keys
    BY <1>t, <1>9, ThreadKey DEF Delete, Goto, TypeOK, FlightOK, Leading
  <2> QED
    BY <1>t, <1>9, <2>1 DEF Delete, Leave, TypeOK, FlightOK
<1>10. ASSUME NEW t \in Threads, Wake(t) PROVE flight'[KeyOf(s)] = s
  BY <1>t, <1>10 DEF Wake, Goto, TypeOK, FlightOK, Leading, flightVars
<1> QED
  BY <1>1, <1>4, <1>5, <1>7, <1>8, <1>9, <1>10
     DEF Next, Do, vars, callVars, flightVars, Tick, Evict, GoOn

LEMMA RefreshStep == IInv /\ [Next]_vars => RefreshOK'
<1> SUFFICES ASSUME IInv, [Next]_vars, NEW c \in Calls, pc'[Caller(c)] \in {"idle", "stale"}
             PROVE  pc'[Refresh(c)] = "idle"
  BY DEF RefreshOK
<1>t. TypeOK /\ RefreshOK /\ Caller(c) \in Threads /\ Refresh(c) \in Threads
  BY CallThreads DEF IInv
<1>1. CASE UNCHANGED pc
  BY <1>t, <1>1 DEF RefreshOK
<1>4. ASSUME NEW d \in Calls, Get(d) \/ GetStale(d) PROVE pc'[Refresh(c)] = "idle"
  BY <1>t, <1>4, CallThreads DEF Get, GetStale, Goto, TypeOK, RefreshOK, Caller, Refresh
<1>7. ASSUME NEW t \in Threads, Do(t) PROVE pc'[Refresh(c)] = "idle"
  <2>1. pc[t] # "idle" /\ pc' = [pc EXCEPT ![t] = pc'[t]] /\ pc'[t] \notin {"idle", "stale"}
    BY <1>t, <1>7 DEF Do, Enter, Answered, Delete, Wake, Goto, TypeOK
  <2> QED
    BY <1>t, <2>1 DEF TypeOK, RefreshOK
<1> QED
  BY <1>1, <1>4, <1>7 DEF Next, vars, callVars, Tick, Evict, GoOn

LEMMA TakenStep == IInv /\ [Next]_vars => TakenOK'
<1> SUFFICES ASSUME IInv, [Next]_vars
             PROVE  \A k \in Keys : flight'[k] # None =>
                      /\ KeyOf(flight'[k]) = k
                      /\ pc'[flight'[k]] \in {"query", "leave"}
  BY KeysStay DEF TakenOK, Leading, KeyOf
<1> TAKE k \in Keys
<1> HAVE flight'[k] # None
<1> DEFINE s == flight'[k]
<1>t. TypeOK /\ FlightOK /\ TakenOK /\ RefreshOK
  BY DEF IInv
<1>1. CASE UNCHANGED <<pc, flight>>
  BY <1>t, <1>1 DEF TakenOK, Leading
<1>4. ASSUME NEW c \in Calls, Get(c) \/ GetStale(c) PROVE KeyOf(s) = k /\ pc'[s] \in {"query", "leave"}
  <2>1. KeyOf(s) = k /\ Leading(s) /\ s \in Threads
    BY <1>t, <1>4 DEF Get, GetStale, flightVars, TakenOK, TypeOK
  <2>2. s # Caller(c) /\ s # Refresh(c)
    BY <1>t, <1>4, <2>1 DEF Get, GetStale, Leading, RefreshOK
  <2> QED
    BY <1>t, <1>4, <2>1, <2>2 DEF Get, GetStale, Goto, TypeOK, Leading
<1>7. ASSUME NEW t \in Threads, Enter(t) PROVE KeyOf(s) = k /\ pc'[s] \in {"query", "leave"}
  <2>1. KeyOf(t) \in Keys /\ pc[t] = "do"
    BY <1>t, <1>7, ThreadKey DEF Enter
  <2>2. CASE Leads(t) /\ flight' = [flight EXCEPT ![KeyOf(t)] = t] /\ pc' = [pc EXCEPT ![t] = "query"]
    <3>1. CASE k = KeyOf(t)
      BY <1>t, <2>1, <2>2, <3>1 DEF TypeOK, Leading
    <3>2. CASE k # KeyOf(t)
      BY <1>t, <2>1, <2>2, <3>2 DEF TypeOK, TakenOK, Leading
    <3> QED
      BY <3>1, <3>2
  <2>3. CASE UNCHANGED flight /\ pc' = [pc EXCEPT ![t] = "waiting"]
    BY <1>t, <2>1, <2>3 DEF TypeOK, TakenOK, Leading
  <2> QED
    BY <1>7, <2>2, <2>3 DEF Enter, Goto
<1>8. ASSUME NEW t \in Threads, Answered(t) PROVE KeyOf(s) = k /\ pc'[s] \in {"query", "leave"}
  BY <1>t, <1>8 DEF Answered, Goto, TypeOK, TakenOK, Leading, flightVars
<1>9. ASSUME NEW t \in Threads, Delete(t) PROVE KeyOf(s) = k /\ pc'[s] \in {"query", "leave"}
  <2>1. KeyOf(t) \in Keys /\ flight[KeyOf(t)] = t
    BY <1>t, <1>9, ThreadKey DEF Delete, FlightOK, Leading
  <2>2. k # KeyOf(t) /\ s = flight[k]
    BY <1>t, <1>9, <2>1 DEF Delete, Leave, TypeOK
  <2>3. s # t /\ KeyOf(s) = k /\ Leading(s)
    BY <1>t, <2>2 DEF TakenOK
  <2> QED
    BY <1>t, <1>9, <2>3 DEF Delete, Goto, TypeOK, Leading
<1>10. ASSUME NEW t \in Threads, Wake(t) PROVE KeyOf(s) = k /\ pc'[s] \in {"query", "leave"}
  BY <1>t, <1>10 DEF Wake, Goto, TypeOK, TakenOK, Leading, flightVars
<1> QED
  BY <1>1, <1>4, <1>7, <1>8, <1>9, <1>10
     DEF Next, Do, vars, callVars, flightVars, Tick, Evict, GoOn

LEMMA JoinedStep == IInv /\ [Next]_vars => JoinedOK'
<1> SUFFICES ASSUME IInv, [Next]_vars, NEW s \in Threads, pc'[s] = "waiting"
             PROVE  joined'[s] \in Threads
  BY KeysStay DEF JoinedOK
<1>t. TypeOK /\ JoinedOK
  BY DEF IInv
<1>1. CASE UNCHANGED <<pc, joined>>
  BY <1>t, <1>1 DEF JoinedOK
<1>4. ASSUME NEW c \in Calls, Get(c)
      PROVE  joined'[s] \in Threads
  BY <1>t, <1>4, CallThreads DEF Get, Goto, TypeOK, JoinedOK, flightVars
<1>5. ASSUME NEW c \in Calls, GetStale(c)
      PROVE  joined'[s] \in Threads
  BY <1>t, <1>5, CallThreads DEF GetStale, Goto, TypeOK, JoinedOK, flightVars
<1>7. ASSUME NEW t \in Threads, Enter(t)
      PROVE  joined'[s] \in Threads
  <2>1. KeyOf(t) \in Keys
    BY <1>t, ThreadKey
  <2>2. CASE Leads(t)
    BY <1>t, <1>7, <2>2 DEF Enter, Goto, TypeOK, JoinedOK, Leads
  <2>3. CASE ~ Leads(t)
    <3>1. flight[KeyOf(t)] \in Threads
      BY <1>t, <2>1, <2>3 DEF Leads, TypeOK
    <3>2. joined' = [joined EXCEPT ![t] = flight[KeyOf(t)]]
      BY <1>7, <2>3 DEF Enter
    <3> QED
      BY <1>t, <1>7, <3>1, <3>2 DEF Enter, Goto, TypeOK, JoinedOK
  <2> QED
    BY <2>2, <2>3
<1>8. ASSUME NEW t \in Threads, Answered(t) \/ Delete(t) \/ Wake(t)
      PROVE  joined'[s] \in Threads
  BY <1>t, <1>8 DEF Answered, Delete, Wake, Goto, TypeOK, JoinedOK, flightVars
<1> QED
  BY <1>1, <1>4, <1>5, <1>7, <1>8
     DEF Next, Do, vars, callVars, flightVars, Tick, Evict, GoOn

-----------------------------------------------------------------------------
(* The numbers of the queries: an answer that is stored is no older than the *)
(* entry it replaces.                                                        *)

\* No other query is under way for a key with a query under way.
LEMMA OnlyQuery ==
  ASSUME FlightOK, NEW s \in Threads, NEW t \in Threads,
         pc[s] = "query", pc[t] = "query", KeyOf(s) = KeyOf(t)
  PROVE  s = t
BY DEF FlightOK, Leading

\* The entries a step may leave: none, the one there was, an older copy of it,
\* or the answer to a query that ends in this step.
LEMMA EntrySteps ==
  ASSUME IInv, [Next]_vars, NEW k \in Keys, entry'[k] # None
  PROVE  \/ entry[k] # None /\ entry'[k].answer = entry[k].answer
         \/ \E t \in Threads :
              Answered(t) /\ KeyOf(t) = k /\ entry'[k].answer = query[t]
<1>t. TypeOK
  BY DEF IInv
<1>1. CASE UNCHANGED entry
  BY <1>1
<1>2. CASE Tick
  <2>1. entry[k] # None /\ entry'[k] = Older(entry[k])
    BY <1>2 DEF Tick, Present
  <2>2. entry[k] \in Entries
    BY <1>t, <2>1 DEF TypeOK
  <2> QED
    BY <2>1, <2>2 DEF Older, Entries
<1>3. ASSUME NEW l \in Keys, Drop(l)
      PROVE  entry[k] # None /\ entry'[k].answer = entry[k].answer
  BY <1>t, <1>3 DEF Drop, TypeOK
<1>8. ASSUME NEW t \in Threads, Answered(t), ~ UNCHANGED entry
      PROVE  \/ entry[k] # None /\ entry'[k].answer = entry[k].answer
             \/ Answered(t) /\ KeyOf(t) = k /\ entry'[k].answer = query[t]
  <2>1. PICK ttl \in TTLs :
          entry' = [entry EXCEPT ![KeyOf(t)] = [answer |-> query[t], left |-> ttl]]
    BY <1>8 DEF Answered, OnError, Set
  <2> QED
    BY <1>t, <1>8, <2>1 DEF TypeOK
<1>9. \A c \in Calls : key[c] \in Keys
  BY <1>t DEF TypeOK
<1> QED
  BY <1>1, <1>2, <1>3, <1>8, <1>9
     DEF Next, vars, Do, Evict, Get, GetStale, GoOn, Enter, Delete, Wake

LEMMA NumberStep == IInv /\ [Next]_vars => NumberOK'
<1> SUFFICES ASSUME IInv, [Next]_vars PROVE NumberOK'
  OBVIOUS
<1>t. TypeOK /\ FlightOK /\ NumberOK
  BY DEF IInv
<1>1. queries' \in Nat /\ queries <= queries'
  BY <1>t DEF TypeOK, Next, vars, Tick, Evict, Get, GetStale, GoOn, Do, Enter,
              Answered, Delete, Wake, queryVars
<1>2. ASSUME NEW k \in Keys, entry'[k] # None
      PROVE  entry'[k].answer \in Nat /\ entry'[k].answer <= queries
  <2>1. CASE entry[k] # None /\ entry'[k].answer = entry[k].answer
    BY <1>t, <2>1 DEF TypeOK, Entries, NumberOK
  <2>2. CASE \E t \in Threads :
               Answered(t) /\ KeyOf(t) = k /\ entry'[k].answer = query[t]
    BY <1>t, <2>2 DEF TypeOK, NumberOK, Answered
  <2> QED
    BY <1>2, <2>1, <2>2, EntrySteps
<1>3. ASSUME NEW s \in Threads, pc'[s] = "query"
      PROVE  \/ pc[s] = "query" /\ query'[s] = query[s]
             \/ query'[s] = queries + 1 /\ queries' = queries + 1
  <2>1. ASSUME NEW t \in Threads, Enter(t)
        PROVE  \/ pc[s] = "query" /\ query'[s] = query[s]
               \/ query'[s] = queries + 1 /\ queries' = queries + 1
    BY <1>t, <1>3, <2>1 DEF Enter, Goto, TypeOK
  <2>2. CASE UNCHANGED query /\ pc[s] = "query"
    BY <2>2
  <2>3. CASE UNCHANGED <<pc, query>>
    BY <1>3, <2>3
  <2>4. ASSUME NEW c \in Calls, Get(c) \/ GetStale(c) PROVE UNCHANGED query /\ pc[s] = "query"
    BY <1>t, <1>3, <2>4, CallThreads DEF Get, GetStale, Goto, TypeOK, queryVars
  <2>5. ASSUME NEW t \in Threads, Answered(t) \/ Delete(t) \/ Wake(t)
        PROVE  UNCHANGED query /\ pc[s] = "query"
    BY <1>t, <1>3, <2>5 DEF Answered, Delete, Wake, Goto, TypeOK, queryVars
  <2> QED
    BY <2>1, <2>2, <2>3, <2>4, <2>5
       DEF Next, Do, vars, callVars, queryVars, Tick, Evict, GoOn
<1>4. ASSUME NEW s \in Threads, pc'[s] = "query"
      PROVE  /\ 0 < query'[s] /\ query'[s] <= queries'
             /\ entry'[KeyOf(s)] # None => entry'[KeyOf(s)].answer <= query'[s]
  <2>k. KeyOf(s) \in Keys
    BY <1>t, ThreadKey
  <2>1. CASE query'[s] = queries + 1 /\ queries' = queries + 1
    BY <1>t, <1>2, <2>k, <2>1 DEF TypeOK
  <2>2. CASE pc[s] = "query" /\ query'[s] = query[s]
    <3>1. ASSUME NEW t \in Threads, Answered(t), KeyOf(t) = KeyOf(s) PROVE FALSE
      <4>1. pc[t] = "query" /\ pc'[t] = "leave"
        BY <1>t, <3>1 DEF Answered, Goto, TypeOK
      <4> QED
        BY <1>t, <1>4, <2>2, <3>1, <4>1, OnlyQuery
    <3>2. entry'[KeyOf(s)] # None =>
            /\ entry[KeyOf(s)] # None
            /\ entry'[KeyOf(s)].answer = entry[KeyOf(s)].answer
      BY <2>k, <3>1, EntrySteps
    <3> QED
      BY <1>t, <1>1, <2>2, <3>2 DEF NumberOK, TypeOK
  <2> QED
    BY <1>3, <1>4, <2>1, <2>2
<1>5. \A k \in Keys : entry'[k] # None => entry'[k].answer <= queries'
  BY <1>t, <1>1, <1>2 DEF TypeOK
<1> QED
  BY <1>4, <1>5, KeysStay DEF NumberOK

LEMMA ChangedStep == IInv /\ [Next]_vars => ChangedOK'
<1> SUFFICES ASSUME IInv, [Next]_vars, NEW x \in changed'
             PROVE  \E c \in Calls :
                      pc'[Caller(c)] = "returned" /\ x \in {Original(Caller(c)), Request(Caller(c))}
  BY DEF ChangedOK, Original, Request
<1>t. TypeOK /\ ChangedOK
  BY DEF IInv
<1>1. ASSUME NEW c \in Calls, pc[Caller(c)] = "returned"
      PROVE  pc'[Caller(c)] = "returned"
  BY <1>t, <1>1, CallThreads
     DEF TypeOK, Next, vars, callVars, Tick, Evict, Get, GetStale, GoOn, Do, Enter,
         Answered, Delete, Wake, Goto, Caller, Refresh
<1>2. CASE x \in changed
  BY <1>t, <1>1, <1>2 DEF ChangedOK
<1>3. CASE x \notin changed
  <2>1. PICK c \in Calls : GoOn(c)
    BY <1>3 DEF Next, vars, Tick, Evict, Get, GetStale, Do, Enter, Answered, Delete, Wake
  <2> QED
    BY <1>1, <1>3, <2>1 DEF GoOn
<1> QED
  BY <1>2, <1>3

-----------------------------------------------------------------------------
LEMMA Invariance == Spec => []IInv
<1>1. IInv /\ [Next]_vars => IInv'
  BY TypeStep, JoinedStep, FlightStep, RefreshStep, TakenStep, NumberStep, ChangedStep DEF IInv
<1> QED
  BY InitIInv, <1>1, PTL DEF Spec

\* Every reachable state of cachingUpstream and its coalescer is well typed;
\* in particular no entry of the cache holds the nil answer of a failed query.
THEOREM TypeCorrect == Spec => []TypeOK
<1>1. IInv => TypeOK
  BY DEF IInv
<1> QED
  BY Invariance, <1>1, PTL

\* The coalescer never has two queries for one key under way, whatever calls
\* and refreshes meet in Do, and a key is taken only while its query is under
\* way (coalescer.go:9-11, 54-56).
THEOREM OneQuery == Spec => []OneQueryPerKey
<1>1. IInv => OneQueryPerKey
  BY DEF IInv, FlightOK, TakenOK, Leading, OneQueryPerKey
<1> QED
  BY Invariance, <1>1, PTL

\* No late answer overwrites a newer entry of the cache: the query that stores
\* is the only one for its key, and it began after the entry's.
THEOREM NeverOlder == Spec => EntryNeverOlder
<1>1. IInv /\ [Next]_vars =>
        [\A k \in Keys : entry[k] # None /\ entry'[k] # None =>
           entry'[k].answer >= entry[k].answer]_vars
  <2> SUFFICES ASSUME IInv, [Next]_vars, NEW k \in Keys, entry[k] # None, entry'[k] # None
               PROVE  entry'[k].answer >= entry[k].answer
    OBVIOUS
  <2>1. TypeOK /\ NumberOK
    BY DEF IInv
  <2>2. entry[k].answer \in Nat
    BY <2>1 DEF TypeOK, Entries
  <2>3. ASSUME NEW t \in Threads, Answered(t), KeyOf(t) = k, entry'[k].answer = query[t]
        PROVE  entry'[k].answer >= entry[k].answer
    BY <2>1, <2>2, <2>3 DEF Answered, NumberOK, TypeOK
  <2> QED
    BY <2>2, <2>3, EntrySteps
<1> QED
  BY Invariance, <1>1, PTL DEF Spec, EntryNeverOlder

\* Neither a waiter nor a refresh reads an object the layer above may change:
\* the waiter has the snapshot, the refresh its copy of the request
\* (coalescer.go:48-50, racing.go:230-232).
THEOREM NothingShared == Spec => []NothingSharedIsChanged
<1>1. IInv => NothingSharedIsChanged
  <2> SUFFICES ASSUME IInv, NEW t \in Threads
               PROVE  /\ pc[t] = "waiting" => Shared(t) \notin changed
                      /\ pc[t] = "query" => Sent(t) \notin changed
    BY DEF NothingSharedIsChanged
  <2>1. ChangedOK
    BY DEF IInv
  <2>2. Shared(t) \notin changed
    BY <2>1 DEF ChangedOK, Shared, Snapshot, Original, Request
  <2>3. ASSUME pc[t] = "query", Sent(t) \in changed PROVE FALSE
    BY <2>1, <2>3 DEF ChangedOK, Sent, Original, Request
  <2> QED
    BY <2>2, <2>3
<1> QED
  BY Invariance, <1>1, PTL
=============================================================================
