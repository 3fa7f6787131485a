--------------------------- MODULE CachingUpstream ---------------------------
(***************************************************************************)
(* cachingUpstream.Exchange (internal/scheduler/racing.go) over the        *)
(* coalescer (coalescer.go): an answer comes from the cache, fresh or      *)
(* stale, or from one shared query of the upstream; a stale answer starts  *)
(* a query in the background.                                              *)
(*                                                                         *)
(* Each client call has two threads: the call itself and the refresh it    *)
(* may start.  An answer of the upstream is the number of the query that   *)
(* brought it.  Of the cache (module Cache) a key has at most one entry    *)
(* with its age; entries of other keys may evict it at any moment.  The    *)
(* layer above changes the request and the message of a call once that     *)
(* call has returned; the upstream is taken to be done with a request when *)
(* its Exchange returns (module Racing shows where it is not).  Requests   *)
(* that have no key bypass all of this.                                    *)
(***************************************************************************)
EXTENDS Integers

CONSTANTS Keys, Calls,
          TTLs,           \* lifetimes Set may give; 0: it stores nothing
          StaleMaxAge,    \* ticks an entry is kept after its lifetime
          None

ASSUME LifetimeAssumption == TTLs \subseteq Nat /\ StaleMaxAge \in Nat

Threads == Calls \X {"call", "refresh"}
Caller(c) == <<c, "call">>
Refresh(c) == <<c, "refresh">>

ASSUME NoneAssumption == None \notin Threads /\ None \notin Nat

VARIABLES pc,        \* thread -> where it is
          key,       \* call -> the key of its request
          queries,   \* number of queries sent so far
          query,     \* thread -> the query it made, 0 before
          result,    \* thread -> c.resp of its coalesceCall: an answer, 0 for
                     \* an error, None while the query runs
          flight,    \* g.m: key -> the thread that makes the query, or None
          joined,    \* thread -> the thread whose result it waits for
          entry,     \* key -> None or [answer, left: ticks until it expires]
          reply,     \* thread -> the answer it returned, 0 for an error
          staleHits, \* history: the calls that returned a stale answer
          changed    \* objects the layer above has changed since they returned

callVars == <<pc, key>>
queryVars == <<queries, query, result>>
flightVars == <<flight, joined>>
vars == <<callVars, queryVars, flightVars, entry, reply, staleHits, changed>>

Entries == [answer : Nat \ {0}, left : Int]

\* The two copies of what a query brought, and the request of a call.
Original(t) == <<t, "original">>
Snapshot(t) == <<t, "snapshot">>
Request(t) == <<t, "request">>

Init ==
  /\ pc = [t \in Threads |-> "idle"]
  /\ key \in [Calls -> Keys]
  /\ queries = 0
  /\ query = [t \in Threads |-> 0] /\ result = [t \in Threads |-> None]
  /\ flight = [k \in Keys |-> None] /\ joined = [t \in Threads |-> None]
  /\ entry = [k \in Keys |-> None]
  /\ reply = [t \in Threads |-> None]
  /\ staleHits = {} /\ changed = {}

KeyOf(t) == key[t[1]]
Goto(t, p) == pc' = [pc EXCEPT ![t] = p]

-----------------------------------------------------------------------------
(* The cache, as the calls see it. *)

Present(k) == entry[k] # None
Fresh(k) == Present(k) /\ entry[k].left >= 0
Expired(k) == Present(k) /\ entry[k].left <= 0
Gone(k) == Present(k) /\ entry[k].left < - StaleMaxAge
Stale(k) == StaleMaxAge > 0 /\ Expired(k) /\ ~ Gone(k)
Drop(k) == entry' = [entry EXCEPT ![k] = None]

\* Set: an answer that may not be stored leaves an older entry in place.
Set(k, a, ttl) ==
  entry' = IF ttl = 0 THEN entry
           ELSE [entry EXCEPT ![k] = [answer |-> a, left |-> ttl]]

\* evictFor, for a key that needs the room.
Evict(k) ==
  /\ Present(k) /\ Drop(k)
  /\ UNCHANGED <<callVars, queryVars, flightVars, reply, staleHits, changed>>

-----------------------------------------------------------------------------
(* Exchange. *)

\* cache.Get: hit, or on to GetStale.
Get(c) ==
  /\ pc[Caller(c)] = "idle"
  /\ \/ /\ Fresh(key[c])
        /\ reply' = [reply EXCEPT ![Caller(c)] = entry[key[c]].answer]
        /\ Goto(Caller(c), "returned")
        /\ UNCHANGED entry
     \/ /\ ~ Fresh(key[c])
        /\ Goto(Caller(c), "stale")
        /\ IF Gone(key[c]) THEN Drop(key[c]) ELSE UNCHANGED entry
        /\ UNCHANGED reply
  /\ UNCHANGED <<key, queryVars, flightVars, staleHits, changed>>

\* Mutated: the stale answer is returned and nothing is refreshed.
GetStaleOnly(c) ==
  /\ pc[Caller(c)] = "stale"
  /\ \/ /\ Stale(key[c])
        /\ reply' = [reply EXCEPT ![Caller(c)] = entry[key[c]].answer]
        /\ staleHits' = staleHits \cup {c}
        /\ Goto(Caller(c), "returned")
        /\ UNCHANGED entry
     \/ /\ ~ Stale(key[c])
        /\ Goto(Caller(c), "do")
        /\ IF StaleMaxAge > 0 /\ Gone(key[c]) THEN Drop(key[c]) ELSE UNCHANGED entry
        /\ UNCHANGED <<reply, staleHits>>
  /\ UNCHANGED <<key, queryVars, flightVars, changed>>

\* cache.GetStale: a stale answer is returned at once and a refresh begins
\* (refreshAsync); any other case goes to the coalescer.
GetStale(c) ==
  /\ pc[Caller(c)] = "stale"
  /\ \/ /\ Stale(key[c])
        /\ reply' = [reply EXCEPT ![Caller(c)] = entry[key[c]].answer]
        /\ staleHits' = staleHits \cup {c}
        /\ pc' = [pc EXCEPT ![Caller(c)] = "returned", ![Refresh(c)] = "do"]
        /\ UNCHANGED entry
     \/ /\ ~ Stale(key[c])
        /\ Goto(Caller(c), "do")
        /\ IF StaleMaxAge > 0 /\ Gone(key[c]) THEN Drop(key[c]) ELSE UNCHANGED entry
        /\ UNCHANGED <<reply, staleHits>>
  /\ UNCHANGED <<key, queryVars, flightVars, changed>>

-----------------------------------------------------------------------------
(* coalescer.Do. *)

\* Mutated: the background refresh does not look for a query under way.
LeadsAnyway(t) == flight[KeyOf(t)] = None \/ t = Refresh(t[1])
Leads(t) == flight[KeyOf(t)] = None

\* The first section under g.mu: become the one who asks, or wait for it.
Enter(t) ==
  /\ pc[t] = "do"
  /\ \/ /\ Leads(t)
        /\ flight' = [flight EXCEPT ![KeyOf(t)] = t]
        /\ queries' = queries + 1
        /\ query' = [query EXCEPT ![t] = queries']
        /\ Goto(t, "query")
        /\ UNCHANGED joined
     \/ /\ ~ Leads(t)
        /\ joined' = [joined EXCEPT ![t] = flight[KeyOf(t)]]
        /\ Goto(t, "waiting")
        /\ UNCHANGED <<flight, queries, query>>
  /\ UNCHANGED <<key, result, entry, reply, staleHits, changed>>

\* The request a thread sends: its own, or refreshAsync's copy of it.
\* Mutated: the refresh uses the request of the call.
SentUncopied(t) == Request(Caller(t[1]))
Sent(t) == Request(t)

\* Mutated: after an error the waiters are not woken.
DoneIfAnswered(t, a) == result' = [result EXCEPT ![t] = IF a = 0 THEN None ELSE a]
Done(t, a) == result' = [result EXCEPT ![t] = a]

\* fn of Exchange and of refreshAsync stores nothing when the query fails.
\* Mutated: the error is looked at after Set.
OnErrorStored(k) == entry' = [entry EXCEPT ![k] = [answer |-> 0, left |-> 1]]
OnError(k) == UNCHANGED entry

\* fn returns, having stored what it could; the snapshot is taken and the
\* waiters are woken (wg.Done).
Answered(t) ==
  /\ pc[t] = "query"
  /\ \/ \E ttl \in TTLs : Set(KeyOf(t), query[t], ttl) /\ Done(t, query[t])
     \/ Done(t, 0) /\ OnError(KeyOf(t))
  /\ Goto(t, "leave")
  /\ UNCHANGED <<key, queries, query, flightVars, reply, staleHits, changed>>

\* Mutated: the key is left in the map after an error.
LeaveIfAnswered(t) ==
  flight' = IF result[t] = 0 THEN flight ELSE [flight EXCEPT ![KeyOf(t)] = None]
Leave(t) == flight' = [flight EXCEPT ![KeyOf(t)] = None]

\* The second section under g.mu; the leader returns its own message.
Delete(t) ==
  /\ pc[t] = "leave"
  /\ Leave(t)
  /\ reply' = [reply EXCEPT ![t] = result[t]]
  /\ Goto(t, "returned")
  /\ UNCHANGED <<key, queryVars, joined, entry, staleHits, changed>>

\* The message a waiter copies.
Shared(t) == Snapshot(joined[t])

\* wg.Wait returns: the waiter copies the result.
Wake(t) ==
  /\ pc[t] = "waiting" /\ result[joined[t]] # None
  /\ reply' = [reply EXCEPT ![t] = result[joined[t]]]
  /\ Goto(t, "returned")
  /\ UNCHANGED <<key, queryVars, flightVars, entry, staleHits, changed>>

\* dnsproxy goes on with a call that has returned: it rewrites the message,
\* and the request is its own again.
GoOn(c) ==
  /\ pc[Caller(c)] = "returned"
  /\ changed' = changed \cup {Original(Caller(c)), Request(Caller(c))}
  /\ UNCHANGED <<callVars, queryVars, flightVars, entry, reply, staleHits>>

\* An entry is not aged beyond the end of its stale time.
Older(e) == [e EXCEPT !.left = IF @ < - StaleMaxAge THEN @ ELSE @ - 1]

Tick ==
  /\ entry' = [k \in Keys |-> IF Present(k) THEN Older(entry[k]) ELSE None]
  /\ UNCHANGED <<callVars, queryVars, flightVars, reply, staleHits, changed>>

Do(t) == Enter(t) \/ Answered(t) \/ Delete(t) \/ Wake(t)

Next ==
  \/ Tick
  \/ \E k \in Keys : Evict(k)
  \/ \E c \in Calls : Get(c) \/ GetStale(c) \/ GoOn(c)
  \/ \E t \in Threads : Do(t)

Spec == Init /\ [][Next]_vars

\* Goroutines run, and an exchange with the upstream ends by its timeout.
\* When a client calls, and how the clock runs, is left open.
Fairness ==
  /\ \A c \in Calls : WF_vars(GetStale(c))
  /\ \A t \in Threads : WF_vars(Do(t))

FairSpec == Spec /\ Fairness

-----------------------------------------------------------------------------
\* Types of the state of cachingUpstream, its coalescer and its calls; no entry
\* holds the nil answer of a failed query.
TypeOK ==
  /\ pc \in [Threads -> {"idle", "stale", "do", "query", "leave", "waiting",
                         "returned"}]
  /\ key \in [Calls -> Keys]
  /\ queries \in Nat /\ query \in [Threads -> Nat]
  /\ result \in [Threads -> Nat \cup {None}]
  /\ flight \in [Keys -> Threads \cup {None}]
  /\ joined \in [Threads -> Threads \cup {None}]
  /\ entry \in [Keys -> Entries \cup {None}]
  /\ reply \in [Threads -> Nat \cup {None}]
  /\ staleHits \subseteq Calls
  /\ changed \subseteq Threads \X {"original", "snapshot", "request"}

\* However calls and refreshes interleave, the upstream is never asked twice
\* at a time for one key, and a key is taken only while its query is under
\* way: the next miss asks anew, after an error too (coalescer.go:9-11, 54-56).
OneQueryPerKey ==
  /\ \A s, t \in Threads :
       pc[s] = "query" /\ pc[t] = "query" /\ KeyOf(s) = KeyOf(t) => s = t
  /\ \A k \in Keys : flight[k] # None =>
       KeyOf(flight[k]) = k /\ pc[flight[k]] \in {"query", "leave"}

\* The cache never goes back in time: an entry is not overwritten by the
\* answer to a query that was sent before the one it holds.
EntryNeverOlder ==
  [][\A k \in Keys : entry[k] # None /\ entry'[k] # None =>
       entry'[k].answer >= entry[k].answer]_vars

\* Nobody reads what the layer above may be changing: waiters copy a message
\* that no one else has, and a query in the background has a request of its
\* own (coalescer.go:48-50, racing.go:230-232).
NothingSharedIsChanged ==
  \A t \in Threads :
    /\ pc[t] = "waiting" => Shared(t) \notin changed
    /\ pc[t] = "query" => Sent(t) \notin changed

\* Every call that missed the cache returns, whatever the outcome of the query
\* it made or joined.
EveryCallReturns ==
  \A c \in Calls : pc[Caller(c)] \in {"stale", "do"} ~> pc[Caller(c)] = "returned"

\* A stale answer is followed by a query that ends after it, so the entry is
\* renewed unless that query fails (racing.go:186-187).
StaleIsRefreshed == \A c \in Calls : c \in staleHits ~> reply[Refresh(c)] # None
=============================================================================
