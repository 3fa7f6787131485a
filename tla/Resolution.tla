----------------------------- MODULE Resolution -----------------------------
(***************************************************************************)
(* How the host names of upstreams become addresses: the static hosts over *)
(* the bootstrap cache over the bootstrap resolvers (internal/bootstrap),  *)
(* and, for a provider in latency mode, the prober that chooses an address *)
(* family and the selector that keeps to it (internal/afp).                *)
(*                                                                         *)
(* Lookups are those of an upstream that dials; the goroutines of a probe  *)
(* are named by their target.  Both use one chain, lookups through the     *)
(* selector.  Latencies are not kept: with both families heard, either may *)
(* be the faster.  What DNS answers, and which family the network carries, *)
(* change at any moment.                                                   *)
(***************************************************************************)
EXTENDS Integers, FiniteSets

CONSTANTS Hosts, Addrs, FamilyOf,  \* FamilyOf : address -> family
          Static,                  \* host -> its addresses in the hosts map
          Networks,                \* of "ip", "ip4" and "ip6"
          Lookups, Targets,        \* Targets : the hosts a round probes
          TTL,                     \* c.ttl, in ticks
          Timeout,                 \* ticks an inner lookup may take
          None

Families == {"ipv4", "ipv6"}

ASSUME AddrsAssumption ==
  /\ FamilyOf \in [Addrs -> Families] /\ None \notin Families
  /\ Static \in [Hosts -> SUBSET Addrs]
ASSUME ThreadsAssumption ==
  /\ Targets \subseteq Hosts /\ Lookups \cap Targets = {}
  /\ "ip" \in Networks /\ Networks \subseteq {"ip", "ip4", "ip6"}
ASSUME TimeAssumption == TTL \in Nat \ {0} /\ Timeout \in Nat \ {0}

Threads == Lookups \cup Targets
Keys == Networks \X Hosts
InZone == -1
NoKey == <<"ip", None>>

VARIABLES zone,       \* host -> the addresses DNS has for it
          withdrawn,  \* history: host -> address -> ticks since DNS dropped it
          up,         \* the families the network carries
          entries,    \* c.cache: key -> None or [addrs, left until expire]
          pc, key,    \* thread -> where it is, what it looks up
          since,      \* thread -> ticks since it read the clock
          addrs,      \* thread -> the addresses it has got
          round,      \* the prober: "new", "probing", "resting" or "gone"
          heard,      \* the families with a count above 0 in this round
          current,    \* p.current
          only        \* history: the family that has been the only one up
                      \* all through this round, or None

worldVars == <<zone, withdrawn, up>>
threadVars == <<pc, key, since, addrs>>
proberVars == <<round, heard, current>>
vars == <<worldVars, entries, threadVars, proberVars, only>>

\* Beyond this age the age of a withdrawn address does not matter.
Bound == IF TTL > Timeout THEN TTL ELSE Timeout + 1

Init ==
  /\ zone = [h \in Hosts |-> Addrs]
  /\ withdrawn = [h \in Hosts |-> [a \in Addrs |-> InZone]]
  /\ up \in SUBSET Families
  /\ entries = [k \in Keys |-> None]
  /\ pc = [t \in Threads |-> "idle"] /\ key = [t \in Threads |-> NoKey]
  /\ since = [t \in Threads |-> 0] /\ addrs = [t \in Threads |-> {}]
  /\ round = "new" /\ heard = {} /\ current = "ipv4"
  /\ only = None

-----------------------------------------------------------------------------
(* The world. *)

\* DNS changes the addresses of a host that is not in the hosts map.
Renumber(h) ==
  /\ Static[h] = {}
  /\ \E S \in SUBSET Addrs :
       /\ zone' = [zone EXCEPT ![h] = S]
       /\ withdrawn' = [withdrawn EXCEPT ![h] = [a \in Addrs |->
            IF a \in S THEN InZone ELSE IF a \in zone[h] THEN 0 ELSE @[a]]]
  /\ UNCHANGED <<up, entries, threadVars, proberVars, only>>

\* A family becomes reachable or unreachable.
Switch ==
  /\ up' \in SUBSET Families
  /\ only' = IF up' = {only} THEN only ELSE None
  /\ UNCHANGED <<zone, withdrawn, entries, threadVars, proberVars>>

\* Mutated: a lifetime that runs on.
RunOn(n) == n - 1
Elapse(n) == IF n > 0 THEN n - 1 ELSE n
Older(n) == IF n = InZone \/ n = Bound THEN n ELSE n + 1
Asking(t) == pc[t] \in {"ask", "store"}

Tick ==
  /\ \A t \in Threads : Asking(t) => since[t] < Timeout
  /\ since' = [t \in Threads |-> since[t] + IF Asking(t) THEN 1 ELSE 0]
  /\ entries' = [k \in Keys |->
       IF entries[k] = None THEN None ELSE [entries[k] EXCEPT !.left = Elapse(@)]]
  /\ withdrawn' = [h \in Hosts |-> [a \in Addrs |-> Older(withdrawn[h][a])]]
  /\ UNCHANGED <<zone, up, pc, key, addrs, proberVars, only>>

-----------------------------------------------------------------------------
(* The chain. *)

OfFamily(S, f) == {a \in S : FamilyOf[a] = f}

\* filterByNetwork
Filter(S, network) ==
  CASE network = "ip4" -> OfFamily(S, "ipv4")
    [] network = "ip6" -> OfFamily(S, "ipv6")
    [] network = "ip"  -> S

\* preferFamily
Prefer(S, f) == IF OfFamily(S, f) = {} THEN S ELSE OfFamily(S, f)

\* Mutated: the prober resolves through the selector.
KnownSelected(t, S) == Prefer(S, current)

\* What the chain returns to a thread: the prober's resolver is the base one;
\* the selector looks at it in a step of its own (Select).
Known(t, S) == S

Resolved(t, S) ==
  /\ pc' = [pc EXCEPT ![t] = IF t \in Targets THEN "measure" ELSE "select"]
  /\ addrs' = [addrs EXCEPT ![t] = IF t \in Targets THEN Known(t, S) ELSE S]

\* now.Before(e.expire)
Unexpired(k) == entries[k] # None /\ entries[k].left > 0

\* LookupNetIP of HostsResolver and, without a static address of the wanted
\* family, of Cache.
Lookup(t, network, h) ==
  LET k == <<network, h>>
      fixed == Filter(Static[h], network) IN
    /\ key' = [key EXCEPT ![t] = k]
    /\ \/ fixed # {} /\ Resolved(t, fixed)
       \/ /\ fixed = {} /\ Unexpired(k)
          /\ Resolved(t, entries[k].addrs)
       \/ /\ fixed = {} /\ ~ Unexpired(k)
          /\ pc' = [pc EXCEPT ![t] = "ask"]
          /\ UNCHANGED addrs
    /\ UNCHANGED <<worldVars, entries, since, proberVars, only>>

DialLookup(l) ==
  /\ pc[l] = "idle"
  /\ \E n \in Networks, h \in Hosts : Lookup(l, n, h)

ProbeLookup(h) == pc[h] = "begin" /\ Lookup(h, "ip", h)

\* The inner resolvers answer, or fail: nothing is stored then.
Answer(t) ==
  /\ pc[t] = "ask"
  /\ \/ LET S == Filter(zone[key[t][2]], key[t][1]) IN
          /\ S # {}
          /\ addrs' = [addrs EXCEPT ![t] = S]
          /\ pc' = [pc EXCEPT ![t] = "store"]
          /\ UNCHANGED <<key, since>>
     \/ /\ pc' = [pc EXCEPT ![t] = IF t \in Targets THEN "done" ELSE "idle"]
        /\ key' = [key EXCEPT ![t] = NoKey] /\ since' = [since EXCEPT ![t] = 0]
        /\ UNCHANGED addrs
  /\ UNCHANGED <<worldVars, entries, proberVars, only>>

\* Mutated: the lifetime starts when the answer is stored.
LifeFromStore(t) == TTL

\* now is read before the inner lookup.
Life(t) == IF since[t] < TTL THEN TTL - since[t] ELSE 0

\* The later of two lookups to end is the one that stays.
Store(t) ==
  /\ pc[t] = "store"
  /\ entries' = [entries EXCEPT ![key[t]] = [addrs |-> addrs[t], left |-> Life(t)]]
  /\ since' = [since EXCEPT ![t] = 0]
  /\ Resolved(t, addrs[t])
  /\ UNCHANGED <<worldVars, key, proberVars, only>>

\* LookupNetIP of Selector, once its inner lookup has returned.
Select(l) ==
  /\ pc[l] = "select"
  /\ addrs' = [addrs EXCEPT ![l] = IF key[l][1] = "ip" THEN Prefer(@, current) ELSE @]
  /\ pc' = [pc EXCEPT ![l] = "dial"]
  /\ UNCHANGED <<worldVars, entries, key, since, proberVars, only>>

\* The dial is over; the lookup may be made again.
Dialed(l) ==
  /\ pc[l] = "dial"
  /\ pc' = [pc EXCEPT ![l] = "idle"] /\ key' = [key EXCEPT ![l] = NoKey]
  /\ addrs' = [addrs EXCEPT ![l] = {}]
  /\ UNCHANGED <<worldVars, entries, since, proberVars, only>>

-----------------------------------------------------------------------------
(* The prober. *)

\* A round starts, at once or with the ticker: one goroutine per target.
BeginProbe ==
  /\ round \in {"new", "resting"}
  /\ round' = "probing" /\ heard' = {}
  /\ pc' = [t \in Threads |-> IF t \in Targets THEN "begin" ELSE pc[t]]
  /\ only' = IF Cardinality(up) = 1 THEN CHOOSE f \in up : TRUE ELSE None
  /\ UNCHANGED <<worldVars, entries, key, since, addrs, current>>

\* measure, one address after the other.
Measure(h) ==
  /\ pc[h] = "measure"
  /\ \/ \E a \in addrs[h] :
          /\ addrs' = [addrs EXCEPT ![h] = @ \ {a}]
          /\ heard' = heard \cup ({FamilyOf[a]} \cap up)
          /\ UNCHANGED <<pc, key>>
     \/ /\ addrs[h] = {}
        /\ pc' = [pc EXCEPT ![h] = "done"] /\ key' = [key EXCEPT ![h] = NoKey]
        /\ UNCHANGED <<addrs, heard>>
  /\ UNCHANGED <<worldVars, entries, since, round, current, only>>

\* The family of the lower average among those that were heard.
Choice(f) == f \in heard

\* wg.Wait returns; without any answer the family stays.
EndProbe ==
  /\ round = "probing" /\ \A h \in Targets : pc[h] = "done"
  /\ \/ heard = {} /\ UNCHANGED current
     \/ \E f \in Families : Choice(f) /\ current' = f
  /\ round' = "resting" /\ heard' = {}
  /\ pc' = [t \in Threads |-> IF t \in Targets THEN "idle" ELSE pc[t]]
  /\ only' = None
  /\ UNCHANGED <<worldVars, entries, key, since, addrs>>

\* The context is done.
EndProber ==
  /\ round = "resting" /\ round' = "gone"
  /\ UNCHANGED <<worldVars, entries, threadVars, heard, current, only>>

Next ==
  \/ Tick \/ Switch
  \/ \E h \in Hosts : Renumber(h)
  \/ \E t \in Threads : Answer(t) \/ Store(t)
  \/ \E l \in Lookups : DialLookup(l) \/ Select(l) \/ Dialed(l)
  \/ \E h \in Targets : ProbeLookup(h) \/ Measure(h)
  \/ BeginProbe \/ EndProbe \/ EndProber

Spec == Init /\ [][Next]_vars

-----------------------------------------------------------------------------
\* Types of the state of the chain, the prober and their goroutines.
TypeOK ==
  /\ zone \in [Hosts -> SUBSET Addrs]
  /\ withdrawn \in [Hosts -> [Addrs -> InZone .. Bound]]
  /\ up \in SUBSET Families
  /\ entries \in [Keys -> [addrs : SUBSET Addrs, left : 0 .. TTL] \cup {None}]
  /\ pc \in [Threads -> {"idle", "begin", "ask", "store", "select", "dial",
                         "measure", "done"}]
  /\ key \in [Threads -> Keys \cup {NoKey}]
  /\ since \in [Threads -> 0 .. Timeout]
  /\ addrs \in [Threads -> SUBSET Addrs]
  /\ round \in {"new", "resting", "probing", "gone"}
  /\ heard \subseteq Families /\ current \in Families
  /\ only \in Families \cup {None}

\* The cache does not keep the past alive: an address that DNS has dropped is
\* handed out for less than TTL from then on, or than one lookup may take,
\* whatever order the lookups of a host are stored in (bootstrap/cache.go:48-64).
WithdrawnIsForgotten ==
  [][\A t \in Threads :
       pc'[t] \in {"select", "measure"} /\ pc[t] # pc'[t] /\ Static[key'[t][2]] = {} =>
         \A a \in addrs'[t] : withdrawn[key'[t][2]][a] < Bound]_vars

\* The prober leaves a dead family: after a round all through which the one
\* family was reachable and the other never was, the reachable one is
\* preferred, whatever was preferred before (README.md:230-233).
DeadFamilyIsLeft ==
  [][/\ round = "probing" /\ round' = "resting"
     /\ \E h \in Targets : OfFamily(Static[h], only) # {}
     => current' = only]_vars
=============================================================================
