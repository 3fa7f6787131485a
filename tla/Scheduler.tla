------------------------------ MODULE Scheduler ------------------------------
(***************************************************************************)
(* One Scheduler of internal/scheduler/scheduler.go: the loop that probes  *)
(* every line, publishes the selected ones for the request handlers and    *)
(* closes the others, with the requests that use a published snapshot.     *)
(*                                                                         *)
(* A key is the string provider+"\x00"+address; a line object (an          *)
(* upstream.Upstream) is an identity of Ids, free to be used again once it *)
(* is closed and nothing refers to it.  Round-trip times are not kept: any *)
(* line that answered its probe may be the fastest of its provider.  Time  *)
(* is counted in ticks by timers that run down; a timer at 0 may fire late *)
(* (time.AfterFunc promises no more), a request never outlives             *)
(* ProbeTimeout (the Timeout the upstream options are built with).         *)
(***************************************************************************)
EXTENDS Integers, FiniteSets

CONSTANTS Providers, Keys, ProviderOf,   \* ProviderOf : key -> provider
          Ids, None,                     \* line objects; None is no object
          Requests,
          ProbeTimeout,                  \* ticks a request may last
          Delays                         \* delays Retire is called with

ASSUME KeysAssumption == ProviderOf \in [Keys -> Providers]
ASSUME IdsAssumption == None \notin Ids
ASSUME TimeAssumption == ProbeTimeout \in Nat \ {0} /\ Delays \subseteq Nat

VARIABLES phase,       \* where the goroutine of Start is
          live,        \* s.live: key -> selected line or None
          signature,   \* s.signature: the keys selected by the last change
          current,     \* the lines in s.current, {} for nil
          fresh,       \* key -> line opened by the round under way
          selected,    \* the keys chosen by the last round
          open,        \* the line objects that are not closed
          closeIn,     \* line -> ticks until its delayed Close, or NoTimer
          cancelled,   \* the context of Start is cancelled
          grace,       \* s.grace
          exitGrace,   \* the grace the exiting loop read, NoTimer before
          closeAllIn,  \* ticks until the delayed closeAllLive, or NoTimer
          firstDone,   \* the channel firstDone is closed
          serving,     \* the handler's pointer still leads here
          held,        \* request -> the lines of the snapshot it uses
          left         \* request -> ticks until its timeout

roundVars == <<live, signature, fresh, selected>>
stopVars == <<cancelled, grace, exitGrace>>
reqVars == <<held, left>>
vars == <<phase, live, signature, current, fresh, selected, open, closeIn,
          cancelled, grace, exitGrace, closeAllIn, firstDone, serving,
          held, left>>

NoTimer == -1
\* Mutated forms, each a slip the properties must catch, stand before the
\* definition they alter: here, a close delay with no margin.
TightCloseDelay == ProbeTimeout
CloseDelay == 2 * ProbeTimeout
Phases == {"new", "probing", "selected", "published", "idle", "exited"}

NoLines == [k \in Keys |-> None]
Lines(f) == {f[k] : k \in Keys} \ {None}
InUse == UNION {held[r] : r \in Requests}

LiveKeys == {k \in Keys : live[k] # None}

\* A key with a hot line is probed on that line, any other on a new object.
\* Mutated: hot connections are not looked up.
NeverHot(k) == TRUE
NeedsFresh(k) == live[k] = None
Probed(k) == IF fresh[k] # None THEN fresh[k] ELSE live[k]

\* Identities a new object may take.
FreeIds == Ids \ (open \cup InUse)

\* Mutated: a timer that runs on after it has fired.
RunOn(t) == t - 1
Elapse(t) == IF t > 0 THEN t - 1 ELSE t

Init ==
  /\ phase = "new" /\ live = NoLines /\ signature = {} /\ current = {}
  /\ fresh = NoLines /\ selected = {}
  /\ open = {} /\ closeIn = [i \in Ids |-> NoTimer]
  /\ cancelled = FALSE /\ grace = 0 /\ exitGrace = NoTimer
  /\ closeAllIn = NoTimer /\ firstDone = FALSE /\ serving = TRUE
  /\ held = [r \in Requests |-> {}] /\ left = [r \in Requests |-> 0]

-----------------------------------------------------------------------------
\* probeProvider: each key without a hot line gets an object of its own,
\* unless its address does not parse.
OpenFresh ==
  \E f \in [Keys -> FreeIds \cup {None}] :
    /\ \A k \in Keys : ~ NeedsFresh(k) => f[k] = None
    /\ \A j, k \in Keys : f[j] = f[k] /\ f[j] # None => j = k
    /\ fresh' = f
    /\ open' = open \cup Lines(f)

\* Start of a round, the first one or one the ticker asks for; the ticker
\* may win the select even when the context is cancelled.
BeginRound ==
  /\ phase \in {"new", "idle"}
  /\ OpenFresh
  /\ phase' = "probing" /\ selected' = {}
  /\ UNCHANGED <<live, signature, current, closeIn, stopVars, closeAllIn,
                 firstDone, serving, reqVars>>

\* pickBest for every provider: at most one key each, among those probed.
Selections ==
  {S \in SUBSET {k \in Keys : Probed(k) # None} :
     \A j, k \in S : ProviderOf[j] = ProviderOf[k] => j = k}

\* Mutated: a provider without any answer is skipped before closeFresh.
LosersOfAnswered(S) ==
  {fresh[k] : k \in {j \in Keys \ S :
                       \E i \in S : ProviderOf[i] = ProviderOf[j]}} \ {None}

\* closeFresh: the new objects that were not picked.
Losers(S) == {fresh[k] : k \in Keys \ S} \ {None}

\* The round changes nothing: same signature, and something is published.
Unchanged(S) == S = signature /\ current # {}

\* Probes are in: pick, closeFresh, then either keep everything or go on to
\* warm the selection up.
Select ==
  /\ phase = "probing"
  /\ \E S \in Selections :
       /\ selected' = S
       /\ open' = open \ Losers(S)
       /\ fresh' = [k \in Keys |-> IF k \in S THEN fresh[k] ELSE None]
       /\ \/ /\ Unchanged(S)
             /\ phase' = "idle" /\ firstDone' = TRUE
          \/ /\ ~ Unchanged(S)
             /\ phase' = "selected"
             /\ UNCHANGED firstDone
  /\ UNCHANGED <<live, signature, current, closeIn, stopVars, closeAllIn,
                 serving, reqVars>>

\* Mutated: s.current is left alone when no provider is available.
PublishIfAny ==
  /\ phase = "selected"
  /\ current' = IF selected = {} THEN current
                                 ELSE {Probed(k) : k \in selected}
  /\ phase' = "published"
  /\ UNCHANGED <<roundVars, open, closeIn, stopVars, closeAllIn, firstDone,
                 serving, reqVars>>

\* The warm-up is over: requests see the new selection from here on.
Publish ==
  /\ phase = "selected"
  /\ current' = {Probed(k) : k \in selected}
  /\ phase' = "published"
  /\ UNCHANGED <<roundVars, open, closeIn, stopVars, closeAllIn, firstDone,
                 serving, reqVars>>

\* The live lines the round did not select again.
Dropped == {live[k] : k \in Keys \ selected} \ {None}

\* The lines that lost their place are closed CloseDelay later.
RetireLines ==
  /\ phase = "published"
  /\ closeIn' = [i \in Ids |-> IF i \in Dropped THEN CloseDelay
                                                 ELSE closeIn[i]]
  /\ live' = [k \in Keys |-> IF k \in selected THEN Probed(k) ELSE None]
  /\ signature' = selected
  /\ fresh' = NoLines
  /\ phase' = "idle" /\ firstDone' = TRUE
  /\ UNCHANGED <<selected, current, open, stopVars, closeAllIn, serving, reqVars>>

\* Mutated: the grace of Retire is recorded but not waited for.
ExitNow ==
  /\ phase = "idle" /\ cancelled
  /\ phase' = "exited"
  /\ exitGrace' = grace
  /\ open' = open \ Lines(live)
  /\ live' = NoLines
  /\ UNCHANGED <<signature, current, fresh, selected, closeIn, cancelled,
                 grace, closeAllIn, firstDone, serving, reqVars>>

\* Mutated: without a grace nothing is closed.
ExitNoClose ==
  /\ phase = "idle" /\ cancelled
  /\ phase' = "exited"
  /\ exitGrace' = grace
  /\ closeAllIn' = IF grace > 0 THEN grace ELSE closeAllIn
  /\ UNCHANGED <<live, open, signature, current, fresh, selected, closeIn,
                 cancelled, grace, firstDone, serving, reqVars>>

\* The select of the loop takes ctx.Done: close what is live, now or later.
Exit ==
  /\ phase = "idle" /\ cancelled
  /\ phase' = "exited"
  /\ exitGrace' = grace
  /\ \/ /\ grace > 0
        /\ closeAllIn' = grace
        /\ UNCHANGED <<open, live>>
     \/ /\ grace = 0
        /\ open' = open \ Lines(live)
        /\ live' = NoLines
        /\ UNCHANGED closeAllIn
  /\ UNCHANGED <<signature, current, fresh, selected, closeIn, cancelled,
                 grace, firstDone, serving, reqVars>>

\* The delayed closeAllLive.
CloseAllLive ==
  /\ closeAllIn = 0
  /\ open' = open \ Lines(live)
  /\ live' = NoLines
  /\ closeAllIn' = NoTimer
  /\ UNCHANGED <<phase, signature, current, fresh, selected, closeIn,
                 stopVars, firstDone, serving, reqVars>>

\* Mutated: the delayed Close is tied to the scheduler's context.
CloseLineInContext(i) ==
  /\ closeIn[i] = 0 /\ ~ cancelled
  /\ open' = open \ {i}
  /\ closeIn' = [closeIn EXCEPT ![i] = NoTimer]
  /\ UNCHANGED <<phase, roundVars, current, stopVars, closeAllIn, firstDone,
                 serving, reqVars>>

\* The delayed Close of one retired line.
CloseLine(i) ==
  /\ closeIn[i] = 0
  /\ open' = open \ {i}
  /\ closeIn' = [closeIn EXCEPT ![i] = NoTimer]
  /\ UNCHANGED <<phase, roundVars, current, stopVars, closeAllIn, firstDone,
                 serving, reqVars>>

-----------------------------------------------------------------------------
\* Handler.Swap to another scheduler.
Withdraw ==
  /\ serving
  /\ serving' = FALSE
  /\ UNCHANGED <<phase, roundVars, current, open, closeIn, stopVars,
                 closeAllIn, firstDone, reqVars>>

\* Retire waits for started; the reload calls it once, after the swap.
Retire(d) ==
  /\ phase # "new" /\ ~ serving /\ grace = 0
  /\ grace' = d
  /\ cancelled' = TRUE
  /\ UNCHANGED <<phase, roundVars, current, open, closeIn, exitGrace,
                 closeAllIn, firstDone, serving, reqVars>>

\* Stop, or the parent context: grace stays as it is.
Stop ==
  /\ phase # "new" /\ ~ cancelled
  /\ cancelled' = TRUE
  /\ UNCHANGED <<phase, roundVars, current, open, closeIn, grace, exitGrace,
                 closeAllIn, firstDone, serving, reqVars>>

\* A request reads CurrentConfig and exchanges over what it found.
BeginRequest(r) ==
  /\ serving /\ held[r] = {} /\ current # {}
  /\ held' = [held EXCEPT ![r] = current]
  /\ left' = [left EXCEPT ![r] = ProbeTimeout]
  /\ UNCHANGED <<phase, roundVars, current, open, closeIn, stopVars,
                 closeAllIn, firstDone, serving>>

\* It is answered or it times out.
EndRequest(r) ==
  /\ held[r] # {}
  /\ held' = [held EXCEPT ![r] = {}]
  /\ left' = [left EXCEPT ![r] = 0]
  /\ UNCHANGED <<phase, roundVars, current, open, closeIn, stopVars,
                 closeAllIn, firstDone, serving>>

\* A tick of the clock; it never passes the timeout of a request.
Tick ==
  /\ \A r \in Requests : held[r] # {} => left[r] > 0
  /\ left' = [r \in Requests |-> Elapse(left[r])]
  /\ closeIn' = [i \in Ids |-> Elapse(closeIn[i])]
  /\ closeAllIn' = Elapse(closeAllIn)
  /\ UNCHANGED <<phase, roundVars, current, open, stopVars, firstDone,
                 serving, held>>

Round == BeginRound \/ Select \/ Publish \/ RetireLines

Next ==
  \/ Round
  \/ Exit
  \/ CloseAllLive
  \/ \E i \in Ids : CloseLine(i)
  \/ Withdraw
  \/ \E d \in Delays : Retire(d)
  \/ Stop
  \/ \E r \in Requests : BeginRequest(r) \/ EndRequest(r)
  \/ Tick

Spec == Init /\ [][Next]_vars

\* The goroutine and the timers run; requests end by their timeout; the
\* loop's select cannot prefer the ticker for ever once ctx is done.
Fairness ==
  /\ WF_vars(Round) /\ SF_vars(Exit)
  /\ WF_vars(CloseAllLive) /\ \A i \in Ids : WF_vars(CloseLine(i))
  /\ \A r \in Requests : WF_vars(EndRequest(r))
  /\ WF_vars(Tick)

FairSpec == Spec /\ Fairness

-----------------------------------------------------------------------------
\* Types of the state kept by Scheduler, its timers and its requests.
TypeOK ==
  /\ phase \in Phases
  /\ live \in [Keys -> Ids \cup {None}]
  /\ fresh \in [Keys -> Ids \cup {None}]
  /\ signature \in SUBSET Keys /\ selected \in SUBSET Keys
  /\ current \in SUBSET Ids /\ open \in SUBSET Ids
  /\ closeIn \in [Ids -> Int] /\ \A i \in Ids : closeIn[i] >= NoTimer
  /\ closeAllIn \in Int /\ closeAllIn >= NoTimer
  /\ exitGrace \in Int /\ exitGrace >= NoTimer
  /\ grace \in Nat
  /\ cancelled \in BOOLEAN /\ firstDone \in BOOLEAN /\ serving \in BOOLEAN
  /\ held \in [Requests -> SUBSET Ids]
  /\ left \in [Requests -> 0 .. ProbeTimeout]

\* The loop ended without leaving requests the time to finish.
Halted == exitGrace # NoTimer /\ exitGrace <= ProbeTimeout

\* No request ever exchanges over a line that was closed under it, whatever
\* rounds, timers and retirement do meanwhile (scheduler.go:337-345).
NoUseAfterClose == ~ Halted => InUse \subseteq open

Doomed == {i \in Ids : closeIn[i] # NoTimer}

\* Every open line has exactly one owner who will close it: s.live, the
\* round under way, or a close timer.  No line leaks, and none is closed
\* twice (closeFresh, the AfterFunc of a round, closeAllLive).
OneOwnerPerLine ==
  /\ open = Lines(live) \cup Lines(fresh) \cup Doomed
  /\ Lines(live) \cap Lines(fresh) = {}
  /\ Doomed \cap (Lines(live) \cup Lines(fresh)) = {}
  /\ \A j, k \in Keys : live[j] = live[k] /\ live[j] # None => j = k

\* Outside a publication the handlers see exactly the live lines, and once a
\* round is over these are the lines it selected: the shortcut for an
\* unchanged signature (scheduler.go:290) never keeps another selection.
PublishedIsSelected ==
  /\ phase \notin {"published", "exited"} => current = Lines(live)
  /\ phase = "idle" => LiveKeys = selected

\* A line kept by a round keeps its connection: the object under a live key
\* is never exchanged for another (README: the hot connection is reused).
HotLineKept ==
  [][\A k \in Keys : live[k] # None /\ live'[k] # None => live'[k] = live[k]]_vars

\* A scheduler that is stopped or retired closes all its lines in the end,
\* including those of a round that was under way.
AllLinesClosed == cancelled ~> [](open = {})

\* The close of a line dropped by a round is not forgotten.
DroppedLineCloses == \A i \in Ids : i \in Doomed ~> i \notin open

\* Scheduler implements LinePool.
Pool == INSTANCE LinePool WITH halted <- Halted
PoolSpec == Pool!Spec
=============================================================================
