------------------------------- MODULE Racing -------------------------------
(***************************************************************************)
(* racingUpstream.Exchange and its breaker (internal/scheduler/racing.go   *)
(* and breaker.go) with at least two members: every call asks the          *)
(* candidates in parallel, one goroutine each, and answers with the first  *)
(* success or, in weighted mode, with the heaviest success of a window.    *)
(* Goroutines the call no longer waits for go on, and report late.         *)
(*                                                                         *)
(* Messages are reduced to whether the member answered (an upstream that   *)
(* returns neither a message nor an error is left out); times are counted  *)
(* in ticks.                                                               *)
(***************************************************************************)
EXTENDS Integers, FiniteSets, Sequences

CONSTANTS Members,
          Weights,          \* the weights a member may have
          Calls,            \* bound: calls of Exchange, each made once
          Timeout,          \* ticks an upstream may take
          Window,           \* r.window
          FailThreshold,    \* failures in a row that open the breaker
          Cooldown,         \* b.cooldown
          Nobody            \* no member

ASSUME MembersAssumption == IsFiniteSet(Members)
ASSUME WeightAssumption == Weights \subseteq Nat /\ Nobody \notin Members
ASSUME TimesAssumption ==
  /\ {Timeout, Window} \subseteq Nat
  /\ FailThreshold \in Nat \ {0} /\ Cooldown \in Nat \ {0}

NoTimer == -1
Outcomes == {"ok", "fail"}

VARIABLES weighted,     \* r.weighted
          weight,       \* member -> its weight
          consecutive,  \* breaker: member -> failures in a row
          openFor,      \* breaker: member -> cooldown left, NoTimer if closed
          call,         \* call -> "new", "waiting", "answered" or "failed"
          asked,        \* call -> idx, the candidates
          age,          \* call -> member -> ticks since its goroutine began
          task,         \* call -> member -> its goroutine
          outcome,      \* call -> member -> what the upstream returned
          resCh,        \* call -> the racingResults in the channel
          remaining,    \* call -> results not received yet
          cands,        \* call -> the successes received
          timer,        \* call -> ticks left of the window, NoTimer before
          winner,       \* call -> the member whose answer is returned
          lastOk,       \* history: member -> its last report was no error
          trials        \* history: call -> members asked after their cooldown

breakerVars == <<consecutive, openFor, lastOk>>
taskVars == <<task, outcome>>
recvVars == <<remaining, cands, timer, winner>>
settings == <<weighted, weight>>
vars == <<settings, breakerVars, call, asked, age, taskVars, resCh, recvVars,
          trials>>

\* Mutated forms stand before the definition they alter; here, a timer that
\* runs on after it has fired.
RunOn(t) == t - 1
Elapse(t) == IF t > 0 THEN t - 1 ELSE t
PerCall(v) == [x \in Calls |-> v]
PerTask(v) == [x \in Calls |-> [m \in Members |-> v]]

Init ==
  /\ weighted \in BOOLEAN
  /\ weight \in [Members -> Weights]
  /\ ~ weighted => weight = [m \in Members |-> CHOOSE w \in Weights : TRUE]
  /\ consecutive = [m \in Members |-> 0]
  /\ openFor = [m \in Members |-> NoTimer]
  /\ lastOk = [m \in Members |-> TRUE]
  /\ call = PerCall("new") /\ asked = PerCall({}) /\ age = PerTask(0)
  /\ task = PerTask("none") /\ outcome = PerTask("ok")
  /\ resCh = PerCall(<<>>) /\ remaining = PerCall(0) /\ cands = PerCall({})
  /\ timer = PerCall(NoTimer) /\ winner = PerCall(Nobody)
  /\ trials = PerCall({})

-----------------------------------------------------------------------------
(* The breaker. *)

\* openLocked: a member whose cooldown is over is no longer held back.
Open(m) == openFor[m] > 0

\* pick
Candidates == {m \in Members : ~ Open(m)}

\* Mutated: a success leaves openedAt alone.
ClosedByHalf(m) == /\ consecutive' = [consecutive EXCEPT ![m] = 0]
                   /\ UNCHANGED openFor

\* Both fields of the state are cleared by a success.
Closed(m) == /\ consecutive' = [consecutive EXCEPT ![m] = 0]
             /\ openFor' = [openFor EXCEPT ![m] = NoTimer]

\* Mutated: > for >=.
FailedBeyond(m) ==
  /\ consecutive' = [consecutive EXCEPT ![m] = @ + 1]
  /\ openFor' = [openFor EXCEPT
                   ![m] = IF consecutive[m] + 1 > FailThreshold THEN Cooldown ELSE @]

\* Every failure at or beyond the threshold starts the cooldown anew.
Failed(m) ==
  /\ consecutive' = [consecutive EXCEPT ![m] = @ + 1]
  /\ openFor' = [openFor EXCEPT
                   ![m] = IF consecutive[m] + 1 >= FailThreshold THEN Cooldown ELSE @]

\* report
Report(m, o) ==
  /\ lastOk' = [lastOk EXCEPT ![m] = o # "fail"]
  /\ IF o = "fail" THEN Failed(m) ELSE Closed(m)

-----------------------------------------------------------------------------
(* The goroutines of a call. *)

\* A goroutine gets to run, starts its clock and copies the request.
CopyRequest(x, m) ==
  /\ task[x][m] = "start"
  /\ task' = [task EXCEPT ![x][m] = "query"]
  /\ UNCHANGED <<settings, breakerVars, call, asked, age, outcome, resCh,
                 recvVars, trials>>

\* The upstream answers in time and its result is reported.
Exchanged(x, m) ==
  /\ task[x][m] = "query"
  /\ \E o \in Outcomes :
       /\ outcome' = [outcome EXCEPT ![x][m] = o]
       /\ Report(m, o)
  /\ task' = [task EXCEPT ![x][m] = "send"]
  /\ UNCHANGED <<settings, call, asked, age, resCh, recvVars, trials>>

\* Mutated: a channel that holds one result.
CapacityOne(x) == 1

\* resCh has room for one result of every candidate.
Capacity(x) == Cardinality(asked[x])

Send(x, m) ==
  /\ task[x][m] = "send" /\ Len(resCh[x]) < Capacity(x)
  /\ resCh' = [resCh EXCEPT ![x] = Append(@,
                 [member |-> m, ok |-> outcome[x][m] = "ok", elapsed |-> age[x][m]])]
  /\ task' = [task EXCEPT ![x][m] = "done"]
  /\ age' = [age EXCEPT ![x][m] = 0]
  /\ UNCHANGED <<settings, breakerVars, call, asked, outcome, recvVars, trials>>

-----------------------------------------------------------------------------
(* The caller. *)

\* remaining := len(idx)
Awaited == Cardinality(Candidates)

\* candidates, and one goroutine for each; without any the call fails at once.
Begin(x) ==
  /\ call[x] = "new"
  /\ asked' = [asked EXCEPT ![x] = Candidates]
  /\ trials' = [trials EXCEPT ![x] = {m \in Candidates : openFor[m] = 0}]
  /\ task' = [task EXCEPT ![x] =
                [m \in Members |-> IF m \in Candidates THEN "start" ELSE "none"]]
  /\ remaining' = [remaining EXCEPT ![x] = Awaited]
  /\ call' = [call EXCEPT ![x] = IF Candidates = {} THEN "failed" ELSE "waiting"]
  /\ UNCHANGED <<settings, breakerVars, age, outcome, resCh, cands, timer,
                 winner>>

Answer(x, res) ==
  /\ call' = [call EXCEPT ![x] = "answered"]
  /\ winner' = [winner EXCEPT ![x] = res.member]

Fail(x) == call' = [call EXCEPT ![x] = "failed"] /\ UNCHANGED winner

\* Mutated: sorted the other way round.
Worst(S) ==
  {a \in S : \A b \in S :
     \/ weight[a.member] < weight[b.member]
     \/ weight[a.member] = weight[b.member] /\ a.elapsed <= b.elapsed}

\* pickWeighted: the heaviest, and the fastest among those.
Best(S) ==
  {a \in S : \A b \in S :
     \/ weight[a.member] > weight[b.member]
     \/ weight[a.member] = weight[b.member] /\ a.elapsed <= b.elapsed}

PickWeighted(x, S) ==
  IF S = {} THEN Fail(x) ELSE \E res \in Best(S) : Answer(x, res)

\* A result leaves the channel.
Receive(x) ==
  /\ call[x] = "waiting" /\ resCh[x] # <<>>
  /\ resCh' = [resCh EXCEPT ![x] = Tail(@)]
  /\ remaining' = [remaining EXCEPT ![x] = @ - 1]

\* exchangeFastest: the first success is the answer.
ReceiveFastest(x) ==
  /\ ~ weighted
  /\ Receive(x)
  /\ LET res == Head(resCh[x]) IN
       \/ res.ok /\ Answer(x, res)
       \/ ~ res.ok /\ remaining[x] = 1 /\ Fail(x)
       \/ ~ res.ok /\ remaining[x] > 1 /\ UNCHANGED <<call, winner>>
  /\ UNCHANGED <<settings, breakerVars, asked, age, taskVars, cands, timer, trials>>

\* Mutated: the first result starts the window, success or not.
WindowAfterAny(x, res) == IF timer[x] = NoTimer THEN Window ELSE timer[x]

\* The first success starts the window.
WindowAfter(x, res) == IF res.ok /\ timer[x] = NoTimer THEN Window ELSE timer[x]

\* exchangeWeighted: collect until all have answered ...
ReceiveWeighted(x) ==
  /\ weighted
  /\ Receive(x)
  /\ LET res == Head(resCh[x])
         S   == cands[x] \cup {c \in {res} : c.ok} IN
       /\ cands' = [cands EXCEPT ![x] = S]
       /\ timer' = [timer EXCEPT ![x] = WindowAfter(x, res)]
       /\ \/ remaining[x] = 1 /\ PickWeighted(x, S)
          \/ remaining[x] > 1 /\ UNCHANGED <<call, winner>>
  /\ UNCHANGED <<settings, breakerVars, asked, age, taskVars, trials>>

\* ... or the window is over, even if more results wait in the channel.
WindowEnds(x) ==
  /\ call[x] = "waiting" /\ timer[x] = 0
  /\ PickWeighted(x, cands[x])
  /\ UNCHANGED <<settings, breakerVars, asked, age, taskVars, resCh, remaining,
                 cands, timer, trials>>

\* Time passes, but not beyond the timeout of an upstream.  A goroutine that
\* lags behind is not measured beyond one tick.
Aged(x, m) ==
  age[x][m] + IF task[x][m] \in {"query", "send"} /\ age[x][m] <= Timeout
              THEN 1 ELSE 0

Tick ==
  /\ \A x \in Calls, m \in Members : task[x][m] = "query" => age[x][m] < Timeout
  /\ age' = [x \in Calls |-> [m \in Members |-> Aged(x, m)]]
  /\ openFor' = [m \in Members |-> Elapse(openFor[m])]
  /\ timer' = [x \in Calls |-> Elapse(timer[x])]
  /\ UNCHANGED <<settings, consecutive, lastOk, call, asked, taskVars, resCh,
                 remaining, cands, winner, trials>>

Step(x) == \/ ReceiveFastest(x) \/ ReceiveWeighted(x) \/ WindowEnds(x)
           \/ \E m \in Members : CopyRequest(x, m) \/ Exchanged(x, m) \/ Send(x, m)

Next == Tick \/ \E x \in Calls : Begin(x) \/ Step(x)

Spec == Init /\ [][Next]_vars

-----------------------------------------------------------------------------
Results == [member : Members, ok : BOOLEAN, elapsed : 0 .. Timeout + 1]

\* Types of the state of racingUpstream, its breaker and its calls.
TypeOK ==
  /\ weighted \in BOOLEAN /\ weight \in [Members -> Weights]
  /\ consecutive \in [Members -> Nat]
  /\ openFor \in [Members -> NoTimer .. Cooldown]
  /\ lastOk \in [Members -> BOOLEAN]
  /\ call \in [Calls -> {"new", "waiting", "answered", "failed"}]
  /\ asked \in [Calls -> SUBSET Members] /\ trials \in [Calls -> SUBSET Members]
  /\ age \in [Calls -> [Members -> 0 .. Timeout + 1]]
  /\ task \in [Calls -> [Members -> {"none", "start", "query", "send", "done"}]]
  /\ outcome \in [Calls -> [Members -> Outcomes]]
  /\ resCh \in [Calls -> Seq(Results)] /\ cands \in [Calls -> SUBSET Results]
  /\ remaining \in [Calls -> 0 .. Cardinality(Members)]
  /\ timer \in [Calls -> NoTimer .. Window]
  /\ winner \in [Calls -> Members \cup {Nobody}]

\* A call fails only when every member it asked has failed: neither the window
\* nor another member's failure turns a success into an error
\* (racing.go:77-151).
FailsOnlyIfAllFail ==
  \A x \in Calls : call[x] = "failed" =>
    \A m \in asked[x] : task[x][m] = "done" /\ outcome[x][m] # "ok"

\* In weighted mode the answer is never beaten by a success that arrived while
\* the window was open: one that was sent is missed only once the window has
\* ended (racing.go:131-143).
HeaviestInWindow ==
  \A x \in Calls : weighted /\ call[x] = "answered" =>
    /\ \E a \in cands[x] :
         /\ a.member = winner[x]
         /\ \A b \in cands[x] :
              /\ weight[b.member] <= weight[a.member]
              /\ weight[b.member] = weight[a.member] => a.elapsed <= b.elapsed
    /\ timer[x] > 0 => \A m \in asked[x] : task[x][m] = "done"

\* A member whose last report was a success is asked by every call: a late
\* failure or a cooldown never outlives the recovery (breaker.go:57-85).
RecoveredIsAsked == \A m \in Members : lastOk[m] => ~ Open(m)

\* A member is asked while it fails only before the threshold or after a
\* cooldown: the breaker holds back one that has failed FailThreshold times
\* in a row until the cooldown that its last failure started is over.
FailingIsHeldBack ==
  [][\A x \in Calls : call[x] = "new" /\ call'[x] # "new" =>
       \A m \in asked'[x] : consecutive[m] < FailThreshold \/ m \in trials'[x]]_vars

\* Neither side of a call's channel waits in vain: every result the call waits
\* for is in the channel or will be sent, for it waits for no member that it
\* did not ask; and a goroutine always finds room, so that none of a call that
\* was answered without it leaks (racing.go:79, 91).
NobodyWaitsInVain ==
  \A x \in Calls :
    /\ call[x] = "waiting" =>
         /\ remaining[x] > 0
         /\ remaining[x] = Len(resCh[x])
              + Cardinality({m \in Members : task[x][m] \in {"start", "query", "send"}})
    /\ \A m \in Members : task[x][m] = "send" => Len(resCh[x]) < Capacity(x)

\* After its cooldown a member is let through once, as a half-open trial, and
\* held back until that trial reports (breaker.go:11-12, config.go:139).
OneTrialAtATime ==
  \A m \in Members :
    Cardinality({x \in Calls : m \in trials[x] /\ task[x][m] = "query"}) <= 1

\* A goroutine that outlives its call works on its own copy of the request,
\* for the caller may change or reuse the original once Exchange has returned
\* (said of the refresh goroutine at racing.go:230-231).
CopiedInTime ==
  \A x \in Calls, m \in Members : task[x][m] = "start" => call[x] = "waiting"
=============================================================================
