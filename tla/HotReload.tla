------------------------------ MODULE HotReload ------------------------------
(***************************************************************************)
(* The process of cmd/dnsproxy/main.go around its schedulers: the goroutine *)
(* that answers SIGHUP, the handler's pointer to the scheduler in force,   *)
(* the requests that read it, and the shutdown.                            *)
(*                                                                         *)
(* Each scheduler appears with what the others see of it (its published    *)
(* configuration, its lines taken as one, its context and its exit); what  *)
(* its rounds do to single lines is in Scheduler.  A configuration is the  *)
(* probe_timeout it sets, which bounds the requests of its scheduler.      *)
(***************************************************************************)
EXTENDS Integers, FiniteSets

CONSTANTS Requests,
          Timeouts,         \* the probe_timeouts a configuration may set
          MaxEdits,         \* bound: edits of the configuration file
          MaxSignals,       \* bound: SIGHUPs
          ShutdownTimeout   \* ticks p.Shutdown waits for requests

ASSUME TimeoutsAssumption == Timeouts \subseteq Nat \ {0}
ASSUME BoundsAssumption == {MaxEdits, MaxSignals, ShutdownTimeout} \subseteq Nat

Invalid == 0                       \* a file LoadConfig or buildBaseOpts refuses
NoTimer == -1
Nobody == -1                       \* no scheduler
Scheds == 0 .. MaxSignals          \* 0 is the one main starts with

VARIABLES
  file, edits,       \* the configuration file, and how often it was edited
  pending, signals,  \* the buffered SIGHUP, and how many were sent
  askedEdit, readEdit, \* the edit current at the last SIGHUP, at the last read
  rpc, new, old,     \* the reload goroutine and its local variables
  pointer,           \* the handler's scheduler
  phase, timeout, published, cancelled, grace, closeIn, open, \* per scheduler
  pc, sched, left,   \* per request
  ctxDone, mpc, appDone, stopping, drainLeft, cut  \* main and its contexts

fileVars == <<file, edits>>
signalVars == <<pending, signals, askedEdit>>
reloadVars == <<rpc, new, old, readEdit>>
schedVars == <<phase, timeout, published, cancelled, grace, closeIn, open>>
reqVars == <<pc, sched, left>>
mainVars == <<ctxDone, mpc, appDone, stopping, drainLeft, cut>>
vars == <<fileVars, signalVars, reloadVars, pointer, schedVars, reqVars, mainVars>>

\* Mutated forms stand before the definition they alter; here, a timer that
\* runs on after it has fired.
RunOn(t) == t - 1
Elapse(t) == IF t > 0 THEN t - 1 ELSE t
Started(s) == phase[s] \notin {"none", "created"}
FirstDone(s) == phase[s] \in {"loop", "exited"}
Running == mpc # "exited"

Init ==
  /\ file \in Timeouts /\ edits = 0
  /\ pending = FALSE /\ signals = 0 /\ askedEdit = 0 /\ readEdit = 0
  /\ rpc = "wait" /\ new = Nobody /\ old = Nobody
  /\ pointer = 0
  /\ phase = [s \in Scheds |-> IF s = 0 THEN "created" ELSE "none"]
  /\ timeout = [s \in Scheds |-> IF s = 0 THEN file ELSE 0]
  /\ published = [s \in Scheds |-> FALSE]
  /\ cancelled = [s \in Scheds |-> FALSE]
  /\ grace = [s \in Scheds |-> 0]
  /\ closeIn = [s \in Scheds |-> NoTimer]
  /\ open = [s \in Scheds |-> s = 0]
  /\ pc = [r \in Requests |-> "idle"]
  /\ sched = [r \in Requests |-> Nobody]
  /\ left = [r \in Requests |-> 0]
  /\ ctxDone = FALSE /\ mpc = "serve" /\ appDone = FALSE
  /\ stopping = Nobody /\ drainLeft = 0 /\ cut = FALSE

-----------------------------------------------------------------------------
(* The operator of the service. *)

Edit ==
  /\ edits < MaxEdits
  /\ edits' = edits + 1
  /\ file' \in (Timeouts \cup {Invalid}) \ {file}
  /\ UNCHANGED <<signalVars, reloadVars, pointer, schedVars, reqVars, mainVars>>

\* Mutated: an unbuffered channel, a signal during a reload is dropped.
HupUnbuffered ==
  /\ signals < MaxSignals
  /\ signals' = signals + 1
  /\ pending' = (pending \/ rpc = "wait")
  /\ askedEdit' = edits
  /\ UNCHANGED <<fileVars, reloadVars, pointer, schedVars, reqVars, mainVars>>

\* The channel has room for one signal; more are dropped by signal.Notify.
Hup ==
  /\ signals < MaxSignals
  /\ signals' = signals + 1
  /\ pending' = TRUE
  /\ askedEdit' = edits
  /\ UNCHANGED <<fileVars, reloadVars, pointer, schedVars, reqVars, mainVars>>

\* SIGTERM, SIGINT, or a failing p.Start calls stop().
Terminate ==
  /\ ~ ctxDone
  /\ ctxDone' = TRUE
  /\ UNCHANGED <<fileVars, signalVars, reloadVars, pointer, schedVars, reqVars,
                 mpc, appDone, stopping, drainLeft, cut>>

-----------------------------------------------------------------------------
(* The schedulers. *)

StartScheduler(s) ==
  /\ phase[s] = "created"
  /\ phase' = [phase EXCEPT ![s] = "first"]
  /\ UNCHANGED <<fileVars, signalVars, reloadVars, pointer, timeout, published,
                 cancelled, grace, closeIn, open, reqVars, mainVars>>

\* A round ends, having published a selection or nothing.
RoundEnds(s) ==
  /\ phase[s] \in {"first", "loop"}
  /\ phase' = [phase EXCEPT ![s] = "loop"]
  /\ \E up \in BOOLEAN : published' = [published EXCEPT ![s] = up]
  /\ UNCHANGED <<fileVars, signalVars, reloadVars, pointer, timeout, cancelled,
                 grace, closeIn, open, reqVars, mainVars>>

\* Mutated: closeAllLive is skipped when there is a grace.
ExitUnclosed(s) ==
  /\ phase[s] = "loop" /\ (cancelled[s] \/ appDone)
  /\ phase' = [phase EXCEPT ![s] = "exited"]
  /\ open' = [open EXCEPT ![s] = open[s] /\ grace[s] > 0]
  /\ UNCHANGED <<fileVars, signalVars, reloadVars, pointer, timeout, published,
                 cancelled, grace, closeIn, reqVars, mainVars>>

\* Mutated: a scheduler without a selection tries again before it looks at
\* its context.
ExitPublished(s) ==
  /\ phase[s] = "loop" /\ published[s] /\ (cancelled[s] \/ appDone)
  /\ phase' = [phase EXCEPT ![s] = "exited"]
  /\ IF grace[s] > 0
     THEN closeIn' = [closeIn EXCEPT ![s] = grace[s]] /\ UNCHANGED open
     ELSE open' = [open EXCEPT ![s] = FALSE] /\ UNCHANGED closeIn
  /\ UNCHANGED <<fileVars, signalVars, reloadVars, pointer, timeout, published,
                 cancelled, grace, reqVars, mainVars>>

\* The loop sees its context done and closes its lines, at once or later.
ExitScheduler(s) ==
  /\ phase[s] = "loop" /\ (cancelled[s] \/ appDone)
  /\ phase' = [phase EXCEPT ![s] = "exited"]
  /\ IF grace[s] > 0
     THEN closeIn' = [closeIn EXCEPT ![s] = grace[s]] /\ UNCHANGED open
     ELSE open' = [open EXCEPT ![s] = FALSE] /\ UNCHANGED closeIn
  /\ UNCHANGED <<fileVars, signalVars, reloadVars, pointer, timeout, published,
                 cancelled, grace, reqVars, mainVars>>

CloseLines(s) ==
  /\ closeIn[s] = 0
  /\ closeIn' = [closeIn EXCEPT ![s] = NoTimer]
  /\ open' = [open EXCEPT ![s] = FALSE]
  /\ UNCHANGED <<fileVars, signalVars, reloadVars, pointer, phase, timeout,
                 published, cancelled, grace, reqVars, mainVars>>

-----------------------------------------------------------------------------
(* The reload goroutine. *)

TakeSignal ==
  /\ rpc = "wait" /\ pending
  /\ pending' = FALSE
  /\ rpc' = "load"
  /\ UNCHANGED <<fileVars, signals, askedEdit, new, old, readEdit, pointer,
                 schedVars, reqVars, mainVars>>

\* Mutated: the goroutine returns where the code continues.
LoadFailsForGood ==
  /\ rpc = "load" /\ file = Invalid
  /\ readEdit' = edits
  /\ rpc' = "gone"
  /\ UNCHANGED <<fileVars, signalVars, new, old, pointer, schedVars, reqVars,
                 mainVars>>

\* LoadConfig and buildBaseOpts fail: the old configuration stays in force.
LoadFails ==
  /\ rpc = "load" /\ file = Invalid
  /\ readEdit' = edits
  /\ rpc' = "wait"
  /\ UNCHANGED <<fileVars, signalVars, new, old, pointer, schedVars, reqVars,
                 mainVars>>

\* The file is read and a scheduler built on it is started.
LoadConfig ==
  /\ rpc = "load" /\ file # Invalid
  /\ readEdit' = edits
  /\ \E s \in Scheds :
       /\ phase[s] = "none" /\ \A t \in 0 .. s - 1 : phase[t] # "none"
       /\ new' = s
       /\ phase' = [phase EXCEPT ![s] = "created"]
       /\ timeout' = [timeout EXCEPT ![s] = file]
       /\ open' = [open EXCEPT ![s] = TRUE]
  /\ rpc' = "await"
  /\ UNCHANGED <<fileVars, signalVars, old, pointer, published, cancelled,
                 grace, closeIn, reqVars, mainVars>>

\* Mutated: the useless scheduler is not retired.
GiveUpSilently ==
  /\ rpc = "await" /\ FirstDone(new) /\ ~ published[new]
  /\ rpc' = "wait" /\ new' = Nobody
  /\ UNCHANGED <<fileVars, signalVars, old, readEdit, pointer, schedVars,
                 reqVars, mainVars>>

\* The new scheduler found no line: it is retired and never serves.
GiveUp ==
  /\ rpc = "await" /\ FirstDone(new) /\ ~ published[new]
  /\ cancelled' = [cancelled EXCEPT ![new] = TRUE]
  /\ rpc' = "wait" /\ new' = Nobody
  /\ UNCHANGED <<fileVars, signalVars, old, readEdit, pointer, phase, timeout,
                 published, grace, closeIn, open, reqVars, mainVars>>

FirstRoundSeen ==
  /\ rpc = "await" /\ FirstDone(new) /\ published[new]
  /\ rpc' = "swap"
  /\ UNCHANGED <<fileVars, signalVars, new, old, readEdit, pointer, schedVars,
                 reqVars, mainVars>>

Swap ==
  /\ rpc = "swap"
  /\ old' = pointer /\ pointer' = new
  /\ rpc' = "retire"
  /\ UNCHANGED <<fileVars, signalVars, new, readEdit, schedVars, reqVars,
                 mainVars>>

\* Mutated: a grace of one request timeout.
ShortGrace == timeout[new]

\* old.Retire waits for old to have started.  Its grace is taken from the
\* new configuration.
Grace == 2 * timeout[new]

RetireOld ==
  /\ rpc = "retire" /\ Started(old)
  /\ grace' = [grace EXCEPT ![old] = Grace]
  /\ cancelled' = [cancelled EXCEPT ![old] = TRUE]
  /\ rpc' = "wait" /\ new' = Nobody /\ old' = Nobody
  /\ UNCHANGED <<fileVars, signalVars, readEdit, pointer, phase, timeout,
                 published, closeIn, open, reqVars, mainVars>>

\* The goroutine sees the process context done.
ReloaderEnds ==
  /\ ctxDone
  /\ \/ rpc = "wait" /\ UNCHANGED <<cancelled, new>>
     \/ /\ rpc = "await" /\ Started(new)
        /\ cancelled' = [cancelled EXCEPT ![new] = TRUE]
        /\ new' = Nobody
  /\ rpc' = "gone"
  /\ UNCHANGED <<fileVars, signalVars, old, readEdit, pointer, phase, timeout,
                 published, grace, closeIn, open, reqVars, mainVars>>

-----------------------------------------------------------------------------
(* Requests: ServeDNS. *)

LoadPointer(r) ==
  /\ pc[r] = "idle" /\ mpc = "serve"
  /\ pc' = [pc EXCEPT ![r] = "loaded"]
  /\ sched' = [sched EXCEPT ![r] = pointer]
  /\ UNCHANGED <<fileVars, signalVars, reloadVars, pointer, schedVars, left,
                 mainVars>>

\* CurrentConfig: an exchange over its lines, or the placeholder upstream,
\* which holds no line of a scheduler.
ReadConfig(r) ==
  /\ pc[r] = "loaded"
  /\ \/ /\ published[sched[r]]
        /\ pc' = [pc EXCEPT ![r] = "exchange"]
        /\ left' = [left EXCEPT ![r] = timeout[sched[r]]]
        /\ UNCHANGED sched
     \/ /\ ~ published[sched[r]]
        /\ pc' = [pc EXCEPT ![r] = "idle"]
        /\ sched' = [sched EXCEPT ![r] = Nobody]
        /\ UNCHANGED left
  /\ UNCHANGED <<fileVars, signalVars, reloadVars, pointer, schedVars, mainVars>>

Answer(r) ==
  /\ pc[r] = "exchange"
  /\ pc' = [pc EXCEPT ![r] = "idle"]
  /\ sched' = [sched EXCEPT ![r] = Nobody]
  /\ left' = [left EXCEPT ![r] = 0]
  /\ UNCHANGED <<fileVars, signalVars, reloadVars, pointer, schedVars, mainVars>>

-----------------------------------------------------------------------------
(* main after <-ctx.Done(). *)

BeginShutdown ==
  /\ mpc = "serve" /\ ctxDone
  /\ mpc' = "drain" /\ drainLeft' = ShutdownTimeout
  /\ UNCHANGED <<fileVars, signalVars, reloadVars, pointer, schedVars, reqVars,
                 ctxDone, appDone, stopping, cut>>

Drained == \A r \in Requests : pc[r] = "idle"

\* p.Shutdown returns: the requests are drained or its context expired.
EndShutdown ==
  /\ mpc = "drain"
  /\ Drained \/ drainLeft = 0
  /\ cut' = ~ Drained
  /\ mpc' = "cancel"
  /\ UNCHANGED <<fileVars, signalVars, reloadVars, pointer, schedVars, reqVars,
                 ctxDone, appDone, stopping, drainLeft>>

AppCancel ==
  /\ mpc = "cancel"
  /\ appDone' = TRUE
  /\ mpc' = "stop"
  /\ UNCHANGED <<fileVars, signalVars, reloadVars, pointer, schedVars, reqVars,
                 ctxDone, stopping, drainLeft, cut>>

\* reqHandler.Current().Stop(): wait for started, cancel ...
StopCurrent ==
  /\ mpc = "stop" /\ Started(pointer)
  /\ stopping' = pointer
  /\ cancelled' = [cancelled EXCEPT ![pointer] = TRUE]
  /\ mpc' = "join"
  /\ UNCHANGED <<fileVars, signalVars, reloadVars, pointer, phase, timeout,
                 published, grace, closeIn, open, reqVars, ctxDone, appDone,
                 drainLeft, cut>>

\* ... and wait for done; then main returns.
Return ==
  /\ mpc = "join" /\ phase[stopping] = "exited"
  /\ mpc' = "exited"
  /\ UNCHANGED <<fileVars, signalVars, reloadVars, pointer, schedVars, reqVars,
                 ctxDone, appDone, stopping, drainLeft, cut>>

\* Time passes, but never beyond a request's timeout, and not between the two
\* reads of ServeDNS.
Tick ==
  /\ \A r \in Requests : pc[r] # "loaded" /\ (pc[r] = "exchange" => left[r] > 0)
  /\ left' = [r \in Requests |-> Elapse(left[r])]
  /\ closeIn' = [s \in Scheds |-> Elapse(closeIn[s])]
  /\ drainLeft' = Elapse(drainLeft)
  /\ UNCHANGED <<fileVars, signalVars, reloadVars, pointer, phase, timeout,
                 published, cancelled, grace, open, pc, sched, ctxDone, mpc,
                 appDone, stopping, cut>>

-----------------------------------------------------------------------------
Reload == \/ TakeSignal \/ LoadFails \/ LoadConfig \/ GiveUp \/ FirstRoundSeen
          \/ Swap \/ RetireOld
Main == BeginShutdown \/ EndShutdown \/ AppCancel \/ StopCurrent \/ Return
Scheduling(s) == StartScheduler(s) \/ RoundEnds(s) \/ ExitScheduler(s) \/ CloseLines(s)
Serving(r) == LoadPointer(r) \/ ReadConfig(r) \/ Answer(r)

Next ==
  /\ Running
  /\ \/ Edit \/ Hup \/ Terminate
     \/ Reload \/ ReloaderEnds \/ Main
     \/ \E s \in Scheds : Scheduling(s)
     \/ \E r \in Requests : Serving(r)
     \/ Tick

Spec == Init /\ [][Next]_vars

\* Goroutines and timers run while the process does; probes and requests end
\* by their timeout.  The operator, new requests and the select branch that
\* ends the reloader are free.  Tick is strong: a stream of requests that each
\* take no time does not stop the clock.
Fairness ==
  /\ WF_vars(Running /\ Reload) /\ WF_vars(Running /\ Main)
  /\ \A s \in Scheds : /\ WF_vars(Running /\ StartScheduler(s))
                       /\ WF_vars(Running /\ phase[s] = "first" /\ RoundEnds(s))
                       /\ WF_vars(Running /\ ExitScheduler(s))
                       /\ WF_vars(Running /\ CloseLines(s))
  /\ \A r \in Requests : WF_vars(Running /\ (ReadConfig(r) \/ Answer(r)))
  /\ SF_vars(Running /\ Tick)

FairSpec == Spec /\ Fairness

-----------------------------------------------------------------------------
\* Types of the process state around the schedulers of main.go.
TypeOK ==
  /\ file \in Timeouts \cup {Invalid}
  /\ edits \in 0 .. MaxEdits /\ askedEdit \in 0 .. MaxEdits /\ readEdit \in 0 .. MaxEdits
  /\ signals \in 0 .. MaxSignals
  /\ rpc \in {"wait", "load", "await", "swap", "retire", "gone"}
  /\ new \in Scheds \cup {Nobody} /\ old \in Scheds \cup {Nobody}
  /\ rpc \in {"await", "swap", "retire"} => new # Nobody
  /\ pointer \in Scheds
  /\ phase \in [Scheds -> {"none", "created", "first", "loop", "exited"}]
  /\ timeout \in [Scheds -> Timeouts \cup {0}]
  /\ published \in [Scheds -> BOOLEAN]
  /\ cancelled \in [Scheds -> BOOLEAN] /\ open \in [Scheds -> BOOLEAN]
  /\ grace \in [Scheds -> Nat]
  /\ closeIn \in [Scheds -> Nat \cup {NoTimer}]
  /\ pc \in [Requests -> {"idle", "loaded", "exchange"}]
  /\ sched \in [Requests -> Scheds \cup {Nobody}]
  /\ left \in [Requests -> Nat]
  /\ pending \in BOOLEAN /\ ctxDone \in BOOLEAN /\ appDone \in BOOLEAN /\ cut \in BOOLEAN
  /\ mpc \in {"serve", "drain", "cancel", "stop", "join", "exited"}
  /\ stopping \in Scheds \cup {Nobody}
  /\ drainLeft \in 0 .. ShutdownTimeout

\* No request in flight loses its lines: neither a reload nor a shutdown that
\* could drain closes them under it (README.md:57; main.go:127, main.go:202).
InFlightKept ==
  ~ cut => \A r \in Requests : pc[r] = "exchange" => open[sched[r]]

\* Reloads leave one scheduler in charge, however they end: the one in force
\* has finished its first round and until the final shutdown is none that was
\* retired, and any other that was started is in the reloader's hands or told
\* to stop, so that none goes on probing behind its back.
OneInCharge ==
  /\ pointer # 0 => FirstDone(pointer)
  /\ cancelled[pointer] \/ ~ open[pointer] => appDone
  /\ \A s \in Scheds :
       phase[s] # "none" => s \in {pointer, new, old} \/ cancelled[s] \/ appDone

\* When the reloader rests, it has read the file as it was at the last SIGHUP
\* or later: a signal sent during a reload is not lost.
NoReloadLost == rpc = "wait" /\ ~ pending => readEdit >= askedEdit

\* A SIGHUP is taken up, unless the process ends.
SignalServed == pending ~> ~ pending \/ ctxDone

\* A retired scheduler closes its lines, unless the process ends first.
RetiredCloses ==
  \A s \in Scheds : cancelled[s] /\ Running ~> ~ open[s] \/ ~ Running

\* After a termination signal main returns, whatever the reloader, the probes
\* and the requests are doing.
ShutdownEnds == ctxDone ~> ~ Running
=============================================================================
