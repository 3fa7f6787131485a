--------------------------- MODULE HotReloadProofs ---------------------------
(***************************************************************************)
(* Theorems about HotReload, for any requests, edits, signals and times:   *)
(* its types, one scheduler in charge, no reload lost, and, as long as     *)
(* twice any timeout exceeds any other, no request cut off from its lines. *)
(***************************************************************************)
EXTENDS HotReload, TLAPS

\* Twice any timeout a configuration may set exceeds any other.
Overlap == \A t, u \in Timeouts : 2 * t > u

\* What the reloader's variables mean at each of its steps: the scheduler it
\* awaits is not the one in force, the one it retires is not any longer.
ReloaderOK ==
  /\ rpc \in {"wait", "load", "gone"} => new = Nobody /\ old = Nobody
  /\ rpc \in {"await", "swap"} => new \in Scheds /\ new # pointer /\ old = Nobody
  /\ rpc = "swap" => FirstDone(new)
  /\ rpc = "retire" => new = pointer /\ old \in Scheds /\ old # pointer
  /\ \A s \in {pointer, new, old} \cap Scheds : phase[s] # "none"

\* What the phases of a scheduler go with.  Its timeout is one of a file.
PhaseOK ==
  \A s \in Scheds :
    /\ phase[s] # "none" => timeout[s] \in Timeouts
    /\ phase[s] = "none" => ~ cancelled[s]
    /\ phase[s] = "exited" => cancelled[s] \/ appDone
    /\ phase[s] \notin {"none", "exited"} => open[s]
    /\ closeIn[s] # NoTimer => phase[s] = "exited" /\ open[s]

\* A scheduler in force or in the reloader's hands is not cancelled before the
\* final shutdown.
ChargeOK ==
  /\ \A s \in {pointer, new, old} \cap Scheds : cancelled[s] => appDone
  /\ \A s \in Scheds :
       phase[s] # "none" => s \in {pointer, new, old} \/ cancelled[s] \/ appDone
  /\ pointer # 0 => FirstDone(pointer)

\* The shutdown's variables follow its steps.
ShutdownOK ==
  /\ appDone <=> mpc \in {"stop", "join", "exited"}
  /\ mpc \in {"serve", "drain"} => ~ cut

\* The file read last is as new as the last signal that was taken.
ReadOK ==
  /\ askedEdit <= edits
  /\ pending \/ rpc = "load" \/ readEdit >= askedEdit

\* A request holds a scheduler that was in force.
HoldOK ==
  \A r \in Requests :
    /\ pc[r] = "idle" => sched[r] = Nobody /\ left[r] = 0
    /\ pc[r] # "idle" => /\ sched[r] \in Scheds
                         /\ phase[sched[r]] # "none"
                         /\ rpc \in {"await", "swap"} => sched[r] # new
    /\ pc[r] = "loaded" => left[r] = 0
    /\ pc[r] = "exchange" => left[r] \in 0 .. timeout[sched[r]]

IInv == TypeOK /\ ReloaderOK /\ PhaseOK /\ ChargeOK /\ ShutdownOK /\ ReadOK /\ HoldOK

\* The lines of a scheduler that a request holds outlive the request: what is
\* still to close them comes later than the request's timeout.
LentOK ==
  /\ mpc \in {"cancel", "stop", "join", "exited"} /\ ~ cut => Drained
  /\ ~ cut => \A r \in Requests : pc[r] # "idle" =>
       /\ open[sched[r]]
       /\ cancelled[sched[r]] => grace[sched[r]] > timeout[sched[r]]
       /\ closeIn[sched[r]] # NoTimer =>
            closeIn[sched[r]] > IF pc[r] = "loaded" THEN timeout[sched[r]] ELSE left[r]

-----------------------------------------------------------------------------
\* Nobody is not a scheduler, and the first one is.
LEMMA Schedulers == 0 \in Scheds /\ Scheds \subseteq Nat /\ Nobody \notin Scheds
BY BoundsAssumption DEF Scheds, Nobody

\* The members of the set in BoundsAssumption, one by one.
LEMMA Bounds ==
  MaxEdits \in Nat /\ MaxSignals \in Nat /\ ShutdownTimeout \in Nat
BY BoundsAssumption

\* A timeout is a number, also one that no file has set.
LEMMA Times == TypeOK => \A s \in Scheds : timeout[s] \in Nat
<1>1. \A t \in Timeouts \cup {0} : t \in Nat
  BY TimeoutsAssumption
<1> QED
  BY <1>1 DEF TypeOK

LEMMA InitIInv == Init => IInv
<1> SUFFICES ASSUME Init PROVE IInv
  OBVIOUS
<1>1. TypeOK
  <2>1. timeout \in [Scheds -> Timeouts \cup {0}] /\ file \in Timeouts
    BY DEF Init
  <2>2. phase \in [Scheds -> {"none", "created", "first", "loop", "exited"}]
    BY DEF Init
  <2>3. /\ published \in [Scheds -> BOOLEAN]
        /\ cancelled \in [Scheds -> BOOLEAN] /\ open \in [Scheds -> BOOLEAN]
    BY DEF Init
  <2>4. grace \in [Scheds -> Nat] /\ closeIn \in [Scheds -> Nat \cup {NoTimer}]
    BY DEF Init
  <2>5. /\ pc \in [Requests -> {"idle", "loaded", "exchange"}]
        /\ sched \in [Requests -> Scheds \cup {Nobody}] /\ left \in [Requests -> Nat]
    BY DEF Init
  <2>6. pending \in BOOLEAN /\ ctxDone \in BOOLEAN /\ appDone \in BOOLEAN /\ cut \in BOOLEAN
    BY DEF Init
  <2> QED
    BY <2>1, <2>2, <2>3, <2>4, <2>5, <2>6, Schedulers, Bounds
    DEF Init, TypeOK, Nobody
<1>2. ReloaderOK /\ PhaseOK /\ ChargeOK
  BY Schedulers, TimeoutsAssumption
  DEF Init, ReloaderOK, PhaseOK, ChargeOK, FirstDone
<1>3. ShutdownOK /\ ReadOK /\ HoldOK
  BY Schedulers DEF Init, ShutdownOK, ReadOK, HoldOK
<1> QED
  BY <1>1, <1>2, <1>3 DEF IInv

\* The grace is a number because the reloader retires the old scheduler only
\* while it has a new one.
LEMMA TypeStep == IInv /\ [Next]_vars => TypeOK'
<1> SUFFICES ASSUME IInv, [Next]_vars PROVE TypeOK'
  OBVIOUS
<1> USE DEF fileVars, signalVars, reloadVars, schedVars, reqVars, mainVars
<1>t. TypeOK /\ ReloaderOK /\ PhaseOK /\ HoldOK
  BY DEF IInv
<1>1. CASE UNCHANGED vars
  BY <1>t, <1>1 DEF vars, TypeOK
<1>2. CASE Edit
  BY <1>t, <1>2, Bounds DEF Edit, TypeOK
<1>3. CASE Hup
  BY <1>t, <1>3, Bounds DEF Hup, TypeOK
<1>4. CASE Terminate
  BY <1>t, <1>4 DEF Terminate, TypeOK
<1>5. CASE TakeSignal
  <2>1. /\ pending' = FALSE /\ rpc' = "load"
        /\ UNCHANGED <<fileVars, signals, askedEdit, new, old, readEdit, pointer,
                       schedVars, reqVars, mainVars>>
    BY <1>5 DEF TakeSignal
  <2>2. /\ rpc' \in {"wait", "load", "await", "swap", "retire", "gone"}
        /\ rpc' \notin {"await", "swap", "retire"} /\ pending' \in BOOLEAN
    BY <2>1
  <2> QED
    BY <1>t, <2>1, <2>2 DEF TypeOK
<1>6. CASE LoadFails
  BY <1>t, <1>6 DEF LoadFails, TypeOK
<1>7. CASE LoadConfig
  <2>1. PICK s \in Scheds :
          /\ new' = s
          /\ phase' = [phase EXCEPT ![s] = "created"]
          /\ timeout' = [timeout EXCEPT ![s] = file] /\ file # Invalid
          /\ open' = [open EXCEPT ![s] = TRUE]
    BY <1>7 DEF LoadConfig
  <2>2. new' # Nobody
    BY <2>1, Schedulers
  <2>3. phase' \in [Scheds -> {"none", "created", "first", "loop", "exited"}]
    BY <1>t, <2>1 DEF TypeOK
  <2>4. timeout' \in [Scheds -> Timeouts \cup {0}]
    BY <1>t, <2>1 DEF TypeOK
  <2>5. open' \in [Scheds -> BOOLEAN]
    BY <1>t, <2>1 DEF TypeOK
  <2>6. /\ rpc' = "await" /\ readEdit' = edits
        /\ UNCHANGED <<fileVars, signalVars, old, pointer, published, cancelled,
                       grace, closeIn, reqVars, mainVars>>
    BY <1>7 DEF LoadConfig
  <2> QED
    BY <1>t, <2>1, <2>2, <2>3, <2>4, <2>5, <2>6 DEF TypeOK
<1>8. CASE GiveUp
  BY <1>t, <1>8 DEF GiveUp, TypeOK
<1>9. CASE FirstRoundSeen
  BY <1>t, <1>9 DEF FirstRoundSeen, TypeOK
<1>10. CASE Swap
  BY <1>t, <1>10 DEF Swap, TypeOK
<1>11. CASE RetireOld
  <2>1. Grace \in Nat
    <3>1. new \in Scheds
      BY <1>t, <1>11 DEF RetireOld, ReloaderOK, TypeOK
    <3>2. timeout[new] \in Nat
      BY <1>t, <3>1, Times
    <3> QED
      BY <3>2 DEF Grace
  <2>2. /\ grace' = [grace EXCEPT ![old] = Grace]
        /\ cancelled' = [cancelled EXCEPT ![old] = TRUE]
    BY <1>11 DEF RetireOld
  <2>3. grace' \in [Scheds -> Nat]
    <3>1. grace \in [Scheds -> Nat]
      BY <1>t DEF TypeOK
    <3> QED
      BY <2>1, <2>2, <3>1
  <2>4. cancelled' \in [Scheds -> BOOLEAN]
    <3>1. cancelled \in [Scheds -> BOOLEAN]
      BY <1>t DEF TypeOK
    <3> QED
      BY <2>2, <3>1
  <2>5. /\ rpc' = "wait" /\ new' = Nobody /\ old' = Nobody
        /\ UNCHANGED <<fileVars, signalVars, readEdit, pointer, phase, timeout,
                       published, closeIn, open, reqVars, mainVars>>
    BY <1>11 DEF RetireOld
  <2> QED
    BY <1>t, <2>3, <2>4, <2>5 DEF TypeOK
<1>12. CASE ReloaderEnds
  <2>1. /\ rpc' = "gone"
        /\ UNCHANGED <<fileVars, signalVars, old, readEdit, pointer, phase, timeout,
                       published, grace, closeIn, open, reqVars, mainVars>>
    BY <1>12 DEF ReloaderEnds
  <2>2. cancelled' \in [Scheds -> BOOLEAN]
    <3>1. cancelled \in [Scheds -> BOOLEAN]
      BY <1>t DEF TypeOK
    <3>2. cancelled' = cancelled \/ cancelled' = [cancelled EXCEPT ![new] = TRUE]
      BY <1>12 DEF ReloaderEnds
    <3> QED
      BY <3>1, <3>2
  <2>3. new' \in Scheds \cup {Nobody}
    BY <1>t, <1>12 DEF ReloaderEnds, TypeOK
  <2> QED
    BY <1>t, <2>1, <2>2, <2>3 DEF TypeOK
<1>13. CASE BeginShutdown
  BY <1>t, <1>13, Bounds DEF BeginShutdown, TypeOK
<1>14. CASE EndShutdown
  BY <1>t, <1>14 DEF EndShutdown, TypeOK
<1>15. CASE AppCancel
  BY <1>t, <1>15 DEF AppCancel, TypeOK
<1>16. CASE StopCurrent
  BY <1>t, <1>16 DEF StopCurrent, TypeOK
<1>17. CASE Return
  BY <1>t, <1>17 DEF Return, TypeOK
<1>18. ASSUME NEW s \in Scheds, StartScheduler(s) PROVE TypeOK'
  BY <1>t, <1>18 DEF StartScheduler, TypeOK
<1>19. ASSUME NEW s \in Scheds, RoundEnds(s) PROVE TypeOK'
  BY <1>t, <1>19 DEF RoundEnds, TypeOK
<1>20. ASSUME NEW s \in Scheds, ExitScheduler(s) PROVE TypeOK'
  <2>1. phase' \in [Scheds -> {"none", "created", "first", "loop", "exited"}]
    BY <1>t, <1>20 DEF ExitScheduler, TypeOK
  <2>2. closeIn' \in [Scheds -> Nat \cup {NoTimer}]
    BY <1>t, <1>20 DEF ExitScheduler, TypeOK
  <2>3. open' \in [Scheds -> BOOLEAN]
    BY <1>t, <1>20 DEF ExitScheduler, TypeOK
  <2> QED
    BY <1>t, <1>20, <2>1, <2>2, <2>3 DEF ExitScheduler, TypeOK
<1>21. ASSUME NEW s \in Scheds, CloseLines(s) PROVE TypeOK'
  BY <1>t, <1>21 DEF CloseLines, TypeOK
<1>22. ASSUME NEW r \in Requests, LoadPointer(r) PROVE TypeOK'
  BY <1>t, <1>22 DEF LoadPointer, TypeOK
<1>23. ASSUME NEW r \in Requests, ReadConfig(r) PROVE TypeOK'
  <2>1. sched[r] \in Scheds
    BY <1>t, <1>23 DEF ReadConfig, HoldOK
  <2>2. left' \in [Requests -> Nat]
    BY <1>t, <1>23, <2>1, Times DEF ReadConfig, TypeOK
  <2>3. pc' \in [Requests -> {"idle", "loaded", "exchange"}]
    BY <1>t, <1>23 DEF ReadConfig, TypeOK
  <2>4. sched' \in [Requests -> Scheds \cup {Nobody}]
    BY <1>t, <1>23 DEF ReadConfig, TypeOK
  <2> QED
    BY <1>t, <1>23, <2>2, <2>3, <2>4 DEF ReadConfig, TypeOK
<1>24. ASSUME NEW r \in Requests, Answer(r) PROVE TypeOK'
  BY <1>t, <1>24 DEF Answer, TypeOK
<1>25. CASE Tick
  <2>1. left' \in [Requests -> Nat]
    BY <1>t, <1>25 DEF Tick, Elapse, TypeOK
  <2>2. closeIn' \in [Scheds -> Nat \cup {NoTimer}]
    BY <1>t, <1>25 DEF Tick, Elapse, TypeOK, NoTimer
  <2>3. drainLeft' \in 0 .. ShutdownTimeout
    BY <1>t, <1>25, Bounds DEF Tick, Elapse, TypeOK
  <2> QED
    BY <1>t, <1>25, <2>1, <2>2, <2>3 DEF Tick, TypeOK
<1> QED
  BY <1>1, <1>2, <1>3, <1>4, <1>5, <1>6, <1>7, <1>8, <1>9, <1>10, <1>11,
     <1>12, <1>13, <1>14, <1>15, <1>16, <1>17, <1>18, <1>19, <1>20, <1>21,
     <1>22, <1>23, <1>24, <1>25
  DEF Next, Reload, Main, Scheduling, Serving

\* The pointer moves only to the scheduler the reloader has awaited.
LEMMA ReloaderStep == IInv /\ [Next]_vars => ReloaderOK'
<1> SUFFICES ASSUME IInv, [Next]_vars PROVE ReloaderOK'
  OBVIOUS
<1> USE DEF fileVars, signalVars, reloadVars, schedVars, reqVars, mainVars
<1>t. TypeOK /\ ReloaderOK
  BY DEF IInv
<1>1. CASE UNCHANGED vars
  BY <1>t, <1>1 DEF vars, ReloaderOK, FirstDone
<1>2. CASE Edit
  BY <1>t, <1>2 DEF Edit, ReloaderOK, FirstDone
<1>3. CASE Hup
  BY <1>t, <1>3 DEF Hup, ReloaderOK, FirstDone
<1>4. CASE Terminate
  BY <1>t, <1>4 DEF Terminate, ReloaderOK, FirstDone
<1>5. CASE TakeSignal
  BY <1>t, <1>5 DEF TakeSignal, ReloaderOK, FirstDone
<1>6. CASE LoadFails
  BY <1>t, <1>6 DEF LoadFails, ReloaderOK, FirstDone
<1>7. CASE LoadConfig
  BY <1>t, <1>7 DEF LoadConfig, TypeOK, ReloaderOK, FirstDone
<1>8. CASE GiveUp
  BY <1>t, <1>8 DEF GiveUp, ReloaderOK, FirstDone
<1>9. CASE FirstRoundSeen
  BY <1>t, <1>9 DEF FirstRoundSeen, ReloaderOK, FirstDone
<1>10. CASE Swap
  BY <1>t, <1>10 DEF Swap, TypeOK, ReloaderOK, FirstDone
<1>11. CASE RetireOld
  BY <1>t, <1>11, Schedulers DEF RetireOld, ReloaderOK, FirstDone
<1>12. CASE ReloaderEnds
  BY <1>t, <1>12 DEF ReloaderEnds, ReloaderOK, FirstDone
<1>13. CASE BeginShutdown
  BY <1>t, <1>13 DEF BeginShutdown, ReloaderOK, FirstDone
<1>14. CASE EndShutdown
  BY <1>t, <1>14 DEF EndShutdown, ReloaderOK, FirstDone
<1>15. CASE AppCancel
  BY <1>t, <1>15 DEF AppCancel, ReloaderOK, FirstDone
<1>16. CASE StopCurrent
  BY <1>t, <1>16 DEF StopCurrent, ReloaderOK, FirstDone
<1>17. CASE Return
  BY <1>t, <1>17 DEF Return, ReloaderOK, FirstDone
<1>18. ASSUME NEW s \in Scheds, StartScheduler(s) PROVE ReloaderOK'
  BY <1>t, <1>18 DEF StartScheduler, ReloaderOK, FirstDone
<1>19. ASSUME NEW s \in Scheds, RoundEnds(s) PROVE ReloaderOK'
  BY <1>t, <1>19 DEF RoundEnds, ReloaderOK, FirstDone
<1>20. ASSUME NEW s \in Scheds, ExitScheduler(s) PROVE ReloaderOK'
  BY <1>t, <1>20 DEF ExitScheduler, ReloaderOK, FirstDone
<1>21. ASSUME NEW s \in Scheds, CloseLines(s) PROVE ReloaderOK'
  BY <1>t, <1>21 DEF CloseLines, ReloaderOK, FirstDone
<1>22. ASSUME NEW r \in Requests, LoadPointer(r) PROVE ReloaderOK'
  BY <1>t, <1>22 DEF LoadPointer, ReloaderOK, FirstDone
<1>23. ASSUME NEW r \in Requests, ReadConfig(r) PROVE ReloaderOK'
  BY <1>t, <1>23 DEF ReadConfig, ReloaderOK, FirstDone
<1>24. ASSUME NEW r \in Requests, Answer(r) PROVE ReloaderOK'
  BY <1>t, <1>24 DEF Answer, ReloaderOK, FirstDone
<1>25. CASE Tick
  BY <1>t, <1>25 DEF Tick, ReloaderOK, FirstDone
<1> QED
  BY <1>1, <1>2, <1>3, <1>4, <1>5, <1>6, <1>7, <1>8, <1>9, <1>10, <1>11,
     <1>12, <1>13, <1>14, <1>15, <1>16, <1>17, <1>18, <1>19, <1>20, <1>21,
     <1>22, <1>23, <1>24, <1>25
  DEF Next, Reload, Main, Scheduling, Serving

\* A loop ends only once it is cancelled, and its lines are closed after it.
LEMMA PhaseStep == IInv /\ [Next]_vars => PhaseOK'
<1> SUFFICES ASSUME IInv, [Next]_vars PROVE PhaseOK'
  OBVIOUS
<1> USE DEF fileVars, signalVars, reloadVars, schedVars, reqVars, mainVars
<1>t. TypeOK /\ ReloaderOK /\ PhaseOK
  BY DEF IInv
<1>1. CASE UNCHANGED vars
  BY <1>t, <1>1 DEF vars, PhaseOK
<1>2. CASE Edit
  BY <1>t, <1>2 DEF Edit, PhaseOK
<1>3. CASE Hup
  BY <1>t, <1>3 DEF Hup, PhaseOK
<1>4. CASE Terminate
  BY <1>t, <1>4 DEF Terminate, PhaseOK
<1>5. CASE TakeSignal
  BY <1>t, <1>5 DEF TakeSignal, PhaseOK
<1>6. CASE LoadFails
  BY <1>t, <1>6 DEF LoadFails, PhaseOK
<1>7. CASE LoadConfig
  <2>1. PICK s \in Scheds :
          /\ phase[s] = "none"
          /\ phase' = [phase EXCEPT ![s] = "created"]
          /\ timeout' = [timeout EXCEPT ![s] = file]
          /\ open' = [open EXCEPT ![s] = TRUE]
    BY <1>7 DEF LoadConfig
  <2>2. file \in Timeouts /\ UNCHANGED <<cancelled, closeIn, appDone>>
    BY <1>t, <1>7 DEF LoadConfig, TypeOK, Invalid
  <2>3. \A x \in Scheds : phase[x] = "none" => closeIn[x] = NoTimer
    BY <1>t DEF PhaseOK
  <2>4. \A x \in Scheds : open'[x] <=> x = s \/ open[x]
    BY <1>t, <2>1 DEF TypeOK
  <2>5. \A x \in Scheds : phase'[x] = IF x = s THEN "created" ELSE phase[x]
    BY <1>t, <2>1 DEF TypeOK
  <2>6. \A x \in Scheds : timeout'[x] = IF x = s THEN file ELSE timeout[x]
    BY <1>t, <2>1 DEF TypeOK
  <2>7. ASSUME NEW x \in Scheds, x = s
        PROVE  /\ timeout'[x] \in Timeouts /\ phase'[x] = "created"
               /\ open'[x] /\ closeIn'[x] = NoTimer
    BY <2>1, <2>2, <2>3, <2>4, <2>5, <2>6, <2>7
  <2>8. ASSUME NEW x \in Scheds, x # s
        PROVE  /\ timeout'[x] = timeout[x] /\ phase'[x] = phase[x]
               /\ open'[x] <=> open[x]
    BY <2>4, <2>5, <2>6, <2>8
  <2> QED
    BY <2>1, <2>2, <2>3, <2>4, <2>5, <2>6, <2>7, <2>8, <1>t
    DEF PhaseOK
<1>8. CASE GiveUp
  <2>1. \A s \in Scheds : cancelled'[s] <=> s = new \/ cancelled[s]
    BY <1>t, <1>8, Schedulers DEF GiveUp, TypeOK, ReloaderOK
  <2>2. phase[new] # "none"
    BY <1>t, <1>8, Schedulers DEF GiveUp, ReloaderOK, TypeOK, FirstDone, Started
  <2>3. UNCHANGED <<phase, timeout, closeIn, open, appDone>>
    BY <1>8 DEF GiveUp
  <2> QED
    BY <2>1, <2>2, <2>3, <1>t
    DEF PhaseOK
<1>9. CASE FirstRoundSeen
  BY <1>t, <1>9 DEF FirstRoundSeen, PhaseOK
<1>10. CASE Swap
  BY <1>t, <1>10 DEF Swap, PhaseOK
<1>11. CASE RetireOld
  <2>1. \A s \in Scheds : cancelled'[s] <=> s = old \/ cancelled[s]
    BY <1>t, <1>11, Schedulers DEF RetireOld, TypeOK, ReloaderOK
  <2>2. phase[old] # "none"
    BY <1>t, <1>11, Schedulers DEF RetireOld, ReloaderOK, TypeOK, FirstDone, Started
  <2>3. UNCHANGED <<phase, timeout, closeIn, open, appDone>>
    BY <1>11 DEF RetireOld
  <2> QED
    BY <2>1, <2>2, <2>3, <1>t
    DEF PhaseOK
<1>12. CASE ReloaderEnds
  <2>1. UNCHANGED <<phase, timeout, closeIn, open, appDone>>
    BY <1>12 DEF ReloaderEnds
  <2>2. CASE rpc = "wait"
    BY <1>t, <1>12, <2>1, <2>2 DEF ReloaderEnds, PhaseOK
  <2>3. CASE rpc = "await"
    <3>1. \A s \in Scheds : cancelled'[s] <=> s = new \/ cancelled[s]
      BY <1>t, <1>12, <2>3, Schedulers DEF ReloaderEnds, TypeOK, ReloaderOK
    <3>2. phase[new] # "none"
      BY <1>t, <2>3, Schedulers DEF ReloaderOK
    <3> QED
      BY <1>t, <2>1, <3>1, <3>2 DEF PhaseOK
  <2> QED
    BY <1>12, <2>2, <2>3 DEF ReloaderEnds
<1>13. CASE BeginShutdown
  BY <1>t, <1>13 DEF BeginShutdown, PhaseOK
<1>14. CASE EndShutdown
  BY <1>t, <1>14 DEF EndShutdown, PhaseOK
<1>15. CASE AppCancel
  BY <1>t, <1>15 DEF AppCancel, PhaseOK
<1>16. CASE StopCurrent
  <2>1. \A s \in Scheds : cancelled'[s] <=> s = pointer \/ cancelled[s]
    BY <1>t, <1>16, Schedulers DEF StopCurrent, TypeOK, ReloaderOK
  <2>2. phase[pointer] # "none"
    BY <1>t, <1>16, Schedulers DEF StopCurrent, ReloaderOK, TypeOK, FirstDone, Started
  <2>3. UNCHANGED <<phase, timeout, closeIn, open, appDone>>
    BY <1>16 DEF StopCurrent
  <2> QED
    BY <2>1, <2>2, <2>3, <1>t
    DEF PhaseOK
<1>17. CASE Return
  BY <1>t, <1>17 DEF Return, PhaseOK
<1>18. ASSUME NEW s \in Scheds, StartScheduler(s) PROVE PhaseOK'
  BY <1>t, <1>18 DEF StartScheduler, PhaseOK
<1>19. ASSUME NEW s \in Scheds, RoundEnds(s) PROVE PhaseOK'
  BY <1>t, <1>19 DEF RoundEnds, PhaseOK
<1>20. ASSUME NEW s \in Scheds, ExitScheduler(s) PROVE PhaseOK'
  BY <1>t, <1>20 DEF ExitScheduler, TypeOK, PhaseOK
<1>21. ASSUME NEW s \in Scheds, CloseLines(s) PROVE PhaseOK'
  <2>1. phase[s] = "exited" /\ UNCHANGED <<phase, timeout, cancelled, appDone>>
    BY <1>t, <1>21, Schedulers DEF CloseLines, PhaseOK, TypeOK, NoTimer
  <2>2. \A x \in Scheds : x # s => closeIn'[x] = closeIn[x] /\ (open'[x] <=> open[x])
    BY <1>t, <1>21 DEF CloseLines, TypeOK
  <2>3. closeIn'[s] = NoTimer
    BY <1>t, <1>21 DEF CloseLines, TypeOK
  <2> QED
    BY <1>t, <2>1, <2>2, <2>3 DEF PhaseOK
<1>22. ASSUME NEW r \in Requests, LoadPointer(r) PROVE PhaseOK'
  BY <1>t, <1>22 DEF LoadPointer, PhaseOK
<1>23. ASSUME NEW r \in Requests, ReadConfig(r) PROVE PhaseOK'
  BY <1>t, <1>23 DEF ReadConfig, PhaseOK
<1>24. ASSUME NEW r \in Requests, Answer(r) PROVE PhaseOK'
  BY <1>t, <1>24 DEF Answer, PhaseOK
<1>25. CASE Tick
  <2>1. UNCHANGED <<phase, timeout, cancelled, open, appDone>>
    BY <1>25 DEF Tick
  <2>2. \A s \in Scheds : closeIn[s] = NoTimer => closeIn'[s] = NoTimer
    BY <1>25 DEF Tick, Elapse, NoTimer
  <2> QED
    BY <1>t, <2>1, <2>2 DEF PhaseOK
<1> QED
  BY <1>1, <1>2, <1>3, <1>4, <1>5, <1>6, <1>7, <1>8, <1>9, <1>10, <1>11,
     <1>12, <1>13, <1>14, <1>15, <1>16, <1>17, <1>18, <1>19, <1>20, <1>21,
     <1>22, <1>23, <1>24, <1>25
  DEF Next, Reload, Main, Scheduling, Serving

\* What is cancelled has left the reloader's hands and the handler's pointer.
LEMMA ChargeStep == IInv /\ [Next]_vars => ChargeOK'
<1> SUFFICES ASSUME IInv, [Next]_vars PROVE ChargeOK'
  OBVIOUS
<1> USE DEF fileVars, signalVars, reloadVars, schedVars, reqVars, mainVars
<1>t. TypeOK /\ ReloaderOK /\ PhaseOK /\ ChargeOK /\ ShutdownOK
  BY DEF IInv
<1>1. CASE UNCHANGED vars
  BY <1>t, <1>1 DEF vars, ChargeOK, FirstDone
<1>2. CASE Edit
  BY <1>t, <1>2 DEF Edit, ChargeOK, FirstDone
<1>3. CASE Hup
  BY <1>t, <1>3 DEF Hup, ChargeOK, FirstDone
<1>4. CASE Terminate
  BY <1>t, <1>4 DEF Terminate, ChargeOK, FirstDone
<1>5. CASE TakeSignal
  BY <1>t, <1>5 DEF TakeSignal, ChargeOK, FirstDone
<1>6. CASE LoadFails
  BY <1>t, <1>6 DEF LoadFails, ChargeOK, FirstDone
<1>7. CASE LoadConfig
  BY <1>t, <1>7 DEF LoadConfig, ReloaderOK, PhaseOK, ChargeOK, FirstDone
<1>8. CASE GiveUp
  BY <1>t, <1>8 DEF GiveUp, TypeOK, ReloaderOK, ChargeOK, FirstDone
<1>9. CASE FirstRoundSeen
  BY <1>t, <1>9 DEF FirstRoundSeen, ChargeOK, FirstDone
<1>10. CASE Swap
  BY <1>t, <1>10, Schedulers DEF Swap, ReloaderOK, ChargeOK, FirstDone
<1>11. CASE RetireOld
  BY <1>t, <1>11, Schedulers DEF RetireOld, TypeOK, ReloaderOK, ChargeOK, FirstDone
<1>12. CASE ReloaderEnds
  BY <1>t, <1>12 DEF ReloaderEnds, TypeOK, ReloaderOK, ChargeOK, FirstDone
<1>13. CASE BeginShutdown
  BY <1>t, <1>13 DEF BeginShutdown, ChargeOK, FirstDone
<1>14. CASE EndShutdown
  BY <1>t, <1>14 DEF EndShutdown, ChargeOK, FirstDone
<1>15. CASE AppCancel
  BY <1>t, <1>15 DEF AppCancel, ChargeOK, FirstDone
<1>16. CASE StopCurrent
  <2>1. appDone' /\ UNCHANGED <<pointer, new, old, phase>>
    BY <1>t, <1>16 DEF StopCurrent, ShutdownOK, TypeOK
  <2> QED
    BY <1>t, <2>1 DEF ChargeOK, FirstDone
<1>17. CASE Return
  BY <1>t, <1>17 DEF Return, ChargeOK, FirstDone
<1>18. ASSUME NEW s \in Scheds, StartScheduler(s) PROVE ChargeOK'
  BY <1>t, <1>18 DEF StartScheduler, ChargeOK, FirstDone
<1>19. ASSUME NEW s \in Scheds, RoundEnds(s) PROVE ChargeOK'
  BY <1>t, <1>19 DEF RoundEnds, ChargeOK, FirstDone
<1>20. ASSUME NEW s \in Scheds, ExitScheduler(s) PROVE ChargeOK'
  BY <1>t, <1>20 DEF ExitScheduler, ChargeOK, FirstDone
<1>21. ASSUME NEW s \in Scheds, CloseLines(s) PROVE ChargeOK'
  BY <1>t, <1>21 DEF CloseLines, ChargeOK, FirstDone
<1>22. ASSUME NEW r \in Requests, LoadPointer(r) PROVE ChargeOK'
  BY <1>t, <1>22 DEF LoadPointer, ChargeOK, FirstDone
<1>23. ASSUME NEW r \in Requests, ReadConfig(r) PROVE ChargeOK'
  BY <1>t, <1>23 DEF ReadConfig, ChargeOK, FirstDone
<1>24. ASSUME NEW r \in Requests, Answer(r) PROVE ChargeOK'
  BY <1>t, <1>24 DEF Answer, ChargeOK, FirstDone
<1>25. CASE Tick
  BY <1>t, <1>25 DEF Tick, ChargeOK, FirstDone
<1> QED
  BY <1>1, <1>2, <1>3, <1>4, <1>5, <1>6, <1>7, <1>8, <1>9, <1>10, <1>11,
     <1>12, <1>13, <1>14, <1>15, <1>16, <1>17, <1>18, <1>19, <1>20, <1>21,
     <1>22, <1>23, <1>24, <1>25
  DEF Next, Reload, Main, Scheduling, Serving

\* Requests are cut only by a shutdown that is over, and a signal stays
\* pending until the file is about to be read.
LEMMA ShutdownReadStep == IInv /\ [Next]_vars => (ShutdownOK /\ ReadOK)'
<1> SUFFICES ASSUME IInv, [Next]_vars PROVE (ShutdownOK /\ ReadOK)'
  OBVIOUS
<1> USE DEF fileVars, signalVars, reloadVars, schedVars, reqVars, mainVars
<1>t. TypeOK /\ ShutdownOK /\ ReadOK
  BY DEF IInv
<1>1. CASE UNCHANGED vars
  BY <1>t, <1>1 DEF vars, ShutdownOK, ReadOK
<1>2. CASE Edit
  BY <1>t, <1>2 DEF Edit, TypeOK, ShutdownOK, ReadOK
<1>3. CASE Hup
  BY <1>t, <1>3 DEF Hup, TypeOK, ShutdownOK, ReadOK
<1>4. CASE Terminate
  BY <1>t, <1>4 DEF Terminate, ShutdownOK, ReadOK
<1>5. CASE TakeSignal
  BY <1>t, <1>5 DEF TakeSignal, ShutdownOK, ReadOK
<1>6. CASE LoadFails
  BY <1>t, <1>6 DEF LoadFails, ShutdownOK, ReadOK
<1>7. CASE LoadConfig
  BY <1>t, <1>7 DEF LoadConfig, ShutdownOK, ReadOK
<1>8. CASE GiveUp
  BY <1>t, <1>8 DEF GiveUp, ShutdownOK, ReadOK
<1>9. CASE FirstRoundSeen
  BY <1>t, <1>9 DEF FirstRoundSeen, ShutdownOK, ReadOK
<1>10. CASE Swap
  BY <1>t, <1>10 DEF Swap, ShutdownOK, ReadOK
<1>11. CASE RetireOld
  BY <1>t, <1>11 DEF RetireOld, ShutdownOK, ReadOK
<1>12. CASE ReloaderEnds
  BY <1>t, <1>12 DEF ReloaderEnds, ShutdownOK, ReadOK
<1>13. CASE BeginShutdown
  BY <1>t, <1>13 DEF BeginShutdown, ShutdownOK, ReadOK
<1>14. CASE EndShutdown
  BY <1>t, <1>14 DEF EndShutdown, ShutdownOK, ReadOK
<1>15. CASE AppCancel
  BY <1>t, <1>15 DEF AppCancel, ShutdownOK, ReadOK
<1>16. CASE StopCurrent
  BY <1>t, <1>16 DEF StopCurrent, ShutdownOK, ReadOK
<1>17. CASE Return
  BY <1>t, <1>17 DEF Return, ShutdownOK, ReadOK
<1>18. ASSUME NEW s \in Scheds, StartScheduler(s) PROVE (ShutdownOK /\ ReadOK)'
  BY <1>t, <1>18 DEF StartScheduler, ShutdownOK, ReadOK
<1>19. ASSUME NEW s \in Scheds, RoundEnds(s) PROVE (ShutdownOK /\ ReadOK)'
  BY <1>t, <1>19 DEF RoundEnds, ShutdownOK, ReadOK
<1>20. ASSUME NEW s \in Scheds, ExitScheduler(s) PROVE (ShutdownOK /\ ReadOK)'
  BY <1>t, <1>20 DEF ExitScheduler, ShutdownOK, ReadOK
<1>21. ASSUME NEW s \in Scheds, CloseLines(s) PROVE (ShutdownOK /\ ReadOK)'
  BY <1>t, <1>21 DEF CloseLines, ShutdownOK, ReadOK
<1>22. ASSUME NEW r \in Requests, LoadPointer(r) PROVE (ShutdownOK /\ ReadOK)'
  BY <1>t, <1>22 DEF LoadPointer, ShutdownOK, ReadOK
<1>23. ASSUME NEW r \in Requests, ReadConfig(r) PROVE (ShutdownOK /\ ReadOK)'
  BY <1>t, <1>23 DEF ReadConfig, ShutdownOK, ReadOK
<1>24. ASSUME NEW r \in Requests, Answer(r) PROVE (ShutdownOK /\ ReadOK)'
  BY <1>t, <1>24 DEF Answer, ShutdownOK, ReadOK
<1>25. CASE Tick
  BY <1>t, <1>25 DEF Tick, ShutdownOK, ReadOK
<1> QED
  BY <1>1, <1>2, <1>3, <1>4, <1>5, <1>6, <1>7, <1>8, <1>9, <1>10, <1>11,
     <1>12, <1>13, <1>14, <1>15, <1>16, <1>17, <1>18, <1>19, <1>20, <1>21,
     <1>22, <1>23, <1>24, <1>25
  DEF Next, Reload, Main, Scheduling, Serving

\* A request takes what is in force, which is never what is awaited.
LEMMA HoldStep == IInv /\ [Next]_vars => HoldOK'
<1> SUFFICES ASSUME IInv, [Next]_vars PROVE HoldOK'
  OBVIOUS
<1> USE DEF fileVars, signalVars, reloadVars, schedVars, reqVars, mainVars
<1>t. TypeOK /\ ReloaderOK /\ PhaseOK /\ HoldOK
  BY DEF IInv
<1>1. CASE UNCHANGED vars
  BY <1>t, <1>1 DEF vars, HoldOK
<1>2. CASE Edit
  BY <1>t, <1>2 DEF Edit, HoldOK
<1>3. CASE Hup
  BY <1>t, <1>3 DEF Hup, HoldOK
<1>4. CASE Terminate
  BY <1>t, <1>4 DEF Terminate, HoldOK
<1>5. CASE TakeSignal
  BY <1>t, <1>5 DEF TakeSignal, HoldOK
<1>6. CASE LoadFails
  BY <1>t, <1>6 DEF LoadFails, HoldOK
<1>7. CASE LoadConfig
  BY <1>t, <1>7 DEF LoadConfig, HoldOK
<1>8. CASE GiveUp
  BY <1>t, <1>8 DEF GiveUp, HoldOK
<1>9. CASE FirstRoundSeen
  BY <1>t, <1>9 DEF FirstRoundSeen, HoldOK
<1>10. CASE Swap
  BY <1>t, <1>10 DEF Swap, HoldOK
<1>11. CASE RetireOld
  BY <1>t, <1>11 DEF RetireOld, HoldOK
<1>12. CASE ReloaderEnds
  BY <1>t, <1>12 DEF ReloaderEnds, HoldOK
<1>13. CASE BeginShutdown
  BY <1>t, <1>13 DEF BeginShutdown, HoldOK
<1>14. CASE EndShutdown
  BY <1>t, <1>14 DEF EndShutdown, HoldOK
<1>15. CASE AppCancel
  BY <1>t, <1>15 DEF AppCancel, HoldOK
<1>16. CASE StopCurrent
  BY <1>t, <1>16 DEF StopCurrent, HoldOK
<1>17. CASE Return
  BY <1>t, <1>17 DEF Return, HoldOK
<1>18. ASSUME NEW s \in Scheds, StartScheduler(s) PROVE HoldOK'
  BY <1>t, <1>18 DEF StartScheduler, HoldOK
<1>19. ASSUME NEW s \in Scheds, RoundEnds(s) PROVE HoldOK'
  BY <1>t, <1>19 DEF RoundEnds, HoldOK
<1>20. ASSUME NEW s \in Scheds, ExitScheduler(s) PROVE HoldOK'
  BY <1>t, <1>20 DEF ExitScheduler, HoldOK
<1>21. ASSUME NEW s \in Scheds, CloseLines(s) PROVE HoldOK'
  BY <1>t, <1>21 DEF CloseLines, HoldOK
<1>22. ASSUME NEW r \in Requests, LoadPointer(r) PROVE HoldOK'
  BY <1>t, <1>22 DEF LoadPointer, TypeOK, ReloaderOK, HoldOK
<1>23. ASSUME NEW r \in Requests, ReadConfig(r) PROVE HoldOK'
  <2>1. UNCHANGED <<phase, rpc, new, timeout>>
    BY <1>23 DEF ReadConfig
  <2>2. sched[r] \in Scheds /\ timeout[sched[r]] \in Nat
    BY <1>t, <1>23, Times DEF ReadConfig, HoldOK, TypeOK
  <2>3. CASE published[sched[r]] /\ pc' = [pc EXCEPT ![r] = "exchange"] /\ sched' = sched
             /\ left' = [left EXCEPT ![r] = timeout[sched[r]]]
    BY <1>t, <1>23, <2>1, <2>2, <2>3 DEF ReadConfig, HoldOK, TypeOK
  <2>4. CASE pc' = [pc EXCEPT ![r] = "idle"] /\ sched' = [sched EXCEPT ![r] = Nobody]
             /\ left' = left
    BY <1>t, <1>23, <2>1, <2>4 DEF ReadConfig, HoldOK, TypeOK
  <2> QED
    BY <1>23, <2>3, <2>4 DEF ReadConfig
<1>24. ASSUME NEW r \in Requests, Answer(r) PROVE HoldOK'
  <2>1. UNCHANGED <<phase, rpc, new, timeout>>
    BY <1>24 DEF Answer
  <2>2. pc' = [pc EXCEPT ![r] = "idle"] /\ sched' = [sched EXCEPT ![r] = Nobody]
        /\ left' = [left EXCEPT ![r] = 0]
    BY <1>24 DEF Answer
  <2>3. pc'[r] = "idle" /\ sched'[r] = Nobody
    BY <1>t, <2>2 DEF TypeOK
  <2>4. left'[r] = 0
    BY <1>t, <2>2 DEF TypeOK
  <2>5. \A x \in Requests : x # r =>
          pc'[x] = pc[x] /\ sched'[x] = sched[x] /\ left'[x] = left[x]
    BY <1>t, <2>2 DEF TypeOK
  <2> QED
    BY <1>t, <2>1, <2>3, <2>4, <2>5 DEF HoldOK
<1>25. CASE Tick
  <2>1. UNCHANGED <<phase, rpc, new, timeout, pc, sched>>
    BY <1>25 DEF Tick
  <2>2. \A r \in Requests : /\ left[r] = 0 => left'[r] = 0
                            /\ \A n \in Nat : left[r] \in 0 .. n => left'[r] \in 0 .. n
    BY <1>25 DEF Tick, Elapse
  <2>3. \A s \in Scheds : timeout[s] \in Nat
    BY <1>t, Times
  <2> QED
    BY <1>t, <2>1, <2>2, <2>3 DEF HoldOK
<1> QED
  BY <1>1, <1>2, <1>3, <1>4, <1>5, <1>6, <1>7, <1>8, <1>9, <1>10, <1>11,
     <1>12, <1>13, <1>14, <1>15, <1>16, <1>17, <1>18, <1>19, <1>20, <1>21,
     <1>22, <1>23, <1>24, <1>25
  DEF Next, Reload, Main, Scheduling, Serving

\* The grace is given when the old scheduler has left the handler, and runs
\* beside the requests that still hold it: Overlap makes it the longer of the
\* two, and every tick shortens both.
LEMMA LentStep ==
  ASSUME Overlap, IInv, LentOK, [Next]_vars
  PROVE  LentOK'
<1> USE DEF fileVars, signalVars, reloadVars, schedVars, reqVars, mainVars
<1>t. TypeOK /\ ReloaderOK /\ PhaseOK /\ ChargeOK /\ ShutdownOK /\ HoldOK /\ LentOK
  BY DEF IInv
<1>1. CASE UNCHANGED vars
  BY <1>t, <1>1 DEF vars, LentOK, Drained
<1>2. CASE Edit
  BY <1>t, <1>2 DEF Edit, LentOK, Drained
<1>3. CASE Hup
  BY <1>t, <1>3 DEF Hup, LentOK, Drained
<1>4. CASE Terminate
  BY <1>t, <1>4 DEF Terminate, LentOK, Drained
<1>5. CASE TakeSignal
  BY <1>t, <1>5 DEF TakeSignal, LentOK, Drained
<1>6. CASE LoadFails
  BY <1>t, <1>6 DEF LoadFails, LentOK, Drained
<1>7. CASE LoadConfig
  BY <1>t, <1>7 DEF LoadConfig, HoldOK, LentOK, Drained
<1>8. CASE GiveUp
  BY <1>t, <1>8 DEF GiveUp, HoldOK, LentOK, Drained
<1>9. CASE FirstRoundSeen
  BY <1>t, <1>9 DEF FirstRoundSeen, LentOK, Drained
<1>10. CASE Swap
  BY <1>t, <1>10 DEF Swap, LentOK, Drained
<1>11. CASE RetireOld
  <2>1. old \in Scheds /\ new \in Scheds /\ timeout[old] \in Timeouts /\ timeout[new] \in Timeouts
    <3>1. old \in Scheds /\ new \in Scheds
      BY <1>t, <1>11 DEF RetireOld, ReloaderOK, TypeOK
    <3>2. phase[old] # "none" /\ phase[new] # "none"
      BY <1>t, <3>1 DEF ReloaderOK
    <3> QED
      BY <1>t, <3>1, <3>2 DEF PhaseOK
  <2>2. Grace > timeout[old]
    BY <2>1 DEF Overlap, Grace
  <2>3. \A s \in Scheds : s # old => grace'[s] = grace[s] /\ (cancelled'[s] => cancelled[s])
    BY <1>t, <1>11 DEF RetireOld, TypeOK
  <2>4. grace'[old] = Grace
    BY <1>t, <1>11, <2>1 DEF RetireOld, TypeOK
  <2>5. UNCHANGED <<mpc, cut, pc, sched, left, open, timeout, closeIn>>
    BY <1>11 DEF RetireOld
  <2>6. \A r \in Requests : pc[r] # "idle" => sched[r] \in Scheds
    BY <1>t DEF HoldOK
  <2> QED
    BY <1>t, <2>2, <2>3, <2>4, <2>5, <2>6 DEF LentOK, Drained
<1>12. CASE ReloaderEnds
  <2>1. UNCHANGED <<mpc, cut, pc, sched, left, open, timeout, grace, closeIn>>
    BY <1>12 DEF ReloaderEnds
  <2>2. \A s \in Scheds : cancelled'[s] => cancelled[s] \/ (rpc = "await" /\ s = new)
    BY <1>t, <1>12 DEF ReloaderEnds, TypeOK
  <2>3. \A r \in Requests : pc[r] # "idle" =>
          sched[r] \in Scheds /\ (rpc = "await" => sched[r] # new)
    BY <1>t DEF HoldOK
  <2> QED
    BY <1>t, <2>1, <2>2, <2>3 DEF LentOK, Drained
<1>13. CASE BeginShutdown
  BY <1>t, <1>13 DEF BeginShutdown, LentOK, Drained
<1>14. CASE EndShutdown
  BY <1>t, <1>14 DEF EndShutdown, LentOK, Drained
<1>15. CASE AppCancel
  BY <1>t, <1>15 DEF AppCancel, LentOK, Drained
<1>16. CASE StopCurrent
  BY <1>t, <1>16 DEF StopCurrent, LentOK, Drained
<1>17. CASE Return
  BY <1>t, <1>17 DEF Return, LentOK, Drained
<1>18. ASSUME NEW s \in Scheds, StartScheduler(s) PROVE LentOK'
  BY <1>t, <1>18 DEF StartScheduler, LentOK, Drained
<1>19. ASSUME NEW s \in Scheds, RoundEnds(s) PROVE LentOK'
  BY <1>t, <1>19 DEF RoundEnds, LentOK, Drained
<1>20. ASSUME NEW s \in Scheds, ExitScheduler(s) PROVE LentOK'
  <2>1. UNCHANGED <<mpc, cut, pc, sched, left, timeout, grace, cancelled>>
    BY <1>20 DEF ExitScheduler
  <2>2. \A x \in Scheds : x # s => closeIn'[x] = closeIn[x] /\ (open[x] => open'[x])
    BY <1>t, <1>20 DEF ExitScheduler, TypeOK
  <2>3. ASSUME NEW r \in Requests, ~ cut, pc[r] # "idle", sched[r] = s
        PROVE  /\ open'[s]
               /\ closeIn'[s] > timeout[s]
               /\ pc[r] = "exchange" => left[r] <= timeout[s]
    <3>1. ~ appDone
      BY <1>t, <2>3 DEF LentOK, ShutdownOK, Drained
    <3>2. open[s] /\ grace[s] > timeout[s] /\ timeout[s] \in Nat /\ grace[s] \in Nat
      BY <1>t, <1>20, <2>3, <3>1, Times DEF ExitScheduler, LentOK, TypeOK
    <3>3. open' = open /\ closeIn' = [closeIn EXCEPT ![s] = grace[s]]
      BY <1>20, <3>2 DEF ExitScheduler
    <3>4. open'[s] /\ closeIn'[s] > timeout[s]
      BY <1>t, <3>2, <3>3 DEF TypeOK
    <3>5. pc[r] = "exchange" => left[r] <= timeout[s]
      BY <1>t, <2>3, <3>2 DEF HoldOK
    <3> QED
      BY <3>4, <3>5
  <2>4. ASSUME ~ cut', NEW r \in Requests, pc'[r] # "idle"
        PROVE  /\ open'[sched'[r]]
               /\ cancelled'[sched'[r]] => grace'[sched'[r]] > timeout'[sched'[r]]
               /\ closeIn'[sched'[r]] # NoTimer =>
                    closeIn'[sched'[r]] >
                      IF pc'[r] = "loaded" THEN timeout'[sched'[r]] ELSE left'[r]
    <3>1. sched[r] \in Scheds /\ pc[r] # "idle" /\ ~ cut
      BY <1>t, <2>1, <2>4 DEF HoldOK
    <3>2. CASE sched[r] # s
      BY <1>t, <2>1, <2>2, <2>4, <3>1, <3>2 DEF LentOK
    <3>3. CASE sched[r] = s
      <4>1. /\ open'[s] /\ closeIn'[s] > timeout[s]
            /\ pc[r] = "exchange" => left[r] <= timeout[s]
        BY <2>3, <3>1, <3>3
      <4>2. timeout[s] \in Nat /\ left[r] \in Nat /\ closeIn'[s] \in Nat \cup {NoTimer}
        <5>1. closeIn'[s] \in {closeIn[s], grace[s]}
          BY <1>t, <1>20 DEF ExitScheduler, TypeOK
        <5> QED
          BY <1>t, <5>1, Times DEF TypeOK
      <4>3. pc[r] \in {"loaded", "exchange"}
        BY <1>t, <3>1 DEF TypeOK
      <4>4. closeIn'[s] > IF pc[r] = "loaded" THEN timeout[s] ELSE left[r]
        BY <4>1, <4>2, <4>3 DEF NoTimer
      <4> QED
        BY <1>t, <2>1, <3>1, <3>3, <4>1, <4>4 DEF LentOK
    <3> QED
      BY <3>2, <3>3
  <2>5. mpc' \in {"cancel", "stop", "join", "exited"} /\ ~ cut' => Drained'
    BY <1>t, <2>1 DEF LentOK, Drained
  <2> QED
    BY <2>4, <2>5 DEF LentOK
<1>21. ASSUME NEW s \in Scheds, CloseLines(s) PROVE LentOK'
  <2>1. UNCHANGED <<mpc, cut, pc, sched, left, timeout, grace, cancelled>>
    BY <1>21 DEF CloseLines
  <2>2. \A x \in Scheds : x # s => closeIn'[x] = closeIn[x] /\ (open[x] => open'[x])
    BY <1>t, <1>21 DEF CloseLines, TypeOK
  <2>3. \A r \in Requests : ~ cut /\ pc[r] # "idle" => sched[r] # s
    <3>1. timeout[s] \in Nat /\ closeIn[s] = 0
      BY <1>t, <1>21, Times DEF CloseLines
    <3> QED
      BY <1>t, <3>1 DEF LentOK, TypeOK, NoTimer
  <2>4. \A r \in Requests : pc[r] # "idle" => sched[r] \in Scheds
    BY <1>t DEF HoldOK
  <2> QED
    BY <1>t, <2>1, <2>2, <2>3, <2>4 DEF LentOK, Drained
<1>22. ASSUME NEW r \in Requests, LoadPointer(r) PROVE LentOK'
  BY <1>t, <1>22 DEF LoadPointer, TypeOK, ReloaderOK, PhaseOK, ChargeOK, ShutdownOK, LentOK, Drained
<1>23. ASSUME NEW r \in Requests, ReadConfig(r) PROVE LentOK'
  BY <1>t, <1>23 DEF ReadConfig, TypeOK, LentOK, Drained
<1>24. ASSUME NEW r \in Requests, Answer(r) PROVE LentOK'
  BY <1>t, <1>24 DEF Answer, TypeOK, LentOK, Drained
<1>25. CASE Tick
  <2>1. UNCHANGED <<mpc, cut, pc, sched, timeout, grace, cancelled, open>>
    BY <1>25 DEF Tick
  <2>2. ASSUME ~ cut', NEW r \in Requests, pc'[r] # "idle", closeIn'[sched'[r]] # NoTimer
        PROVE  closeIn'[sched'[r]] >
                 IF pc'[r] = "loaded" THEN timeout'[sched'[r]] ELSE left'[r]
    <3>1. pc[r] = "exchange" /\ left[r] > 0 /\ left[r] \in Nat /\ sched[r] \in Scheds
      BY <1>t, <1>25, <2>1, <2>2 DEF Tick, TypeOK, HoldOK
    <3>2. closeIn[sched[r]] \in Nat \cup {NoTimer} /\ closeIn'[sched[r]] = Elapse(closeIn[sched[r]])
      BY <1>t, <1>25, <3>1 DEF Tick, TypeOK
    <3>3. closeIn[sched[r]] # NoTimer
      BY <2>1, <2>2, <3>2 DEF Elapse, NoTimer
    <3>4. closeIn[sched[r]] > left[r]
      BY <1>t, <2>1, <2>2, <3>1, <3>3 DEF LentOK
    <3>5. left'[r] = left[r] - 1
      BY <1>25, <3>1 DEF Tick, Elapse
    <3>6. closeIn'[sched[r]] > left'[r]
      BY <3>1, <3>2, <3>3, <3>4, <3>5 DEF Elapse, NoTimer
    <3> QED
      BY <2>1, <3>1, <3>6
  <2> QED
    BY <1>t, <2>1, <2>2 DEF LentOK, Drained
<1> QED
  BY <1>1, <1>2, <1>3, <1>4, <1>5, <1>6, <1>7, <1>8, <1>9, <1>10, <1>11,
     <1>12, <1>13, <1>14, <1>15, <1>16, <1>17, <1>18, <1>19, <1>20, <1>21,
     <1>22, <1>23, <1>24, <1>25
  DEF Next, Reload, Main, Scheduling, Serving

-----------------------------------------------------------------------------
LEMMA Invariance == Spec => []IInv
<1>1. IInv /\ [Next]_vars => IInv'
  BY TypeStep, ReloaderStep, PhaseStep, ChargeStep, ShutdownReadStep, HoldStep DEF IInv
<1> QED
  BY InitIInv, <1>1, PTL DEF Spec

\* The process keeps the types of its variables: the reloader always has the
\* schedulers that its step needs, and no timer runs below its end.
THEOREM TypeCorrect == Spec => []TypeOK
<1>1. IInv => TypeOK
  BY DEF IInv
<1> QED
  BY Invariance, <1>1, PTL

\* Reloads leave one scheduler in charge, whatever files they read and
\* whenever the process is told to end (main.go:188-203, main.go:222-234).
THEOREM OneIsInCharge == Spec => []OneInCharge
<1>1. IInv => OneInCharge
  <2> SUFFICES ASSUME IInv PROVE OneInCharge
    OBVIOUS
  <2>1. TypeOK /\ ReloaderOK /\ PhaseOK /\ ChargeOK
    BY DEF IInv
  <2>2. pointer \in Scheds /\ phase[pointer] # "none"
    BY <2>1 DEF TypeOK, ReloaderOK
  <2>3. cancelled[pointer] \/ ~ open[pointer] => appDone
    BY <2>1, <2>2 DEF PhaseOK, ChargeOK
  <2> QED
    BY <2>1, <2>3 DEF ChargeOK, OneInCharge
<1> QED
  BY Invariance, <1>1, PTL

\* A reloader at rest has read the file as it was at the last SIGHUP or later:
\* the channel's one place is enough (main.go:141-142).
THEOREM NoReloadIsLost == Spec => []NoReloadLost
<1>1. IInv => NoReloadLost
  BY DEF IInv, ReadOK, NoReloadLost
<1> QED
  BY Invariance, <1>1, PTL

\* No request in flight loses its lines to a reload or to a shutdown that could
\* drain, as long as twice any timeout a file may set exceeds any other: the
\* grace is twice the timeout of the new file, and it has to outlast a request
\* of the old one (main.go:127, main.go:202).
THEOREM RequestsKeepTheirLines ==
  ASSUME Overlap
  PROVE  Spec => []InFlightKept
<1>1. Init => LentOK
  BY DEF Init, LentOK, Drained
<1>2. IInv /\ LentOK /\ [Next]_vars => LentOK'
  BY LentStep
<1>3. IInv /\ LentOK => InFlightKept
  BY DEF LentOK, InFlightKept
<1> QED
  BY Invariance, <1>1, <1>2, <1>3, PTL DEF Spec
=============================================================================
