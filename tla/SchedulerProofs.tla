--------------------------- MODULE SchedulerProofs ---------------------------
(***************************************************************************)
(* Proofs about Scheduler, for every set of providers, keys, requests and  *)
(* line objects and every value of the timeouts.                           *)
(***************************************************************************)
EXTENDS Scheduler, TLAPS

\* What holds of the round under way: each new object is of a key without a
\* hot line, no object has two keys, every selected key has a line, and only
\* selected keys keep a new object once the losers are closed.
RoundOK ==
  /\ \A k \in Keys : fresh[k] # None => live[k] = None
  /\ \A j, k \in Keys : fresh[j] = fresh[k] /\ fresh[j] # None => j = k
  /\ phase \in {"selected", "published"} =>
        /\ \A k \in selected : Probed(k) # None
        /\ \A k \in Keys : fresh[k] # None => k \in selected
  /\ phase \in {"new", "idle", "exited"} => fresh = NoLines

\* The signature is that of the live lines, and the loop that read its grace
\* is the one that exited.
SignatureOK ==
  /\ phase # "exited" => signature = LiveKeys /\ closeAllIn = NoTimer
  /\ phase = "exited" <=> exitGrace # NoTimer

TypeRound == TypeOK /\ RoundOK /\ SignatureOK

USE DEF NoTimer

LEMMA InitTypeRound == Init => TypeRound
<1> SUFFICES ASSUME Init PROVE TypeRound
  OBVIOUS
<1>1. TypeOK
  <2>1. live \in [Keys -> Ids \cup {None}] /\ fresh \in [Keys -> Ids \cup {None}]
    BY DEF Init, NoLines
  <2>2. closeIn \in [Ids -> Int] /\ \A i \in Ids : closeIn[i] >= NoTimer
    BY DEF Init
  <2>3. left \in [Requests -> 0 .. ProbeTimeout]
    BY TimeAssumption DEF Init
  <2>4. held \in [Requests -> SUBSET Ids]
    BY DEF Init
  <2>5. phase \in Phases
    BY DEF Init, Phases
  <2>6. /\ closeAllIn \in Int /\ closeAllIn >= NoTimer
        /\ exitGrace \in Int /\ exitGrace >= NoTimer
        /\ grace \in Nat
    BY DEF Init
  <2>7. cancelled \in BOOLEAN /\ firstDone \in BOOLEAN /\ serving \in BOOLEAN
    BY DEF Init
  <2>8. /\ signature \in SUBSET Keys /\ selected \in SUBSET Keys
        /\ current \in SUBSET Ids /\ open \in SUBSET Ids
    BY DEF Init
  <2> QED
    BY <2>1, <2>2, <2>3, <2>4, <2>5, <2>6, <2>7, <2>8, Zenon DEF TypeOK
<1>2. RoundOK
  BY DEF Init, RoundOK, NoLines
<1>3. SignatureOK
  BY DEF Init, SignatureOK, NoLines, LiveKeys
<1> QED
  BY <1>1, <1>2, <1>3 DEF TypeRound

LEMMA TypeStep == TypeRound /\ [Next]_vars => TypeOK'
<1> SUFFICES ASSUME TypeRound, [Next]_vars PROVE TypeOK'
  OBVIOUS
<1> USE TimeAssumption
    DEF TypeRound, TypeOK, Phases, NoLines, roundVars, stopVars, reqVars
<1>1. CASE BeginRound
  BY <1>1 DEF BeginRound, OpenFresh, FreeIds, Lines
<1>2. CASE Select
  BY <1>2 DEF Select, Selections, Losers
<1>3. CASE Publish
  <2>1. current' \in SUBSET Ids
    BY <1>3 DEF Publish, Probed, RoundOK
  <2> QED
    BY <1>3, <2>1 DEF Publish
<1>4. CASE RetireLines
  BY <1>4 DEF RetireLines, Probed, CloseDelay, Dropped
<1>5. CASE Exit
  BY <1>5 DEF Exit, Lines
<1>6. CASE CloseAllLive
  BY <1>6 DEF CloseAllLive, Lines
<1>7. ASSUME NEW i \in Ids, CloseLine(i) PROVE TypeOK'
  BY <1>7 DEF CloseLine
<1>8. CASE Withdraw
  BY <1>8 DEF Withdraw
<1>9. ASSUME NEW d \in Delays, Retire(d) PROVE TypeOK'
  BY <1>9 DEF Retire
<1>10. CASE Stop
  BY <1>10 DEF Stop
<1>11. ASSUME NEW r \in Requests, BeginRequest(r) PROVE TypeOK'
  BY <1>11 DEF BeginRequest
<1>12. ASSUME NEW r \in Requests, EndRequest(r) PROVE TypeOK'
  BY <1>12 DEF EndRequest
<1>13. CASE Tick
  BY <1>13 DEF Tick, Elapse
<1>14. CASE UNCHANGED vars
  BY <1>14 DEF vars
<1> QED
  BY <1>1, <1>2, <1>3, <1>4, <1>5, <1>6, <1>7, <1>8, <1>9, <1>10, <1>11,
     <1>12, <1>13, <1>14 DEF Next, Round

\* The steps that touch neither the round, nor what is live, nor the exit.
Aside ==
  \/ \E i \in Ids : CloseLine(i)
  \/ Withdraw
  \/ \E d \in Delays : Retire(d)
  \/ Stop
  \/ \E r \in Requests : BeginRequest(r) \/ EndRequest(r)
  \/ Tick
  \/ UNCHANGED vars

LEMMA AsideFrame ==
  ASSUME Aside
  PROVE  UNCHANGED <<phase, live, fresh, selected, signature, current, exitGrace>>
BY DEF Aside, CloseLine, Withdraw, Retire, Stop, BeginRequest, EndRequest,
       Tick, vars, roundVars, stopVars, reqVars

LEMMA RoundStep == TypeRound /\ [Next]_vars => RoundOK'
<1> SUFFICES ASSUME TypeRound, [Next]_vars PROVE RoundOK'
  OBVIOUS
<1> USE IdsAssumption DEF TypeRound, TypeOK, RoundOK, Probed, NoLines
<1>1. CASE BeginRound
  BY <1>1 DEF BeginRound, OpenFresh, NeedsFresh
<1>2. CASE Select
  <2> PICK S \in Selections :
        /\ selected' = S
        /\ fresh' = [k \in Keys |-> IF k \in S THEN fresh[k] ELSE None]
        /\ \/ Unchanged(S) /\ phase' = "idle"
           \/ phase' = "selected"
    BY <1>2 DEF Select
  <2>1. S \subseteq Keys /\ \A k \in S : Probed(k) # None
    BY DEF Selections
  <2>2. UNCHANGED live
    BY <1>2 DEF Select
  <2>3. ASSUME Unchanged(S) PROVE fresh' = NoLines
    BY <1>2, <2>3 DEF Unchanged, SignatureOK, LiveKeys, Select
  <2> QED
    BY <2>1, <2>2, <2>3
<1>3. CASE Publish
  BY <1>3 DEF Publish, roundVars
<1>4. CASE RetireLines
  BY <1>4 DEF RetireLines
<1>5. CASE Exit
  BY <1>5 DEF Exit
<1>6. CASE CloseAllLive
  BY <1>6 DEF CloseAllLive, SignatureOK
<1>7. CASE Aside
  BY <1>7, AsideFrame
<1> QED
  BY <1>1, <1>2, <1>3, <1>4, <1>5, <1>6, <1>7 DEF Next, Round, Aside

LEMMA SignatureStep == TypeRound /\ [Next]_vars => SignatureOK'
<1> SUFFICES ASSUME TypeRound, [Next]_vars PROVE SignatureOK'
  OBVIOUS
<1> USE IdsAssumption DEF TypeRound, TypeOK, SignatureOK, LiveKeys, NoLines
<1>1. CASE BeginRound
  BY <1>1 DEF BeginRound, stopVars
<1>2. CASE Select
  BY <1>2 DEF Select, stopVars
<1>3. CASE Publish
  BY <1>3 DEF Publish, roundVars, stopVars
<1>4. CASE RetireLines
  BY <1>4 DEF RetireLines, RoundOK, Probed, stopVars
<1>5. CASE Exit
  BY <1>5 DEF Exit
<1>6. CASE CloseAllLive
  BY <1>6 DEF CloseAllLive, stopVars
<1>7. CASE Aside
  <2>1. closeAllIn = NoTimer => closeAllIn' = NoTimer
    BY <1>7 DEF Aside, CloseLine, Withdraw, Retire, Stop, BeginRequest,
                EndRequest, Tick, Elapse, vars
  <2> QED
    BY <1>7, <2>1, AsideFrame
<1> QED
  BY <1>1, <1>2, <1>3, <1>4, <1>5, <1>6, <1>7 DEF Next, Round, Aside

LEMMA TypeRoundInvariant == Spec => []TypeRound
<1>1. TypeRound /\ [Next]_vars => TypeRound'
  BY TypeStep, RoundStep, SignatureStep DEF TypeRound
<1> QED
  BY <1>1, InitTypeRound, PTL DEF Spec

\* The state of a scheduler keeps its types (TypeOK of Scheduler).
THEOREM TypeCorrect == Spec => []TypeOK
<1>1. TypeRound => TypeOK
  BY DEF TypeRound
<1> QED
  BY <1>1, TypeRoundInvariant, PTL

-----------------------------------------------------------------------------
\* One owner per line: preserved by every step.
OwnerInv == TypeRound /\ OneOwnerPerLine

LEMMA OwnerFrame ==
  ASSUME OneOwnerPerLine, UNCHANGED <<live, fresh, open>>, Doomed' = Doomed
  PROVE  OneOwnerPerLine'
BY DEF OneOwnerPerLine, Lines

LEMMA OwnerStep == OwnerInv /\ [Next]_vars => OneOwnerPerLine'
<1> SUFFICES ASSUME OwnerInv, [Next]_vars PROVE OneOwnerPerLine'
  OBVIOUS
<1> USE IdsAssumption DEF OwnerInv, TypeRound
<1>1. CASE BeginRound
  <2> PICK f \in [Keys -> FreeIds \cup {None}] :
        /\ \A j, k \in Keys : f[j] = f[k] /\ f[j] # None => j = k
        /\ fresh' = f /\ open' = open \cup Lines(f)
    BY <1>1 DEF BeginRound, OpenFresh
  <2>1. live' = live /\ Doomed' = Doomed
    BY <1>1 DEF BeginRound, Doomed
  <2>2. Lines(f) \cap open = {}
    BY DEF FreeIds, Lines
  <2>3. Lines(fresh) = {}
    BY <1>1 DEF BeginRound, RoundOK, NoLines, Lines
  <2>4. Lines(live)' = Lines(live) /\ Lines(fresh)' = Lines(f)
    BY <2>1 DEF Lines
  <2> QED
    BY <2>1, <2>2, <2>3, <2>4 DEF OneOwnerPerLine
<1>2. CASE Select
  <2> PICK S \in SUBSET Keys :
        /\ open' = open \ Losers(S)
        /\ fresh' = [k \in Keys |-> IF k \in S THEN fresh[k] ELSE None]
    BY <1>2 DEF Select, Selections
  <2>1. live' = live /\ Doomed' = Doomed
    BY <1>2 DEF Select, Doomed
  <2>2. Lines(fresh)' = Lines(fresh) \ Losers(S)
    BY DEF Losers, RoundOK, Lines
  <2>3. Losers(S) \subseteq Lines(fresh)
    BY DEF Losers, Lines
  <2>4. Lines(live)' = Lines(live)
    BY <2>1 DEF Lines
  <2> QED
    BY <2>1, <2>2, <2>3, <2>4 DEF OneOwnerPerLine
<1>3. CASE Publish
  BY <1>3, OwnerFrame DEF Publish, roundVars, Doomed
<1>4. CASE RetireLines
  <2>1. /\ live' = [k \in Keys |-> IF k \in selected THEN Probed(k) ELSE None]
        /\ fresh' = NoLines
        /\ open' = open
        /\ closeIn' = [i \in Ids |-> IF i \in Dropped THEN CloseDelay ELSE closeIn[i]]
        /\ \A k \in Keys : fresh[k] # None => k \in selected
    BY <1>4 DEF RetireLines, RoundOK
  <2>2. Lines(fresh)' = {}
    BY <2>1 DEF NoLines, Lines
  <2>3. Lines(live)' = Lines(fresh) \cup (Lines(live) \ Dropped)
    <3>1. ASSUME NEW i \in Lines(live)' PROVE i \in Lines(fresh) \cup (Lines(live) \ Dropped)
      <4> PICK k \in selected : i = Probed(k) /\ i # None /\ k \in Keys
        BY <2>1, <3>1 DEF Lines
      <4>1. CASE fresh[k] # None
        BY <4>1 DEF Probed, Lines
      <4>2. CASE fresh[k] = None
        BY <4>2 DEF Probed, Lines, Dropped, OneOwnerPerLine
      <4> QED
        BY <4>1, <4>2
    <3>2. ASSUME NEW i \in Lines(fresh) PROVE i \in Lines(live)'
      BY <2>1, <3>2 DEF Probed, Lines
    <3>3. ASSUME NEW i \in Lines(live) \ Dropped PROVE i \in Lines(live)'
      BY <2>1, <3>3 DEF Probed, Dropped, RoundOK, Lines
    <3> QED
      BY <3>1, <3>2, <3>3
  <2>4. Doomed' = Doomed \cup Dropped
    BY <2>1, TimeAssumption DEF CloseDelay, Dropped, NoTimer, Doomed, TypeOK
  <2>5. Dropped \subseteq Lines(live)
    BY DEF Dropped, Lines
  <2>6. \A j, k \in Keys : live'[j] = live'[k] /\ live'[j] # None => j = k
    <3> SUFFICES ASSUME NEW j \in selected, NEW k \in selected,
                        Probed(j) = Probed(k), Probed(j) # None,
                        j \in Keys, k \in Keys
                 PROVE  j = k
      BY <2>1
    <3>1. CASE fresh[j] # None /\ fresh[k] # None
      BY <3>1 DEF Probed, RoundOK
    <3>2. CASE fresh[j] = None /\ fresh[k] = None
      BY <3>2 DEF Probed, OneOwnerPerLine
    <3>3. CASE (fresh[j] = None) # (fresh[k] = None)
      BY <3>3 DEF Probed, OneOwnerPerLine, Lines
    <3> QED
      BY <3>1, <3>2, <3>3
  <2> QED
    BY <2>1, <2>2, <2>3, <2>4, <2>5, <2>6 DEF OneOwnerPerLine
<1>5. CASE Exit
  <2>1. fresh' = fresh /\ Doomed' = Doomed /\ Lines(fresh)' = Lines(fresh)
    BY <1>5 DEF Exit, Doomed, Lines
  <2>2. CASE live' = live /\ open' = open
    BY <2>1, <2>2, OwnerFrame
  <2>3. CASE live' = NoLines /\ open' = open \ Lines(live)
    <3>1. Lines(live)' = {}
      BY <2>3 DEF Lines, NoLines
    <3> QED
      BY <2>1, <2>3, <3>1 DEF OneOwnerPerLine, NoLines
  <2> QED
    BY <1>5, <2>2, <2>3 DEF Exit
<1>6. CASE CloseAllLive
  <2>1. /\ fresh' = fresh /\ Doomed' = Doomed /\ Lines(fresh)' = Lines(fresh)
        /\ live' = NoLines /\ open' = open \ Lines(live)
    BY <1>6 DEF CloseAllLive, Doomed, Lines
  <2>2. Lines(live)' = {}
    BY <2>1 DEF Lines, NoLines
  <2> QED
    BY <2>1, <2>2 DEF OneOwnerPerLine, NoLines
<1>7. ASSUME NEW i \in Ids, CloseLine(i) PROVE OneOwnerPerLine'
  <2>1. /\ UNCHANGED <<live, fresh>> /\ open' = open \ {i}
        /\ Doomed' = Doomed \ {i} /\ i \in Doomed
    BY <1>7 DEF CloseLine, roundVars, Doomed, TypeOK
  <2>2. Lines(live)' = Lines(live) /\ Lines(fresh)' = Lines(fresh)
    BY <2>1 DEF Lines
  <2> QED
    BY <2>1, <2>2 DEF OneOwnerPerLine
<1>8. CASE Tick
  <2>1. \A i \in Ids : Elapse(closeIn[i]) = NoTimer <=> closeIn[i] = NoTimer
    BY DEF Elapse, TypeOK
  <2>2. Doomed' = Doomed /\ UNCHANGED <<live, fresh, open>>
    BY <1>8, <2>1 DEF Tick, roundVars, Doomed
  <2> QED
    BY <2>2, OwnerFrame
<1>9. ASSUME UNCHANGED <<live, fresh, open, closeIn>> PROVE OneOwnerPerLine'
  BY <1>9, OwnerFrame DEF Doomed
<1>10. CASE Withdraw \/ Stop \/ UNCHANGED vars
  BY <1>9, <1>10 DEF Withdraw, Stop, vars, roundVars
<1>11. ASSUME NEW d \in Delays, Retire(d) PROVE OneOwnerPerLine'
  BY <1>9, <1>11 DEF Retire, roundVars
<1>12. ASSUME NEW r \in Requests, BeginRequest(r) \/ EndRequest(r) PROVE OneOwnerPerLine'
  BY <1>9, <1>12 DEF BeginRequest, EndRequest, roundVars
<1> QED
  BY <1>1, <1>2, <1>3, <1>4, <1>5, <1>6, <1>7, <1>8, <1>10, <1>11, <1>12
     DEF Next, Round

LEMMA OwnerInvariant == Spec => []OwnerInv
<1>1. Init => OneOwnerPerLine
  BY DEF Init, OneOwnerPerLine, NoLines, Lines, Doomed
<1>2. OwnerInv /\ TypeRound' /\ [Next]_vars => OwnerInv'
  BY OwnerStep DEF OwnerInv
<1>3. Init => OwnerInv
  BY <1>1, InitTypeRound DEF OwnerInv
<1> QED
  BY <1>2, <1>3, TypeRoundInvariant, PTL DEF Spec

\* Every open line is live, of the round under way or doomed, and never two
\* of these: closeFresh, the delayed Close and closeAllLive together close
\* each line once (OneOwnerPerLine of Scheduler).
THEOREM OneOwner == Spec => []OneOwnerPerLine
<1>1. OwnerInv => OneOwnerPerLine
  BY DEF OwnerInv
<1> QED
  BY <1>1, OwnerInvariant, PTL

\* A hot line keeps its object (HotLineKept of Scheduler).
THEOREM HotLinesKept == Spec => HotLineKept
<1>1. TypeRound /\ [Next]_vars =>
        \A k \in Keys : live[k] # None /\ live'[k] # None => live'[k] = live[k]
  <2> SUFFICES ASSUME TypeRound, [Next]_vars,
                      NEW k \in Keys, live[k] # None, live'[k] # None
               PROVE  live'[k] = live[k]
    OBVIOUS
  <2>1. CASE RetireLines
    BY <2>1 DEF RetireLines, Probed, TypeRound, RoundOK
  <2>2. CASE Exit
    BY <2>2 DEF Exit, NoLines
  <2>3. CASE CloseAllLive
    BY <2>3 DEF CloseAllLive, NoLines
  <2>4. CASE BeginRound \/ Select \/ Publish
    BY <2>4 DEF BeginRound, Select, Publish, roundVars
  <2>5. CASE Aside
    BY <2>5, AsideFrame
  <2> QED
    BY <2>1, <2>2, <2>3, <2>4, <2>5 DEF Next, Round, Aside
<1>2. TypeRound /\ [Next]_vars =>
        [\A k \in Keys : live[k] # None /\ live'[k] # None => live'[k] = live[k]]_vars
  BY <1>1
<1> QED
  BY <1>2, TypeRoundInvariant, PTL DEF Spec, HotLineKept

-----------------------------------------------------------------------------
\* What is published: with the lines of the selection while a publication is
\* under way, with the live lines otherwise.
CurrentOK ==
  /\ PublishedIsSelected
  /\ phase = "published" => current = {Probed(k) : k \in selected}

LEMMA CurrentStep == CurrentOK /\ OwnerInv /\ [Next]_vars => CurrentOK'
<1> SUFFICES ASSUME CurrentOK, OwnerInv, [Next]_vars PROVE CurrentOK'
  OBVIOUS
<1> USE IdsAssumption DEF CurrentOK, PublishedIsSelected, OwnerInv, TypeRound
<1>1. CASE BeginRound
  BY <1>1 DEF BeginRound, Lines
<1>2. CASE Select
  <2> PICK S \in SUBSET Keys :
        /\ selected' = S
        /\ \/ Unchanged(S) /\ phase' = "idle"
           \/ phase' = "selected"
    BY <1>2 DEF Select, Selections
  <2>1. phase = "probing" /\ UNCHANGED <<live, current>>
    BY <1>2 DEF Select
  <2>2. Lines(live)' = Lines(live) /\ LiveKeys' = LiveKeys
    BY <2>1 DEF Lines, LiveKeys
  <2> QED
    BY <2>1, <2>2 DEF Unchanged, SignatureOK
<1>3. CASE Publish
  <2>1. UNCHANGED <<live, fresh, selected>>
    BY <1>3 DEF Publish, roundVars
  <2> QED
    BY <1>3, <2>1 DEF Publish, Probed
<1>4. CASE RetireLines
  <2>1. /\ live' = [k \in Keys |-> IF k \in selected THEN Probed(k) ELSE None]
        /\ UNCHANGED <<current, selected>> /\ phase' = "idle"
        /\ phase = "published"
        /\ \A k \in selected : k \in Keys /\ Probed(k) # None
    BY <1>4 DEF RetireLines, RoundOK, TypeOK
  <2>2. LiveKeys' = selected
    BY <2>1 DEF LiveKeys
  <2>3. Lines(live)' = {Probed(k) : k \in selected}
    BY <2>1 DEF Lines
  <2> QED
    BY <2>1, <2>2, <2>3
<1>5. CASE Exit
  BY <1>5 DEF Exit
<1>6. CASE CloseAllLive
  BY <1>6 DEF CloseAllLive, SignatureOK
<1>7. CASE Aside
  BY <1>7, AsideFrame DEF Lines, LiveKeys, Probed
<1> QED
  BY <1>1, <1>2, <1>3, <1>4, <1>5, <1>6, <1>7 DEF Next, Round, Aside

LEMMA CurrentInvariant == Spec => []CurrentOK
<1>1. Init => CurrentOK
  BY DEF Init, CurrentOK, PublishedIsSelected, Lines, LiveKeys, NoLines
<1> QED
  BY <1>1, CurrentStep, OwnerInvariant, PTL DEF Spec

\* The handlers see the lines the last round selected, and only live ones
\* (PublishedIsSelected of Scheduler).
THEOREM Published == Spec => []PublishedIsSelected
<1>1. CurrentOK => PublishedIsSelected
  BY DEF CurrentOK
<1> QED
  BY <1>1, CurrentInvariant, PTL

-----------------------------------------------------------------------------
\* A grace comes from Retire, which follows the withdrawal from the handler.
GraceOK == (grace > 0 => ~ serving) /\ (exitGrace > 0 => ~ serving)

\* A line a request uses is open; it is live, or its close timer runs longer
\* than the request may; so does the timer that closes all live lines; and it
\* is a new object of the round only between publication and retirement.
Guarded(r, i) ==
  /\ i \in open
  /\ closeIn[i] # NoTimer => closeIn[i] > left[r]
  /\ closeAllIn # NoTimer /\ i \in Lines(live) => closeAllIn > left[r]
  /\ i \in Lines(fresh) => phase = "published"

HeldOK == ~ Halted => \A r \in Requests : \A i \in held[r] : Guarded(r, i)

HeldInv == GraceOK /\ HeldOK

LEMMA GraceStep == GraceOK /\ TypeOK /\ [Next]_vars => GraceOK'
<1> SUFFICES ASSUME GraceOK, TypeOK, [Next]_vars PROVE GraceOK'
  OBVIOUS
<1> USE DEF GraceOK, TypeOK, stopVars
<1>1. CASE BeginRound \/ Select \/ Publish \/ RetireLines
  BY <1>1 DEF BeginRound, Select, Publish, RetireLines
<1>2. CASE Exit \/ CloseAllLive
  BY <1>2 DEF Exit, CloseAllLive
<1>3. ASSUME NEW i \in Ids, CloseLine(i) PROVE GraceOK'
  BY <1>3 DEF CloseLine
<1>4. CASE Withdraw \/ Stop \/ Tick
  BY <1>4 DEF Withdraw, Stop, Tick
<1>5. ASSUME NEW d \in Delays, Retire(d) PROVE GraceOK'
  BY <1>5 DEF Retire
<1>6. ASSUME NEW r \in Requests, BeginRequest(r) \/ EndRequest(r) PROVE GraceOK'
  BY <1>6 DEF BeginRequest, EndRequest
<1>7. CASE UNCHANGED vars
  BY <1>7 DEF vars
<1> QED
  BY <1>1, <1>2, <1>3, <1>4, <1>5, <1>6, <1>7 DEF Next, Round

LEMMA HeldFrame ==
  ASSUME HeldOK, UNCHANGED <<exitGrace, held, left, open, closeIn, closeAllIn,
                             live, fresh>>,
         phase' = "published" <=> phase = "published"
  PROVE  HeldOK'
BY DEF HeldOK, Halted, Guarded, Lines

LEMMA HeldStep ==
  HeldInv /\ CurrentOK /\ OwnerInv /\ [Next]_vars => HeldOK'
<1> SUFFICES ASSUME HeldInv, CurrentOK, OwnerInv, [Next]_vars, ~ Halted'
             PROVE  \A r \in Requests : \A i \in held'[r] : Guarded(r, i)'
  BY DEF HeldOK
<1> USE TimeAssumption, IdsAssumption DEF HeldInv, OwnerInv, TypeRound
<1>1. CASE BeginRound
  <2> PICK f \in [Keys -> FreeIds \cup {None}] : fresh' = f /\ open' = open \cup Lines(f)
    BY <1>1 DEF BeginRound, OpenFresh
  <2>1. UNCHANGED <<exitGrace, held, left, closeIn, closeAllIn, live>>
    BY <1>1 DEF BeginRound, stopVars, reqVars
  <2>2. \A r \in Requests : held[r] \cap Lines(f) = {}
    BY DEF Lines, FreeIds, InUse
  <2>3. Lines(live)' = Lines(live) /\ Lines(fresh)' = Lines(f)
    BY <2>1 DEF Lines
  <2> QED
    BY <2>1, <2>2, <2>3 DEF HeldOK, Halted, Guarded
<1>2. CASE Select
  <2> PICK S \in SUBSET Keys :
        /\ open' = open \ Losers(S)
        /\ fresh' = [k \in Keys |-> IF k \in S THEN fresh[k] ELSE None]
    BY <1>2 DEF Select, Selections
  <2>1. UNCHANGED <<exitGrace, held, left, closeIn, closeAllIn, live>> /\ phase = "probing"
    BY <1>2 DEF Select, stopVars, reqVars
  <2>2. Losers(S) \subseteq Lines(fresh) /\ Lines(fresh)' \subseteq Lines(fresh)
    BY DEF Losers, Lines
  <2>3. Lines(live)' = Lines(live)
    BY <2>1 DEF Lines
  <2> QED
    BY <2>1, <2>2, <2>3 DEF HeldOK, Halted, Guarded
<1>3. CASE Publish
  <2>1. /\ UNCHANGED <<exitGrace, held, left, open, closeIn, closeAllIn, live, fresh>>
        /\ phase' = "published"
    BY <1>3 DEF Publish, roundVars, stopVars, reqVars
  <2> QED
    BY <2>1 DEF HeldOK, Halted, Guarded, Lines
<1>4. CASE RetireLines
  <2>1. /\ UNCHANGED <<exitGrace, held, left, open, closeAllIn>>
        /\ fresh' = NoLines
        /\ closeIn' = [i \in Ids |-> IF i \in Dropped THEN CloseDelay ELSE closeIn[i]]
        /\ phase = "published"
    BY <1>4 DEF RetireLines, stopVars, reqVars
  <2>2. Lines(fresh)' = {}
    BY <2>1 DEF Lines, NoLines
  <2>3. closeAllIn = NoTimer
    BY <2>1 DEF SignatureOK
  <2>4. \A r \in Requests : left[r] < CloseDelay
    BY DEF TypeOK, CloseDelay
  <2>5. ASSUME NEW r \in Requests, NEW i \in held[r] PROVE Guarded(r, i)'
    <3>1. i \in Ids /\ Guarded(r, i)
      BY <2>1 DEF TypeOK, HeldOK, Halted
    <3> QED
      BY <2>1, <2>2, <2>3, <2>4, <3>1 DEF Guarded
  <2> QED
    BY <2>1, <2>5
<1>5. CASE Exit
  <2>1. /\ UNCHANGED <<held, left, closeIn, fresh>>
        /\ exitGrace' = grace /\ phase = "idle" /\ exitGrace = NoTimer
    BY <1>5 DEF Exit, reqVars, SignatureOK
  <2>2. grace > ProbeTimeout
    BY <2>1 DEF Halted, TypeOK
  <2>3. closeAllIn' = grace /\ UNCHANGED <<open, live>>
    BY <1>5, <2>2 DEF Exit
  <2>4. \A r \in Requests : left[r] < grace
    BY <2>2 DEF TypeOK
  <2>5. Lines(fresh)' = {} /\ Lines(live)' = Lines(live)
    BY <2>1, <2>3 DEF RoundOK, NoLines, Lines
  <2> QED
    BY <2>1, <2>3, <2>4, <2>5 DEF HeldOK, Halted, Guarded
<1>6. CASE CloseAllLive
  <2>1. /\ UNCHANGED <<exitGrace, held, left, closeIn, fresh, phase>>
        /\ closeAllIn = 0 /\ closeAllIn' = NoTimer
        /\ open' = open \ Lines(live)
    BY <1>6 DEF CloseAllLive, stopVars, reqVars
  <2>2. Lines(fresh)' = Lines(fresh)
    BY <2>1 DEF Lines
  <2>3. ASSUME NEW r \in Requests, NEW i \in held[r] PROVE Guarded(r, i)'
    <3>1. i \in Ids /\ Guarded(r, i) /\ left[r] \in Nat
      BY <2>1 DEF TypeOK, HeldOK, Halted
    <3>2. i \notin Lines(live)
      BY <2>1, <3>1 DEF Guarded
    <3> QED
      BY <2>1, <2>2, <3>1, <3>2 DEF Guarded
  <2> QED
    BY <2>1, <2>3
<1>7. ASSUME NEW i \in Ids, CloseLine(i)
      PROVE  \A r \in Requests : \A j \in held'[r] : Guarded(r, j)'
  <2>1. /\ UNCHANGED <<exitGrace, held, left, fresh, live, closeAllIn, phase>>
        /\ closeIn[i] = 0 /\ closeIn' = [closeIn EXCEPT ![i] = NoTimer]
        /\ open' = open \ {i}
    BY <1>7 DEF CloseLine, stopVars, reqVars, roundVars
  <2>2. Lines(fresh)' = Lines(fresh) /\ Lines(live)' = Lines(live)
    BY <2>1 DEF Lines
  <2>3. ASSUME NEW r \in Requests, NEW j \in held[r] PROVE Guarded(r, j)'
    <3>1. j \in Ids /\ Guarded(r, j) /\ left[r] \in Nat
      BY <2>1 DEF TypeOK, HeldOK, Halted
    <3>2. j # i
      BY <2>1, <3>1 DEF Guarded
    <3>3. closeIn'[j] = closeIn[j] /\ j \in open'
      BY <2>1, <3>1, <3>2 DEF TypeOK, Guarded
    <3> QED
      BY <2>1, <2>2, <3>1, <3>3 DEF Guarded
  <2> QED
    BY <2>1, <2>3
<1>8. CASE Tick
  <2>1. /\ UNCHANGED <<exitGrace, held, fresh, live, open, phase>>
        /\ left' = [r \in Requests |-> Elapse(left[r])]
        /\ closeIn' = [i \in Ids |-> Elapse(closeIn[i])]
        /\ closeAllIn' = Elapse(closeAllIn)
        /\ \A r \in Requests : held[r] # {} => left[r] > 0
    BY <1>8 DEF Tick, stopVars, roundVars
  <2>2. Lines(fresh)' = Lines(fresh) /\ Lines(live)' = Lines(live)
    BY <2>1 DEF Lines
  <2>3. ASSUME NEW r \in Requests, NEW j \in held[r] PROVE Guarded(r, j)'
    <3>1. j \in Ids /\ Guarded(r, j) /\ left[r] > 0
      BY <2>1 DEF TypeOK, HeldOK, Halted
    <3>2. /\ left'[r] = left[r] - 1
          /\ closeIn'[j] = Elapse(closeIn[j])
      BY <2>1, <3>1 DEF Elapse
    <3>3. ASSUME NEW t \in Int, t >= NoTimer, t # NoTimer => t > left[r]
          PROVE  Elapse(t) # NoTimer => Elapse(t) > left[r] - 1
      BY <3>1, <3>3 DEF Elapse, TypeOK
    <3>4. closeIn'[j] # NoTimer => closeIn'[j] > left'[r]
      BY <3>1, <3>2, <3>3 DEF Guarded, TypeOK
    <3>5. closeAllIn' # NoTimer /\ j \in Lines(live) => closeAllIn' > left'[r]
      BY <2>1, <3>1, <3>2, <3>3 DEF Guarded, TypeOK, Elapse
    <3> QED
      BY <2>1, <2>2, <3>1, <3>4, <3>5 DEF Guarded
  <2> QED
    BY <2>1, <2>3
<1>9. ASSUME NEW r \in Requests, BeginRequest(r)
      PROVE  \A q \in Requests : \A j \in held'[q] : Guarded(q, j)'
  <2>1. /\ serving
        /\ held' = [held EXCEPT ![r] = current]
        /\ left' = [left EXCEPT ![r] = ProbeTimeout]
        /\ UNCHANGED <<exitGrace, fresh, live, open, phase, closeIn, closeAllIn>>
    BY <1>9 DEF BeginRequest, stopVars, roundVars
  <2>2. Lines(fresh)' = Lines(fresh) /\ Lines(live)' = Lines(live)
    BY <2>1 DEF Lines
  <2>3. phase # "exited" /\ closeAllIn = NoTimer
    BY <2>1 DEF GraceOK, Halted, SignatureOK, TypeOK
  <2>4. current \subseteq Lines(live) \cup Lines(fresh)
    <3>1. CASE phase = "published"
      BY <3>1 DEF CurrentOK, Probed, Lines, RoundOK, TypeOK
    <3>2. CASE phase # "published"
      BY <2>3, <3>2 DEF CurrentOK, PublishedIsSelected
    <3> QED
      BY <3>1, <3>2
  <2>5. ASSUME NEW j \in current PROVE Guarded(r, j)'
    <3>1. j \in open /\ closeIn[j] = NoTimer
      BY <2>4 DEF OneOwnerPerLine, Doomed, TypeOK
    <3>2. j \in Lines(fresh) => phase = "published"
      BY <2>3 DEF CurrentOK, PublishedIsSelected, OneOwnerPerLine
    <3> QED
      BY <2>1, <2>2, <2>3, <3>1, <3>2 DEF Guarded
  <2>6. ASSUME NEW q \in Requests, q # r, NEW j \in held[q] PROVE Guarded(q, j)'
    <3>1. Guarded(q, j) /\ left'[q] = left[q]
      BY <2>1, <2>6 DEF HeldOK, Halted, TypeOK
    <3> QED
      BY <2>1, <2>2, <3>1 DEF Guarded
  <2> QED
    BY <2>1, <2>5, <2>6 DEF TypeOK
<1>10. ASSUME NEW r \in Requests, EndRequest(r)
       PROVE  \A q \in Requests : \A j \in held'[q] : Guarded(q, j)'
  <2>1. /\ held' = [held EXCEPT ![r] = {}]
        /\ left' = [left EXCEPT ![r] = 0]
        /\ UNCHANGED <<exitGrace, fresh, live, open, phase, closeIn, closeAllIn>>
    BY <1>10 DEF EndRequest, stopVars, roundVars
  <2>2. Lines(fresh)' = Lines(fresh) /\ Lines(live)' = Lines(live)
    BY <2>1 DEF Lines
  <2>3. ASSUME NEW q \in Requests, q # r, NEW j \in held[q] PROVE Guarded(q, j)'
    <3>1. Guarded(q, j) /\ left'[q] = left[q]
      BY <2>1, <2>3 DEF HeldOK, Halted, TypeOK
    <3> QED
      BY <2>1, <2>2, <3>1 DEF Guarded
  <2> QED
    BY <2>1, <2>3 DEF TypeOK
<1>11. ASSUME HeldOK' PROVE \A r \in Requests : \A i \in held'[r] : Guarded(r, i)'
  BY <1>11 DEF HeldOK
<1>12. CASE Withdraw \/ Stop \/ UNCHANGED vars
  <2>1. UNCHANGED <<exitGrace, held, left, open, closeIn, closeAllIn, live, fresh, phase>>
    BY <1>12 DEF Withdraw, Stop, vars, roundVars, stopVars, reqVars
  <2> QED
    BY <1>11, <2>1, HeldFrame
<1>13. ASSUME NEW d \in Delays, Retire(d)
       PROVE  \A r \in Requests : \A i \in held'[r] : Guarded(r, i)'
  BY <1>11, <1>13, HeldFrame DEF Retire, roundVars, reqVars
<1> QED
  BY <1>1, <1>2, <1>3, <1>4, <1>5, <1>6, <1>7, <1>8, <1>9, <1>10, <1>12,
     <1>13 DEF Next, Round

LEMMA HeldInvariant == Spec => []HeldInv
<1>1. Init => HeldInv
  BY DEF Init, HeldInv, GraceOK, HeldOK
<1>2. HeldInv /\ CurrentOK /\ OwnerInv /\ [Next]_vars => HeldInv'
  BY GraceStep, HeldStep DEF HeldInv, OwnerInv, TypeRound
<1> QED
  BY <1>1, <1>2, CurrentInvariant, OwnerInvariant, PTL DEF Spec

\* A line is never closed under a request that uses it, for every timing of
\* rounds, close timers, retirement and requests (NoUseAfterClose).
THEOREM NeverUsedAfterClose == Spec => []NoUseAfterClose
<1>1. HeldInv => NoUseAfterClose
  BY DEF HeldInv, HeldOK, Guarded, NoUseAfterClose, InUse
<1> QED
  BY <1>1, HeldInvariant, PTL

-----------------------------------------------------------------------------
\* The steps of the pool that a step of the scheduler may be.

LEMMA InUseSame == Pool!InUse = InUse
BY DEF Pool!InUse, InUse

LEMMA PoolOpens ==
  ASSUME NEW S \in SUBSET FreeIds, open' = open \cup S,
         held' = held, Halted' = Halted
  PROVE  Pool!Next
<1>1. Pool!OpenLines
  BY InUseSame DEF Pool!OpenLines, FreeIds
<1> QED
  BY <1>1 DEF Pool!Next

LEMMA PoolCloses ==
  ASSUME NEW S \in SUBSET open, open' = open \ S,
         Halted \/ S \cap InUse = {},
         held' = held, Halted' = Halted
  PROVE  Pool!Next
<1>1. Pool!CloseLines
  BY InUseSame DEF Pool!CloseLines
<1> QED
  BY <1>1 DEF Pool!Next

LEMMA PoolStep ==
  OwnerInv /\ CurrentOK /\ HeldInv /\ HeldOK' /\ [Next]_vars
    => [Pool!Next]_(Pool!vars)
<1> SUFFICES ASSUME OwnerInv, CurrentOK, HeldInv, HeldOK', [Next]_vars
             PROVE  [Pool!Next]_(Pool!vars)
  OBVIOUS
<1> USE DEF OwnerInv, TypeRound, HeldInv
<1>0. ASSUME UNCHANGED <<open, held, exitGrace>> PROVE [Pool!Next]_(Pool!vars)
  BY <1>0 DEF Pool!vars, Halted
<1>1. CASE BeginRound
  <2> PICK f \in [Keys -> FreeIds \cup {None}] : open' = open \cup Lines(f)
    BY <1>1 DEF BeginRound, OpenFresh
  <2>1. Lines(f) \subseteq FreeIds
    BY DEF Lines
  <2>2. held' = held /\ Halted' = Halted
    BY <1>1 DEF BeginRound, reqVars, stopVars, Halted
  <2> QED
    BY <2>1, <2>2, PoolOpens
<1>2. CASE Select
  <2> PICK S \in SUBSET Keys : open' = open \ Losers(S)
    BY <1>2 DEF Select, Selections
  <2>1. phase = "probing" /\ held' = held /\ Halted' = Halted
    BY <1>2 DEF Select, reqVars, stopVars, Halted
  <2>2. Losers(S) \subseteq Lines(fresh)
    BY DEF Losers, Lines
  <2>3. Lines(fresh) \subseteq open
    BY DEF OneOwnerPerLine
  <2>4. ~ Halted
    BY <2>1 DEF SignatureOK, Halted
  <2>5. Losers(S) \cap InUse = {}
    BY <2>1, <2>2, <2>4 DEF HeldOK, Guarded, InUse
  <2> QED
    BY <2>1, <2>2, <2>3, <2>5, PoolCloses
<1>3. CASE Publish \/ RetireLines
  BY <1>0, <1>3 DEF Publish, RetireLines, reqVars, stopVars
<1>4. CASE Exit
  <2>1. held' = held
    BY <1>4 DEF Exit, reqVars
  <2>2. CASE Halted'
    <3>1. PICK S \in SUBSET open : open' = open \ S
      <4>1. CASE open' = open
        BY <4>1
      <4>2. CASE open' = open \ Lines(live)
        BY <4>2 DEF OneOwnerPerLine
      <4> QED
        BY <1>4, <4>1, <4>2 DEF Exit
    <3>2. Pool!Halt
      BY <2>1, <2>2, <3>1 DEF Pool!Halt
    <3> QED
      BY <3>2 DEF Pool!Next
  <2>3. CASE ~ Halted'
    <3>1. ~ Halted
      BY <1>4 DEF Exit, SignatureOK, Halted
    <3>2. grace > ProbeTimeout
      BY <1>4, <2>3, TimeAssumption DEF Exit, Halted, TypeOK
    <3>3. open' = open
      BY <1>4, <3>2, TimeAssumption DEF Exit
    <3>4. Halted' = Halted
      BY <2>3, <3>1 DEF Halted
    <3> QED
      BY <2>1, <3>3, <3>4 DEF Pool!vars
  <2> QED
    BY <2>2, <2>3
<1>5. CASE CloseAllLive
  <2>1. open' = open \ Lines(live) /\ held' = held /\ Halted' = Halted /\ closeAllIn = 0
    BY <1>5 DEF CloseAllLive, reqVars, stopVars, Halted
  <2>2. Lines(live) \subseteq open
    BY DEF OneOwnerPerLine
  <2>3. ASSUME ~ Halted, NEW r \in Requests, NEW i \in held[r], i \in Lines(live)
        PROVE  FALSE
    <3>1. Guarded(r, i) /\ left[r] \in Nat
      BY <2>3 DEF HeldOK, TypeOK
    <3> QED
      BY <2>1, <2>3, <3>1 DEF Guarded
  <2> QED
    BY <2>1, <2>2, <2>3, PoolCloses DEF InUse
<1>6. ASSUME NEW i \in Ids, CloseLine(i) PROVE [Pool!Next]_(Pool!vars)
  <2>1. open' = open \ {i} /\ held' = held /\ Halted' = Halted /\ closeIn[i] = 0
    BY <1>6 DEF CloseLine, reqVars, stopVars, Halted
  <2>2. i \in open
    BY <2>1 DEF OneOwnerPerLine, Doomed
  <2>3. ASSUME ~ Halted, NEW r \in Requests, i \in held[r]
        PROVE  FALSE
    <3>1. Guarded(r, i) /\ left[r] \in Nat
      BY <2>3 DEF HeldOK, TypeOK
    <3> QED
      BY <2>1, <3>1 DEF Guarded
  <2>4. Halted \/ {i} \cap InUse = {}
    BY <2>3 DEF InUse
  <2>5. {i} \in SUBSET open
    BY <2>2
  <2> QED
    BY <2>1, <2>4, <2>5, PoolCloses
<1>7. ASSUME NEW r \in Requests, BeginRequest(r) PROVE [Pool!Next]_(Pool!vars)
  <2>1. /\ held[r] = {} /\ current # {}
        /\ held' = [held EXCEPT ![r] = current]
        /\ open' = open /\ Halted' = Halted
    BY <1>7 DEF BeginRequest, stopVars, Halted
  <2>2. current \in SUBSET Ids
    BY DEF TypeOK
  <2>3. Halted \/ current \subseteq open
    BY <2>1 DEF HeldOK, Guarded, TypeOK
  <2>4. Pool!Acquire(r)
    BY <2>1, <2>2, <2>3 DEF Pool!Acquire
  <2> QED
    BY <2>4 DEF Pool!Next
<1>8. ASSUME NEW r \in Requests, EndRequest(r) PROVE [Pool!Next]_(Pool!vars)
  <2>1. Pool!Release(r)
    BY <1>8 DEF EndRequest, stopVars, Halted, Pool!Release
  <2> QED
    BY <2>1 DEF Pool!Next
<1>9. CASE Withdraw \/ Stop \/ Tick \/ UNCHANGED vars
  BY <1>0, <1>9 DEF Withdraw, Stop, Tick, vars, reqVars, stopVars
<1>10. ASSUME NEW d \in Delays, Retire(d) PROVE [Pool!Next]_(Pool!vars)
  BY <1>0, <1>10 DEF Retire, reqVars
<1> QED
  BY <1>1, <1>2, <1>3, <1>4, <1>5, <1>6, <1>7, <1>8, <1>9, <1>10
     DEF Next, Round

\* The scheduler implements LinePool: whatever rounds do, requests see a pool
\* of lines that closes none of the lines they use until it is halted.
THEOREM ImplementsPool == Spec => PoolSpec
<1>1. Init => Pool!Init
  BY DEF Init, Pool!Init, Halted
<1>2. /\ OwnerInv /\ CurrentOK /\ HeldInv /\ HeldInv' /\ [Next]_vars
      => [Pool!Next]_(Pool!vars)
  BY PoolStep DEF HeldInv
<1> QED
  BY <1>1, <1>2, OwnerInvariant, CurrentInvariant, HeldInvariant, PTL
     DEF Spec, PoolSpec, Pool!Spec
=============================================================================
