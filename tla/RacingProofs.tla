---------------------------- MODULE RacingProofs ----------------------------
(***************************************************************************)
(* Theorems about Racing, for any members, weights, calls and times: no    *)
(* call waits for a result nobody sends and no goroutine for room, a call  *)
(* fails only if all it asked have failed, the heaviest success of the     *)
(* window wins, and the breaker holds back what fails and nothing else.    *)
(***************************************************************************)
EXTENDS Racing, FiniteSetTheorems, TLAPS

\* The members whose result is still to be sent.
Pending(x) == {m \in Members : task[x][m] \in {"start", "query", "send"}}

\* Nothing has been done for a call that has not begun; the others have asked
\* the members that have a goroutine.
NewOK ==
  \A x \in Calls :
    /\ call[x] = "new" => /\ task[x] = [m \in Members |-> "none"]
                          /\ resCh[x] = <<>> /\ cands[x] = {}
                          /\ timer[x] = NoTimer
    /\ \A m \in Members : m \in asked[x] <=> task[x][m] # "none"

\* The results in the channel and those to come are at most one for each
\* member asked, and a call waits for exactly these.
CountOK ==
  \A x \in Calls :
    /\ Len(resCh[x]) + Cardinality(Pending(x)) <= Cardinality(asked[x])
    /\ call[x] = "waiting" =>
         /\ remaining[x] > 0
         /\ remaining[x] = Len(resCh[x]) + Cardinality(Pending(x))

CountInv == TypeOK /\ NewOK /\ CountOK

-----------------------------------------------------------------------------
\* The members to wait for are finitely many.
LEMMA PendingIsFinite ==
  ASSUME NEW x \in Calls
  PROVE  IsFiniteSet(Pending(x)) /\ Cardinality(Pending(x)) \in Nat
<1>1. Pending(x) \subseteq Members
  BY DEF Pending
<1>2. QED BY <1>1, MembersAssumption, FS_Subset, FS_CardinalityType

LEMMA SetsOfMembers ==
  ASSUME NEW S \in SUBSET Members
  PROVE  Cardinality(S) \in 0 .. Cardinality(Members)
BY MembersAssumption, FS_Subset, FS_CardinalityType

LEMMA InitCount == Init => CountInv
<1> SUFFICES ASSUME Init PROVE CountInv
  OBVIOUS
<1>1. TypeOK
  <2>1. Cardinality(Members) \in Nat
    BY MembersAssumption, FS_CardinalityType
  <2>2. resCh \in [Calls -> Seq(Results)] /\ cands \in [Calls -> SUBSET Results]
    BY DEF Init, PerCall
  <2>3. lastOk \in [Members -> BOOLEAN] /\ weighted \in BOOLEAN /\ weight \in [Members -> Weights]
    BY DEF Init
  <2>4. QED
    BY <2>1, <2>2, <2>3, TimesAssumption
    DEF Init, TypeOK, PerCall, PerTask, NoTimer, Outcomes
<1>2. NewOK
  BY DEF Init, NewOK, PerCall, PerTask
<1>3. CountOK
  <2>1. ASSUME NEW x \in Calls PROVE Pending(x) = {}
    BY DEF Init, Pending, PerTask
  <2>2. \A x \in Calls : Len(resCh[x]) = 0 /\ asked[x] = {} /\ call[x] = "new"
    BY DEF Init, PerCall
  <2>3. ASSUME NEW x \in Calls
        PROVE  /\ Len(resCh[x]) + Cardinality(Pending(x)) <= Cardinality(asked[x])
               /\ call[x] # "waiting"
    <3>1. Cardinality(Pending(x)) = 0 /\ Cardinality(asked[x]) = 0
      BY <2>1, <2>2, FS_EmptySet
    <3>2. QED BY <2>2, <3>1
  <2>4. QED BY <2>3 DEF CountOK
<1>4. QED BY <1>1, <1>2, <1>3 DEF CountInv
-----------------------------------------------------------------------------
\* Every step keeps the types; that a received result was waited for is what
\* keeps the count of the rest a number.
LEMMA TypeStep == CountInv /\ [Next]_vars => TypeOK'
<1> SUFFICES ASSUME CountInv, [Next]_vars PROVE TypeOK'
  OBVIOUS
<1> USE DEF CountInv
<1>1. CASE Tick
  <2>1. age' \in [Calls -> [Members -> 0 .. Timeout + 1]]
    <3>1. ASSUME NEW x \in Calls, NEW m \in Members
          PROVE  Aged(x, m) \in 0 .. Timeout + 1
      BY TimesAssumption DEF Aged, TypeOK
    <3>2. QED BY <1>1, <3>1 DEF Tick
  <2>2. openFor' \in [Members -> NoTimer .. Cooldown]
    BY <1>1, TimesAssumption DEF Tick, TypeOK, Elapse, NoTimer
  <2>3. timer' \in [Calls -> NoTimer .. Window]
    BY <1>1, TimesAssumption DEF Tick, TypeOK, Elapse, NoTimer
  <2>4. UNCHANGED <<settings, consecutive, lastOk, call, asked, taskVars, resCh,
                    remaining, cands, winner, trials>>
    BY <1>1 DEF Tick
  <2>5. QED BY <2>1, <2>2, <2>3, <2>4 DEF TypeOK, settings, taskVars
<1>2. ASSUME NEW x \in Calls, Begin(x) PROVE TypeOK'
  <2>1. Candidates \in SUBSET Members
    BY DEF Candidates
  <2>2. Awaited \in 0 .. Cardinality(Members)
    BY <2>1, SetsOfMembers DEF Awaited
  <2>3. remaining' \in [Calls -> 0 .. Cardinality(Members)]
    BY <1>2, <2>2 DEF Begin, TypeOK
  <2>4. task' \in [Calls -> [Members -> {"none", "start", "query", "send", "done"}]]
    BY <1>2 DEF Begin, TypeOK
  <2>5. {m \in Candidates : openFor[m] = 0} \in SUBSET Members
    BY <2>1
  <2>6. asked' \in [Calls -> SUBSET Members] /\ trials' \in [Calls -> SUBSET Members]
    BY <1>2, <2>1, <2>5 DEF Begin, TypeOK
  <2>7. call' \in [Calls -> {"new", "waiting", "answered", "failed"}]
    BY <1>2 DEF Begin, TypeOK
  <2>8. UNCHANGED <<settings, breakerVars, age, outcome, resCh, cands, timer, winner>>
    BY <1>2 DEF Begin
  <2>9. QED
    BY <2>3, <2>4, <2>6, <2>7, <2>8 DEF TypeOK, settings, breakerVars
<1>3. ASSUME NEW x \in Calls, NEW m \in Members, CopyRequest(x, m) PROVE TypeOK'
  BY <1>3 DEF CopyRequest, TypeOK, settings, breakerVars, recvVars
<1>4. ASSUME NEW x \in Calls, NEW m \in Members, Exchanged(x, m) PROVE TypeOK'
  <2>1. PICK o \in Outcomes : /\ outcome' = [outcome EXCEPT ![x][m] = o]
                              /\ Report(m, o)
    BY <1>4 DEF Exchanged
  <2>2. /\ consecutive' \in [Members -> Nat]
        /\ openFor' \in [Members -> NoTimer .. Cooldown]
    <3>1. CASE o = "fail"
      <4>1. Failed(m)
        BY <2>1, <3>1 DEF Report
      <4>2. QED BY <4>1, TimesAssumption DEF Failed, TypeOK, NoTimer
    <3>2. CASE o # "fail"
      <4>1. Closed(m)
        BY <2>1, <3>2 DEF Report
      <4>2. QED BY <4>1, TimesAssumption DEF Closed, TypeOK, NoTimer
    <3>3. QED BY <3>1, <3>2
  <2>3. lastOk' \in [Members -> BOOLEAN]
    BY <2>1 DEF Report, TypeOK
  <2>4. outcome' \in [Calls -> [Members -> Outcomes]]
    BY <2>1 DEF TypeOK
  <2>5. task' \in [Calls -> [Members -> {"none", "start", "query", "send", "done"}]]
    BY <1>4 DEF Exchanged, TypeOK
  <2>6. UNCHANGED <<settings, call, asked, age, resCh, recvVars, trials>>
    BY <1>4 DEF Exchanged
  <2>7. QED
    BY <2>2, <2>3, <2>4, <2>5, <2>6 DEF TypeOK, settings, recvVars
<1>5. ASSUME NEW x \in Calls, NEW m \in Members, Send(x, m) PROVE TypeOK'
  <2> DEFINE res == [member |-> m, ok |-> outcome[x][m] = "ok", elapsed |-> age[x][m]]
  <2>1. res \in Results
    BY TimesAssumption DEF TypeOK, Results
  <2>2. resCh' = [resCh EXCEPT ![x] = Append(@, res)]
    BY <1>5 DEF Send
  <2> HIDE DEF res
  <2>3. resCh' \in [Calls -> Seq(Results)]
    BY <2>1, <2>2 DEF TypeOK
  <2>4. task' \in [Calls -> [Members -> {"none", "start", "query", "send", "done"}]]
    BY <1>5 DEF Send, TypeOK
  <2>5. age' \in [Calls -> [Members -> 0 .. Timeout + 1]]
    BY <1>5, TimesAssumption DEF Send, TypeOK
  <2>6. UNCHANGED <<settings, breakerVars, call, asked, outcome, recvVars, trials>>
    BY <1>5 DEF Send
  <2>7. QED
    BY <2>3, <2>4, <2>5, <2>6 DEF TypeOK, settings, breakerVars, recvVars
<1>6. ASSUME NEW x \in Calls, Receive(x)
      PROVE  /\ Head(resCh[x]) \in Results
             /\ resCh' \in [Calls -> Seq(Results)]
             /\ remaining' \in [Calls -> 0 .. Cardinality(Members)]
  <2>1. resCh[x] \in Seq(Results) /\ resCh[x] # <<>>
    BY <1>6 DEF Receive, TypeOK
  <2>2. Head(resCh[x]) \in Results /\ Tail(resCh[x]) \in Seq(Results)
    BY <2>1
  <2>3. resCh' \in [Calls -> Seq(Results)]
    BY <1>6, <2>2 DEF Receive, TypeOK
  <2>4. remaining[x] - 1 \in 0 .. Cardinality(Members)
    <3>1. remaining[x] > 0
      BY <1>6 DEF Receive, CountOK
    <3>2. remaining[x] \in 0 .. Cardinality(Members) /\ Cardinality(Members) \in Nat
      BY MembersAssumption, FS_CardinalityType DEF TypeOK
    <3>3. QED BY <3>1, <3>2
  <2>5. remaining' \in [Calls -> 0 .. Cardinality(Members)]
    BY <1>6, <2>4 DEF Receive, TypeOK
  <2>6. QED BY <2>2, <2>3, <2>5
<1>7. ASSUME NEW x \in Calls, NEW S \in SUBSET Results, PickWeighted(x, S)
      PROVE  /\ call' \in [Calls -> {"new", "waiting", "answered", "failed"}]
             /\ winner' \in [Calls -> Members \cup {Nobody}]
  BY <1>7 DEF PickWeighted, Best, Answer, Fail, Results, TypeOK
<1>8. ASSUME NEW x \in Calls, ReceiveFastest(x) PROVE TypeOK'
  <2>1. Receive(x)
    BY <1>8 DEF ReceiveFastest
  <2>2. /\ call' \in [Calls -> {"new", "waiting", "answered", "failed"}]
        /\ winner' \in [Calls -> Members \cup {Nobody}]
    BY <1>6, <1>8, <2>1 DEF ReceiveFastest, Answer, Fail, Results, TypeOK
  <2>3. UNCHANGED <<settings, breakerVars, asked, age, taskVars, cands, timer, trials>>
    BY <1>8 DEF ReceiveFastest
  <2>4. QED
    BY <1>6, <2>1, <2>2, <2>3 DEF TypeOK, settings, breakerVars, taskVars
<1>9. ASSUME NEW x \in Calls, ReceiveWeighted(x) PROVE TypeOK'
  <2> DEFINE res == Head(resCh[x])
             S   == cands[x] \cup {c \in {res} : c.ok}
  <2>1. Receive(x)
    BY <1>9 DEF ReceiveWeighted
  <2>2. res \in Results /\ cands[x] \in SUBSET Results
    BY <1>6, <2>1 DEF TypeOK
  <2>3. S \in SUBSET Results
    BY <2>2
  <2>4. /\ cands' = [cands EXCEPT ![x] = S]
        /\ timer' = [timer EXCEPT ![x] = WindowAfter(x, res)]
        /\ PickWeighted(x, S) \/ UNCHANGED <<call, winner>>
        /\ UNCHANGED <<settings, breakerVars, asked, age, taskVars, trials>>
    BY <1>9 DEF ReceiveWeighted
  <2> HIDE DEF res, S
  <2>5. cands' \in [Calls -> SUBSET Results]
    BY <2>3, <2>4 DEF TypeOK
  <2>6. timer' \in [Calls -> NoTimer .. Window]
    BY <2>4, TimesAssumption DEF TypeOK, WindowAfter, NoTimer
  <2>7. /\ call' \in [Calls -> {"new", "waiting", "answered", "failed"}]
        /\ winner' \in [Calls -> Members \cup {Nobody}]
    BY <1>7, <2>3, <2>4 DEF TypeOK
  <2>8. QED
    BY <1>6, <2>1, <2>4, <2>5, <2>6, <2>7 DEF TypeOK, settings, breakerVars, taskVars
<1>10. ASSUME NEW x \in Calls, WindowEnds(x) PROVE TypeOK'
  <2>1. cands[x] \in SUBSET Results
    BY DEF TypeOK
  <2>2. UNCHANGED <<settings, breakerVars, asked, age, taskVars, resCh, remaining,
                    cands, timer, trials>>
    BY <1>10 DEF WindowEnds
  <2>3. PickWeighted(x, cands[x])
    BY <1>10 DEF WindowEnds
  <2>4. QED
    BY <1>7, <2>1, <2>2, <2>3 DEF TypeOK, settings, breakerVars, taskVars
<1>11. CASE UNCHANGED vars
  BY <1>11 DEF vars, settings, breakerVars, taskVars, recvVars, TypeOK
<1>12. QED
  BY <1>1, <1>2, <1>3, <1>4, <1>5, <1>8, <1>9, <1>10, <1>11 DEF Next, Step

\* The choice of an answer ends the call.
LEMMA PickEnds ==
  ASSUME TypeOK, NEW x \in Calls, NEW S, PickWeighted(x, S)
  PROVE  /\ call'[x] \in {"answered", "failed"}
         /\ \A y \in Calls \ {x} : call'[y] = call[y]
BY DEF PickWeighted, Answer, Fail, TypeOK

\* What a step changes of the calls, the goroutines and the channels.
LEMMA ReceiveSteps ==
  ASSUME TypeOK, NEW x \in Calls, ReceiveFastest(x) \/ ReceiveWeighted(x)
  PROVE  /\ Receive(x) /\ UNCHANGED <<settings, asked, task, outcome>>
         /\ call'[x] # "new"
         /\ call'[x] = "waiting" => remaining[x] > 1
         /\ \A y \in Calls \ {x} : call'[y] = call[y] /\ cands'[y] = cands[y]
                                   /\ timer'[y] = timer[y]
<1>1. CASE ReceiveFastest(x)
  <2>1. Receive(x) /\ UNCHANGED <<settings, asked, taskVars, cands, timer>>
    BY <1>1 DEF ReceiveFastest
  <2>2. \/ \E res : Answer(x, res)
        \/ Fail(x)
        \/ remaining[x] > 1 /\ UNCHANGED call
    BY <1>1 DEF ReceiveFastest
  <2>3. QED BY <2>1, <2>2 DEF Receive, Answer, Fail, TypeOK, taskVars
<1>2. CASE ReceiveWeighted(x)
  <2>1. Receive(x) /\ UNCHANGED <<settings, asked, taskVars>>
    BY <1>2 DEF ReceiveWeighted
  <2>2. \/ \E S : PickWeighted(x, S)
        \/ remaining[x] > 1 /\ UNCHANGED call
    BY <1>2 DEF ReceiveWeighted
  <2>3. \A y \in Calls \ {x} : cands'[y] = cands[y] /\ timer'[y] = timer[y]
    BY <1>2 DEF ReceiveWeighted, TypeOK
  <2>4. QED BY <2>1, <2>2, <2>3, PickEnds DEF Receive, TypeOK, taskVars
<1>3. QED BY <1>1, <1>2

LEMMA NewStep == CountInv /\ [Next]_vars => NewOK'
<1> SUFFICES ASSUME CountInv, [Next]_vars PROVE NewOK'
  OBVIOUS
<1> USE DEF CountInv
<1>1. CASE Tick
  BY <1>1 DEF Tick, taskVars, NewOK, Elapse, NoTimer, TypeOK
<1>2. ASSUME NEW x \in Calls, Begin(x) PROVE NewOK'
  <2>1. /\ asked' = [asked EXCEPT ![x] = Candidates]
        /\ task' = [task EXCEPT ![x] =
                      [m \in Members |-> IF m \in Candidates THEN "start" ELSE "none"]]
        /\ call'[x] # "new" /\ \A y \in Calls \ {x} : call'[y] = call[y]
        /\ UNCHANGED <<resCh, cands, timer>>
    BY <1>2 DEF Begin, TypeOK
  <2>2. QED BY <2>1 DEF NewOK, TypeOK
<1>3. ASSUME NEW x \in Calls, NEW m \in Members,
             CopyRequest(x, m) \/ Exchanged(x, m) \/ Send(x, m)
      PROVE  NewOK'
  <2>1. task[x][m] # "none" /\ call[x] # "new"
    BY <1>3 DEF CopyRequest, Exchanged, Send, NewOK
  <2>2. PICK v \in {"query", "send", "done"} : task' = [task EXCEPT ![x][m] = v]
    BY <1>3 DEF CopyRequest, Exchanged, Send
  <2>3. UNCHANGED <<call, asked, cands, timer>>
    BY <1>3 DEF CopyRequest, Exchanged, Send, recvVars
  <2>4. \A y \in Calls \ {x} : resCh'[y] = resCh[y]
    BY <1>3 DEF CopyRequest, Exchanged, Send, TypeOK
  <2>5. QED BY <2>1, <2>2, <2>3, <2>4 DEF NewOK, TypeOK
<1>4. ASSUME NEW x \in Calls, ReceiveFastest(x) \/ ReceiveWeighted(x) PROVE NewOK'
  <2>1. \A y \in Calls \ {x} : resCh'[y] = resCh[y]
    BY <1>4, ReceiveSteps DEF Receive, TypeOK
  <2>2. QED BY <1>4, <2>1, ReceiveSteps DEF NewOK
<1>5. ASSUME NEW x \in Calls, WindowEnds(x) PROVE NewOK'
  <2>1. PickWeighted(x, cands[x]) /\ UNCHANGED <<asked, taskVars, resCh, cands, timer>>
    BY <1>5 DEF WindowEnds
  <2>2. QED BY <2>1, PickEnds DEF NewOK, taskVars
<1>6. CASE UNCHANGED vars
  BY <1>6 DEF vars, taskVars, recvVars, NewOK
<1>7. QED
  BY <1>1, <1>2, <1>3, <1>4, <1>5, <1>6 DEF Next, Step

LEMMA CountStep == CountInv /\ [Next]_vars => CountOK'
<1> SUFFICES ASSUME CountInv, [Next]_vars PROVE CountOK'
  OBVIOUS
<1> USE DEF CountInv
<1> DEFINE Counted(y) ==
      /\ Len(resCh[y]) + Cardinality(Pending(y)) <= Cardinality(asked[y])
      /\ call[y] = "waiting" =>
           /\ remaining[y] > 0
           /\ remaining[y] = Len(resCh[y]) + Cardinality(Pending(y))
<1>0. \A y \in Calls : Counted(y)
  BY DEF CountOK
<1>a. ASSUME NEW y \in Calls, resCh'[y] = resCh[y], Pending(y)' = Pending(y),
             asked'[y] = asked[y], remaining'[y] = remaining[y],
             call'[y] = "waiting" => call[y] = "waiting"
      PROVE  Counted(y)'
  BY <1>0, <1>a
<1>1. CASE Tick \/ UNCHANGED vars
  <2>1. UNCHANGED <<call, asked, task, resCh, remaining>>
    BY <1>1 DEF Tick, vars, taskVars, recvVars
  <2>2. \A y \in Calls : Pending(y)' = Pending(y)
    BY <2>1 DEF Pending
  <2>3. QED BY <1>a, <2>1, <2>2 DEF CountOK
<1>2. ASSUME NEW x \in Calls, Begin(x) PROVE CountOK'
  <2>1. /\ asked' = [asked EXCEPT ![x] = Candidates]
        /\ task' = [task EXCEPT ![x] =
                      [m \in Members |-> IF m \in Candidates THEN "start" ELSE "none"]]
        /\ remaining' = [remaining EXCEPT ![x] = Cardinality(Candidates)]
        /\ call' = [call EXCEPT ![x] = IF Candidates = {} THEN "failed" ELSE "waiting"]
        /\ UNCHANGED resCh /\ call[x] = "new"
    BY <1>2 DEF Begin, Awaited
  <2>2. Candidates \in SUBSET Members
    BY DEF Candidates
  <2>3. Pending(x)' = Candidates
    BY <2>1, <2>2 DEF Pending, TypeOK
  <2>4. IsFiniteSet(Candidates) /\ Cardinality(Candidates) \in Nat
    BY <2>2, MembersAssumption, FS_Subset, FS_CardinalityType
  <2>5. Candidates # {} => Cardinality(Candidates) > 0
    BY <2>4, FS_EmptySet
  <2>6. resCh'[x] = <<>> /\ Len(resCh'[x]) = 0
    BY <2>1 DEF NewOK
  <2>7. asked'[x] = Candidates /\ remaining'[x] = Cardinality(Candidates)
        /\ (call'[x] = "waiting" => Candidates # {})
    BY <2>1 DEF TypeOK
  <2>8. Counted(x)'
    BY <2>3, <2>4, <2>5, <2>6, <2>7
  <2>9. ASSUME NEW y \in Calls \ {x} PROVE Counted(y)'
    <3>1. task'[y] = task[y]
      BY <2>1 DEF TypeOK
    <3>2. Pending(y)' = Pending(y)
      BY <3>1 DEF Pending
    <3>3. QED BY <1>a, <2>1, <3>2 DEF TypeOK
  <2>10. QED BY <2>8, <2>9 DEF CountOK
<1>3. ASSUME NEW x \in Calls, NEW m \in Members, CopyRequest(x, m) \/ Exchanged(x, m)
      PROVE  CountOK'
  <2>1. PICK v \in {"query", "send"} : task' = [task EXCEPT ![x][m] = v]
    BY <1>3 DEF CopyRequest, Exchanged
  <2>2. task[x][m] \in {"start", "query"} /\ UNCHANGED <<call, asked, resCh, remaining>>
    BY <1>3 DEF CopyRequest, Exchanged, recvVars
  <2>3. ASSUME NEW y \in Calls PROVE Pending(y)' = Pending(y)
    BY <2>1, <2>2 DEF Pending, TypeOK
  <2>4. QED BY <1>a, <2>2, <2>3 DEF CountOK
<1>4. ASSUME NEW x \in Calls, NEW m \in Members, Send(x, m) PROVE CountOK'
  <2>1. /\ task[x][m] = "send"
        /\ \E res : resCh' = [resCh EXCEPT ![x] = Append(@, res)]
        /\ task' = [task EXCEPT ![x][m] = "done"]
        /\ UNCHANGED <<call, asked, remaining>>
    BY <1>4 DEF Send, recvVars
  <2>2. Pending(x)' = Pending(x) \ {m} /\ m \in Pending(x)
    BY <2>1 DEF Pending, TypeOK
  <2>3. /\ Cardinality(Pending(x)') = Cardinality(Pending(x)) - 1
        /\ Cardinality(Pending(x)) \in Nat
    BY <2>2, PendingIsFinite, FS_RemoveElement
  <2>4. Len(resCh'[x]) = Len(resCh[x]) + 1 /\ Len(resCh[x]) \in Nat
    <3>1. resCh[x] \in Seq(Results) /\ resCh \in [Calls -> Seq(Results)]
      BY DEF TypeOK
    <3>2. PICK res : resCh' = [resCh EXCEPT ![x] = Append(@, res)]
      BY <2>1
    <3>3. resCh'[x] = Append(resCh[x], res)
      BY <3>1, <3>2
    <3>4. QED BY <3>1, <3>3
  <2>5. Counted(x)'
    BY <1>0, <2>1, <2>3, <2>4
  <2>6. ASSUME NEW y \in Calls \ {x} PROVE Counted(y)'
    <3>1. task'[y] = task[y] /\ resCh'[y] = resCh[y]
      BY <2>1 DEF TypeOK
    <3>2. Pending(y)' = Pending(y)
      BY <3>1 DEF Pending
    <3>3. QED BY <1>a, <2>1, <3>1, <3>2
  <2>7. QED BY <2>5, <2>6 DEF CountOK
<1>5. ASSUME NEW x \in Calls, ReceiveFastest(x) \/ ReceiveWeighted(x) PROVE CountOK'
  <2>1. /\ Receive(x) /\ UNCHANGED <<asked, task>>
        /\ call'[x] = "waiting" => remaining[x] > 1
        /\ \A y \in Calls \ {x} : call'[y] = call[y]
    BY <1>5, ReceiveSteps
  <2>2. \A y \in Calls : Pending(y)' = Pending(y)
    BY <2>1 DEF Pending
  <2>3. Len(resCh'[x]) = Len(resCh[x]) - 1 /\ Len(resCh[x]) \in Nat
    <3>1. resCh[x] \in Seq(Results) /\ resCh[x] # <<>> /\ resCh'[x] = Tail(resCh[x])
      BY <2>1 DEF Receive, TypeOK
    <3>2. QED BY <3>1
  <2>4. remaining'[x] = remaining[x] - 1 /\ call[x] = "waiting" /\ remaining[x] \in Int
    BY <2>1 DEF Receive, TypeOK
  <2>5. Cardinality(Pending(x)) \in Nat /\ Cardinality(asked[x]) \in Nat
    BY PendingIsFinite, SetsOfMembers, MembersAssumption, FS_CardinalityType DEF TypeOK
  <2>6. Counted(x)'
    BY <1>0, <2>1, <2>2, <2>3, <2>4, <2>5
  <2>7. ASSUME NEW y \in Calls \ {x} PROVE Counted(y)'
    <3>1. resCh'[y] = resCh[y] /\ remaining'[y] = remaining[y]
      BY <2>1 DEF Receive, TypeOK
    <3>2. QED BY <1>a, <2>1, <2>2, <3>1
  <2>8. QED BY <2>6, <2>7 DEF CountOK
<1>6. ASSUME NEW x \in Calls, WindowEnds(x) PROVE CountOK'
  <2>1. PickWeighted(x, cands[x]) /\ UNCHANGED <<asked, task, resCh, remaining>>
    BY <1>6 DEF WindowEnds, taskVars
  <2>2. \A y \in Calls : Pending(y)' = Pending(y)
    BY <2>1 DEF Pending
  <2>3. \A y \in Calls : call'[y] = "waiting" => call[y] = "waiting"
    BY <2>1, PickEnds
  <2>4. QED BY <1>a, <2>1, <2>2, <2>3 DEF CountOK
<1>7. QED
  BY <1>1, <1>2, <1>3, <1>4, <1>5, <1>6 DEF Next, Step

LEMMA CountInvariant == Spec => []CountInv
<1>1. CountInv /\ [Next]_vars => CountInv'
  BY TypeStep, NewStep, CountStep DEF CountInv
<1>2. QED BY InitCount, <1>1, PTL DEF Spec

\* The types of Racing, for any members, calls and times.
THEOREM TypeCorrect == Spec => []TypeOK
<1>1. CountInv => TypeOK
  BY DEF CountInv
<1>2. QED BY CountInvariant, <1>1, PTL

\* Every result a call waits for is in the channel or will be sent, and every
\* goroutine finds room for its own (racing.go:79, 91), however many members
\* are raced and however late they are.
THEOREM NobodyWaits == Spec => []NobodyWaitsInVain
<1>1. CountInv => NobodyWaitsInVain
  <2> SUFFICES ASSUME CountInv, NEW x \in Calls
               PROVE  /\ call[x] = "waiting" =>
                           /\ remaining[x] > 0
                           /\ remaining[x] = Len(resCh[x]) + Cardinality(Pending(x))
                      /\ \A m \in Members : task[x][m] = "send" => Len(resCh[x]) < Capacity(x)
    BY DEF NobodyWaitsInVain, Pending
  <2>1. CountOK /\ TypeOK
    BY DEF CountInv
  <2>2. ASSUME NEW m \in Members, task[x][m] = "send" PROVE Len(resCh[x]) < Capacity(x)
    <3>1. m \in Pending(x)
      BY <2>2 DEF Pending
    <3>2. Cardinality(Pending(x)) \in Nat /\ Cardinality(Pending(x)) # 0
      BY <3>1, PendingIsFinite, FS_EmptySet
    <3>3. Len(resCh[x]) \in Nat /\ Cardinality(asked[x]) \in Nat
      <4>1. resCh[x] \in Seq(Results) /\ asked[x] \in SUBSET Members
        BY <2>1 DEF TypeOK
      <4>2. QED BY <4>1, SetsOfMembers, MembersAssumption, FS_CardinalityType
    <3>4. Len(resCh[x]) + Cardinality(Pending(x)) <= Cardinality(asked[x])
      BY <2>1 DEF CountOK
    <3>5. QED BY <3>2, <3>3, <3>4 DEF Capacity
  <2>3. QED BY <2>1, <2>2 DEF CountOK
<1>2. QED BY CountInvariant, <1>1, PTL

-----------------------------------------------------------------------------
\* A member with a cooldown has failed since it last answered, and one without
\* has failed less often than the threshold.
BreakerOK ==
  \A m \in Members :
    /\ lastOk[m] => openFor[m] <= 0
    /\ openFor[m] = NoTimer => consecutive[m] < FailThreshold

LEMMA BreakerInit == Init => BreakerOK
BY TimesAssumption DEF Init, BreakerOK, NoTimer

\* Only a report and the clock change the breaker.
LEMMA BreakerSteps ==
  ASSUME [Next]_vars, TypeOK
  PROVE  \/ UNCHANGED breakerVars
         \/ \E m \in Members, o \in Outcomes : Report(m, o)
         \/ /\ openFor' = [m \in Members |-> Elapse(openFor[m])]
            /\ UNCHANGED <<consecutive, lastOk>>
<1>1. ASSUME NEW x \in Calls, Begin(x) PROVE UNCHANGED breakerVars
  BY <1>1 DEF Begin
<1>2. ASSUME NEW x \in Calls, NEW m \in Members,
             CopyRequest(x, m) \/ Exchanged(x, m) \/ Send(x, m)
      PROVE  UNCHANGED breakerVars \/ \E o \in Outcomes : Report(m, o)
  BY <1>2 DEF CopyRequest, Exchanged, Send
<1>3. ASSUME NEW x \in Calls, ReceiveFastest(x) \/ ReceiveWeighted(x) \/ WindowEnds(x)
      PROVE  UNCHANGED breakerVars
  BY <1>3 DEF ReceiveFastest, ReceiveWeighted, WindowEnds
<1>4. CASE Tick
  BY <1>4 DEF Tick
<1>5. CASE UNCHANGED vars
  BY <1>5 DEF vars
<1>6. QED BY <1>1, <1>2, <1>3, <1>4, <1>5 DEF Next, Step

LEMMA BreakerStep ==
  TypeOK /\ BreakerOK /\ [Next]_vars => BreakerOK'
<1> SUFFICES ASSUME TypeOK, BreakerOK, [Next]_vars PROVE BreakerOK'
  OBVIOUS
<1>1. CASE UNCHANGED breakerVars
  BY <1>1 DEF BreakerOK, breakerVars
<1>2. ASSUME NEW m \in Members, NEW o \in Outcomes, Report(m, o) PROVE BreakerOK'
  <2>1. CASE o = "fail"
    <3>1. Failed(m) /\ lastOk' = [lastOk EXCEPT ![m] = FALSE]
      BY <1>2, <2>1 DEF Report
    <3>2. lastOk'[m] = FALSE /\ \A n \in Members \ {m} : lastOk'[n] = lastOk[n]
      BY <3>1 DEF TypeOK
    <3>3. /\ openFor'[m] = NoTimer => consecutive'[m] < FailThreshold
          /\ \A n \in Members \ {m} : openFor'[n] = openFor[n] /\ consecutive'[n] = consecutive[n]
      BY <3>1, TimesAssumption DEF Failed, TypeOK, NoTimer
    <3>4. QED BY <3>2, <3>3 DEF BreakerOK
  <2>2. CASE o # "fail"
    <3>1. Closed(m) /\ \A n \in Members \ {m} : lastOk'[n] = lastOk[n]
      BY <1>2, <2>2 DEF Report, TypeOK
    <3>2. /\ openFor'[m] = NoTimer /\ consecutive'[m] = 0
          /\ \A n \in Members \ {m} : openFor'[n] = openFor[n] /\ consecutive'[n] = consecutive[n]
      BY <3>1 DEF Closed, TypeOK
    <3>3. openFor'[m] <= 0 /\ 0 < FailThreshold
      BY <3>2, TimesAssumption DEF NoTimer
    <3>4. QED BY <3>1, <3>2, <3>3 DEF BreakerOK
  <2>3. QED BY <2>1, <2>2
<1>3. ASSUME openFor' = [m \in Members |-> Elapse(openFor[m])],
             UNCHANGED <<consecutive, lastOk>>
      PROVE  BreakerOK'
  <2>1. \A m \in Members : /\ openFor[m] <= 0 => openFor'[m] = openFor[m]
                           /\ openFor'[m] = NoTimer => openFor[m] = NoTimer
    BY <1>3, TimesAssumption DEF TypeOK, Elapse, NoTimer
  <2>2. QED BY <1>3, <2>1 DEF BreakerOK
<1>4. QED BY <1>1, <1>2, <1>3, BreakerSteps

LEMMA BreakerInvariant == Spec => [](TypeOK /\ BreakerOK)
BY TypeCorrect, BreakerInit, BreakerStep, PTL DEF Spec

\* No late failure and no cooldown outlives a member's recovery
\* (breaker.go:57-85).
THEOREM RecoveredAreAsked == Spec => []RecoveredIsAsked
<1>1. TypeOK /\ BreakerOK => RecoveredIsAsked
  <2> SUFFICES ASSUME TypeOK, BreakerOK, NEW m \in Members, lastOk[m]
               PROVE  ~ Open(m)
    BY DEF RecoveredIsAsked
  <2>1. openFor[m] <= 0 /\ openFor[m] \in Int
    BY TimesAssumption DEF BreakerOK, TypeOK, NoTimer
  <2>2. QED BY <2>1 DEF Open
<1>2. QED BY BreakerInvariant, <1>1, PTL

\* A call begins, or ends, by a step of its own.
LEMMA CallSteps ==
  ASSUME TypeOK, [Next]_vars, NEW x \in Calls, call'[x] # call[x]
  PROVE  Begin(x) \/ ReceiveFastest(x) \/ ReceiveWeighted(x) \/ WindowEnds(x)
<1>1. ASSUME NEW y \in Calls, Begin(y), y # x PROVE FALSE
  BY <1>1 DEF Begin, TypeOK
<1>2. ASSUME NEW y \in Calls, ReceiveFastest(y) \/ ReceiveWeighted(y), y # x PROVE FALSE
  BY <1>2, ReceiveSteps
<1>3. ASSUME NEW y \in Calls, WindowEnds(y), y # x PROVE FALSE
  BY <1>3, PickEnds DEF WindowEnds
<1>4. ASSUME NEW y \in Calls, NEW n \in Members,
             CopyRequest(y, n) \/ Exchanged(y, n) \/ Send(y, n)
      PROVE  FALSE
  BY <1>4 DEF CopyRequest, Exchanged, Send
<1>5. ~ Tick /\ ~ UNCHANGED vars
  BY DEF Tick, vars
<1>6. QED BY <1>1, <1>2, <1>3, <1>4, <1>5 DEF Next, Step

\* A call asks a member that has failed FailThreshold times in a row only
\* once its cooldown is over (breaker.go:39-55, 78-84).
THEOREM FailingAreHeldBack == Spec => FailingIsHeldBack
<1> DEFINE Holds == \A x \in Calls : call[x] = "new" /\ call'[x] # "new" =>
                      \A m \in asked'[x] : consecutive[m] < FailThreshold \/ m \in trials'[x]
<1>1. TypeOK /\ BreakerOK /\ [Next]_vars => [Holds]_vars
  <2> SUFFICES ASSUME TypeOK, BreakerOK, [Next]_vars, NEW x \in Calls,
                      call[x] = "new", call'[x] # "new", NEW m \in asked'[x]
               PROVE  consecutive[m] < FailThreshold \/ m \in trials'[x]
    OBVIOUS
  <2>1. Begin(x)
    <3>1. ~ Receive(x) /\ ~ WindowEnds(x)
      BY DEF Receive, WindowEnds
    <3>2. QED BY <3>1, CallSteps DEF ReceiveFastest, ReceiveWeighted
  <2>2. asked'[x] = Candidates /\ trials'[x] = {n \in Candidates : openFor[n] = 0}
    BY <2>1 DEF Begin, TypeOK
  <2>3. m \in Members /\ ~ Open(m) /\ openFor[m] \in Int /\ openFor[m] >= NoTimer
    BY <2>2, TimesAssumption DEF Candidates, TypeOK, NoTimer
  <2>4. openFor[m] = NoTimer \/ openFor[m] = 0
    BY <2>3 DEF Open, NoTimer
  <2>5. QED BY <2>2, <2>3, <2>4 DEF BreakerOK
<1>2. QED
  BY BreakerInvariant, <1>1, PTL DEF Spec, FailingIsHeldBack

-----------------------------------------------------------------------------
\* The success of m is with the call: in the channel or received.
Arrived(x, m) ==
  \/ \E i \in 1 .. Len(resCh[x]) : resCh[x][i].member = m /\ resCh[x][i].ok
  \/ cands[x] # {}

\* A success that was sent to a waiting call is not lost.
ArrivedOK ==
  \A x \in Calls, m \in Members :
    call[x] = "waiting" /\ task[x][m] = "done" /\ outcome[x][m] = "ok" => Arrived(x, m)

\* Only a race with weights collects successes, and only they start a window.
WindowOK ==
  \A x \in Calls : /\ ~ weighted => cands[x] = {}
                   /\ timer[x] # NoTimer => cands[x] # {}

RaceInv == CountInv /\ ArrivedOK /\ WindowOK /\ FailsOnlyIfAllFail /\ HeaviestInWindow

LEMMA InitRace == Init => RaceInv
<1> SUFFICES ASSUME Init PROVE RaceInv
  OBVIOUS
<1>1. \A x \in Calls : call[x] = "new" /\ cands[x] = {} /\ timer[x] = NoTimer
  BY DEF Init, PerCall
<1>2. QED
  BY <1>1, InitCount DEF RaceInv, ArrivedOK, WindowOK, FailsOnlyIfAllFail, HeaviestInWindow

\* A call that waits for one result has it: all the others are done.
LEMMA LastResult ==
  ASSUME CountInv, NEW x \in Calls, Receive(x), ~ remaining[x] > 1
  PROVE  /\ Len(resCh[x]) = 1
         /\ \A m \in asked[x] : m \in Members /\ task[x][m] = "done"
<1>1. TypeOK /\ NewOK /\ CountOK
  BY DEF CountInv
<1>2. resCh[x] \in Seq(Results) /\ resCh[x] # <<>> /\ call[x] = "waiting"
  BY <1>1 DEF Receive, TypeOK
<1>3. Len(resCh[x]) \in Nat /\ Len(resCh[x]) > 0
  BY <1>2
<1>4. remaining[x] \in Int /\ remaining[x] = Len(resCh[x]) + Cardinality(Pending(x))
  BY <1>1, <1>2, MembersAssumption, FS_CardinalityType DEF CountOK, TypeOK
<1>5. Len(resCh[x]) = 1 /\ Cardinality(Pending(x)) = 0
  <2>1. Cardinality(Pending(x)) \in Nat
    BY PendingIsFinite
  <2>2. remaining[x] <= 1
    BY <1>4
  <2>3. \A n, c \in Nat : n > 0 /\ n + c <= 1 => n = 1 /\ c = 0
    OBVIOUS
  <2>4. QED BY <1>3, <1>4, <2>1, <2>2, <2>3
<1>6. Pending(x) = {}
  BY <1>5, PendingIsFinite, FS_EmptySet
<1>7. \A m \in Members : task[x][m] \in {"none", "done"}
  BY <1>1, <1>6 DEF Pending, TypeOK
<1>8. \A m \in asked[x] : m \in Members /\ task[x][m] # "none"
  BY <1>1 DEF NewOK, TypeOK
<1>9. QED BY <1>5, <1>7, <1>8

\* What is done stays done, and what was asked stays asked.
LEMMA DoneStays ==
  ASSUME CountInv, [Next]_vars, NEW x \in Calls, call[x] # "new"
  PROVE  /\ asked'[x] = asked[x] /\ call'[x] # "new"
         /\ \A m \in Members : task[x][m] = "done" =>
              task'[x][m] = "done" /\ outcome'[x][m] = outcome[x][m]
<1> USE DEF CountInv
<1>1. ASSUME NEW y \in Calls, Begin(y)
      PROVE  UNCHANGED outcome /\ asked'[x] = asked[x] /\ task'[x] = task[x] /\ call'[x] # "new"
  BY <1>1 DEF Begin, TypeOK
<1>2. ASSUME NEW y \in Calls, NEW n \in Members,
             CopyRequest(y, n) \/ Exchanged(y, n) \/ Send(y, n)
      PROVE  /\ UNCHANGED <<asked, call>>
             /\ \A m \in Members : task[x][m] = "done" =>
                  task'[x][m] = "done" /\ outcome'[x][m] = outcome[x][m]
  <2>1. UNCHANGED <<asked, call>>
    BY <1>2 DEF CopyRequest, Exchanged, Send, recvVars
  <2>2. CASE Exchanged(y, n)
    <3>1. PICK o : outcome' = [outcome EXCEPT ![y][n] = o]
      BY <2>2 DEF Exchanged
    <3>2. task[y][n] = "query" /\ task' = [task EXCEPT ![y][n] = "send"]
      BY <2>2 DEF Exchanged
    <3>3. QED BY <2>1, <3>1, <3>2 DEF TypeOK
  <2>3. CASE CopyRequest(y, n) \/ Send(y, n)
    <3>1. /\ UNCHANGED outcome /\ task[y][n] # "done"
          /\ \E w : task' = [task EXCEPT ![y][n] = w] /\ (w = "query" \/ w = "done")
      BY <2>3 DEF CopyRequest, Send
    <3>2. CASE task[y][n] = "start" /\ task' = [task EXCEPT ![y][n] = "query"]
      BY <2>1, <3>1, <3>2 DEF TypeOK
    <3>3. CASE task' = [task EXCEPT ![y][n] = "done"]
      BY <2>1, <3>1, <3>3 DEF TypeOK
    <3>4. QED BY <2>3, <3>2, <3>3 DEF CopyRequest, Send
  <2>4. QED BY <1>2, <2>2, <2>3
<1>3. ASSUME NEW y \in Calls, ReceiveFastest(y) \/ ReceiveWeighted(y)
      PROVE  UNCHANGED <<asked, task, outcome>> /\ call'[x] # "new"
  BY <1>3, ReceiveSteps
<1>4. ASSUME NEW y \in Calls, WindowEnds(y)
      PROVE  UNCHANGED <<asked, task, outcome>> /\ call'[x] # "new"
  BY <1>4, PickEnds DEF WindowEnds, taskVars
<1>5. CASE Tick \/ UNCHANGED vars
  BY <1>5 DEF Tick, vars, taskVars
<1>6. QED BY <1>1, <1>2, <1>3, <1>4, <1>5 DEF Next, Step

\* A call that has ended keeps its answer and what it was chosen from.
LEMMA EndedStays ==
  ASSUME CountInv, [Next]_vars, NEW x \in Calls, call[x] \in {"answered", "failed"}
  PROVE  /\ call'[x] = call[x] /\ winner'[x] = winner[x] /\ cands'[x] = cands[x]
         /\ timer'[x] > 0 => timer[x] > 0
<1> USE DEF CountInv
<1>1. ASSUME NEW y \in Calls, Begin(y)
      PROVE  call'[x] = call[x] /\ UNCHANGED <<winner, cands, timer>>
  BY <1>1 DEF Begin, TypeOK
<1>2. ASSUME NEW y \in Calls, NEW n \in Members,
             CopyRequest(y, n) \/ Exchanged(y, n) \/ Send(y, n)
      PROVE  UNCHANGED <<call, winner, cands, timer>>
  BY <1>2 DEF CopyRequest, Exchanged, Send, recvVars
<1>3. ASSUME NEW y \in Calls, ReceiveFastest(y) \/ ReceiveWeighted(y)
      PROVE  /\ call'[x] = call[x] /\ winner'[x] = winner[x]
             /\ cands'[x] = cands[x] /\ timer'[x] = timer[x]
  <2>1. y # x
    BY <1>3, ReceiveSteps DEF Receive
  <2>2. winner' = winner \/ \E w : winner' = [winner EXCEPT ![y] = w]
    <3>1. CASE ReceiveFastest(y)
      BY <3>1 DEF ReceiveFastest, Answer, Fail
    <3>2. CASE ReceiveWeighted(y)
      BY <3>2 DEF ReceiveWeighted, PickWeighted, Answer, Fail
    <3>3. QED BY <1>3, <3>1, <3>2
  <2>3. winner'[x] = winner[x]
    BY <2>1, <2>2 DEF TypeOK
  <2>4. QED BY <1>3, <2>1, <2>3, ReceiveSteps
<1>4. ASSUME NEW y \in Calls, WindowEnds(y)
      PROVE  call'[x] = call[x] /\ winner'[x] = winner[x] /\ UNCHANGED <<cands, timer>>
  BY <1>4 DEF WindowEnds, PickWeighted, Answer, Fail, TypeOK
<1>5. CASE Tick
  BY <1>5, TimesAssumption DEF Tick, Elapse, TypeOK, NoTimer
<1>6. CASE UNCHANGED vars
  BY <1>6 DEF vars, recvVars
<1>7. QED BY <1>1, <1>2, <1>3, <1>4, <1>5, <1>6 DEF Next, Step

LEMMA SettingsStay == [Next]_vars => UNCHANGED settings
BY DEF Next, Step, Begin, CopyRequest, Exchanged, Send, ReceiveFastest, ReceiveWeighted,
       WindowEnds, Tick, vars

\* The weighted choice fails only without a success.
LEMMA PickFails ==
  ASSUME TypeOK, NEW x \in Calls, NEW S, PickWeighted(x, S)
  PROVE  /\ call'[x] = "failed" => S = {}
         /\ call'[x] = "answered" => \E res \in Best(S) : winner'[x] = res.member
BY DEF PickWeighted, Answer, Fail, TypeOK

LEMMA WindowStep == RaceInv /\ [Next]_vars => WindowOK'
<1> SUFFICES ASSUME RaceInv, [Next]_vars PROVE WindowOK'
  OBVIOUS
<1>1. TypeOK /\ WindowOK /\ weighted' = weighted
  BY SettingsStay DEF RaceInv, CountInv, settings
<1>2. CASE UNCHANGED <<cands, timer>>
  BY <1>1, <1>2 DEF WindowOK
<1>3. CASE Tick
  <2>1. \A x \in Calls : timer'[x] # NoTimer => timer[x] # NoTimer
    BY <1>3 DEF Tick, Elapse, NoTimer
  <2>2. QED BY <1>1, <1>3, <2>1 DEF Tick, WindowOK
<1>4. ASSUME NEW x \in Calls, ReceiveWeighted(x) PROVE WindowOK'
  <2> DEFINE res == Head(resCh[x])
             S   == cands[x] \cup {c \in {res} : c.ok}
  <2>1. /\ weighted /\ cands' = [cands EXCEPT ![x] = S]
        /\ timer' = [timer EXCEPT ![x] = WindowAfter(x, res)]
    BY <1>4 DEF ReceiveWeighted
  <2>2. WindowAfter(x, res) # NoTimer => S # {}
    BY <1>1 DEF WindowAfter, WindowOK
  <2> HIDE DEF res, S
  <2>3. QED BY <1>1, <2>1, <2>2 DEF WindowOK, TypeOK
<1>5. ASSUME NEW x \in Calls, NEW m \in Members,
             CopyRequest(x, m) \/ Exchanged(x, m) \/ Send(x, m)
      PROVE  UNCHANGED <<cands, timer>>
  BY <1>5 DEF CopyRequest, Exchanged, Send, recvVars
<1>6. ASSUME NEW x \in Calls, Begin(x) \/ ReceiveFastest(x) \/ WindowEnds(x)
      PROVE  UNCHANGED <<cands, timer>>
  BY <1>6 DEF Begin, ReceiveFastest, WindowEnds
<1>7. CASE UNCHANGED vars
  BY <1>2, <1>7 DEF vars, recvVars
<1>8. QED BY <1>2, <1>3, <1>4, <1>5, <1>6, <1>7 DEF Next, Step

LEMMA FailsStep == RaceInv /\ [Next]_vars => FailsOnlyIfAllFail'
<1> SUFFICES ASSUME RaceInv, [Next]_vars, NEW x \in Calls, call'[x] = "failed"
             PROVE  \A m \in asked'[x] : task'[x][m] = "done" /\ outcome'[x][m] # "ok"
  BY DEF FailsOnlyIfAllFail
<1>1. CountInv /\ TypeOK /\ ArrivedOK /\ WindowOK /\ FailsOnlyIfAllFail
  BY DEF RaceInv, CountInv
<1>2. asked[x] \in SUBSET Members
  BY <1>1 DEF TypeOK
<1>3. CASE call[x] = "failed"
  BY <1>1, <1>2, <1>3, DoneStays DEF FailsOnlyIfAllFail
<1>4. CASE call[x] # "failed"
  <2>1. Begin(x) \/ ReceiveFastest(x) \/ ReceiveWeighted(x) \/ WindowEnds(x)
    BY <1>1, <1>4, CallSteps
  <2>2. CASE Begin(x)
    BY <1>1, <2>2 DEF Begin, TypeOK
  <2>3. ASSUME Receive(x), ~ Head(resCh[x]).ok, cands[x] = {}, ~ remaining[x] > 1
        PROVE  \A m \in asked'[x] : task'[x][m] = "done" /\ outcome'[x][m] # "ok"
    <3>1. call[x] = "waiting"
      BY <2>3 DEF Receive
    <3>2. Len(resCh[x]) = 1 /\ \A m \in asked[x] : m \in Members /\ task[x][m] = "done"
      BY <1>1, <2>3, LastResult
    <3>3. ASSUME NEW m \in Members PROVE ~ Arrived(x, m)
      <4>1. 1 .. Len(resCh[x]) = {1} /\ Head(resCh[x]) = resCh[x][1]
        BY <3>2
      <4>2. QED BY <2>3, <4>1 DEF Arrived
    <3>4. \A m \in asked[x] : outcome[x][m] # "ok"
      BY <1>1, <3>1, <3>2, <3>3 DEF ArrivedOK
    <3>5. QED BY <1>1, <3>1, <3>2, <3>4, DoneStays
  <2>4. CASE ReceiveFastest(x)
    <3>1. Receive(x) /\ ~ weighted
      BY <2>4 DEF ReceiveFastest
    <3>2. ~ Head(resCh[x]).ok /\ ~ remaining[x] > 1
      BY <1>1, <1>4, <2>4 DEF ReceiveFastest, Answer, TypeOK
    <3>3. QED BY <1>1, <2>3, <3>1, <3>2 DEF WindowOK
  <2>5. CASE ReceiveWeighted(x)
    <3> DEFINE S == cands[x] \cup {c \in {Head(resCh[x])} : c.ok}
    <3>1. Receive(x)
      BY <2>5 DEF ReceiveWeighted
    <3>2. remaining[x] = 1 /\ PickWeighted(x, S)
      BY <1>4, <2>5 DEF ReceiveWeighted
    <3>3. S = {}
      BY <1>1, <3>2, PickFails
    <3>4. QED BY <2>3, <3>1, <3>2, <3>3
  <2>6. CASE WindowEnds(x)
    <3>1. timer[x] = 0 /\ PickWeighted(x, cands[x])
      BY <2>6 DEF WindowEnds
    <3>2. cands[x] # {}
      BY <1>1, <3>1 DEF WindowOK, NoTimer
    <3>3. QED BY <1>1, <3>1, <3>2, PickFails
  <2>7. QED BY <2>1, <2>2, <2>4, <2>5, <2>6
<1>5. QED BY <1>3, <1>4

LEMMA ArrivedStep == RaceInv /\ [Next]_vars => ArrivedOK'
<1> SUFFICES ASSUME RaceInv, [Next]_vars, NEW x \in Calls, NEW m \in Members,
                    call'[x] = "waiting", task'[x][m] = "done", outcome'[x][m] = "ok"
             PROVE  Arrived(x, m)'
  BY DEF ArrivedOK
<1>1. TypeOK /\ ArrivedOK /\ WindowOK
  BY DEF RaceInv, CountInv
<1>2. resCh[x] \in Seq(Results) /\ resCh \in [Calls -> Seq(Results)]
  BY <1>1 DEF TypeOK
<1>3. ASSUME call[x] = "waiting", task[x][m] = "done", outcome[x][m] = "ok"
      PROVE  Arrived(x, m)
  BY <1>1, <1>3 DEF ArrivedOK
<1>4. CASE UNCHANGED <<call, task, outcome, resCh, cands>>
  BY <1>3, <1>4 DEF Arrived
<1>5. ASSUME NEW y \in Calls, Begin(y) PROVE Arrived(x, m)'
  <2>1. x # y
    BY <1>1, <1>5 DEF Begin, TypeOK
  <2>2. call[x] = "waiting" /\ task[x][m] = "done" /\ outcome[x][m] = "ok"
    BY <1>1, <1>5, <2>1 DEF Begin, TypeOK
  <2>3. UNCHANGED <<resCh, cands>>
    BY <1>5 DEF Begin
  <2>4. QED BY <1>3, <2>2, <2>3 DEF Arrived
<1>6. ASSUME NEW y \in Calls, NEW n \in Members, CopyRequest(y, n) \/ Exchanged(y, n)
      PROVE  Arrived(x, m)'
  <2>1. ~ (x = y /\ m = n)
    BY <1>1, <1>6 DEF CopyRequest, Exchanged, TypeOK
  <2>2. call[x] = "waiting" /\ task[x][m] = "done" /\ outcome[x][m] = "ok"
    BY <1>1, <1>6, <2>1 DEF CopyRequest, Exchanged, TypeOK
  <2>3. UNCHANGED <<resCh, cands>>
    BY <1>6 DEF CopyRequest, Exchanged, recvVars
  <2>4. QED BY <1>3, <2>2, <2>3 DEF Arrived
<1>7. ASSUME NEW y \in Calls, NEW n \in Members, Send(y, n) PROVE Arrived(x, m)'
  <2> DEFINE res == [member |-> n, ok |-> outcome[y][n] = "ok", elapsed |-> age[y][n]]
  <2>1. /\ resCh' = [resCh EXCEPT ![y] = Append(@, res)]
        /\ task' = [task EXCEPT ![y][n] = "done"]
        /\ UNCHANGED <<call, outcome, cands>>
    BY <1>7 DEF Send, recvVars
  <2>2. CASE x = y /\ m = n
    <3>1. res.member = m /\ res.ok
      BY <2>1, <2>2
    <3> HIDE DEF res
    <3>2. /\ Len(resCh'[x]) \in 1 .. Len(resCh'[x])
          /\ resCh'[x][Len(resCh'[x])] = res
      BY <1>2, <2>1, <2>2
    <3>3. QED BY <3>1, <3>2 DEF Arrived
  <2>3. CASE ~ (x = y /\ m = n)
    <3>1. call[x] = "waiting" /\ task[x][m] = "done" /\ outcome[x][m] = "ok"
      BY <1>1, <2>1, <2>3 DEF TypeOK
    <3> HIDE DEF res
    <3>2. \A i \in 1 .. Len(resCh[x]) :
            i \in 1 .. Len(resCh'[x]) /\ resCh'[x][i] = resCh[x][i]
      BY <1>2, <2>1
    <3>3. QED BY <1>3, <2>1, <3>1, <3>2 DEF Arrived
  <2>4. QED BY <2>2, <2>3
<1>8. ASSUME NEW y \in Calls, ReceiveFastest(y) \/ ReceiveWeighted(y) PROVE Arrived(x, m)'
  <2>1. /\ Receive(y) /\ UNCHANGED <<task, outcome>>
        /\ \A z \in Calls \ {y} : call'[z] = call[z] /\ cands'[z] = cands[z]
    BY <1>1, <1>8, ReceiveSteps
  <2>2. call[x] = "waiting" /\ Arrived(x, m)
    BY <1>3, <2>1 DEF Receive
  <2>3. CASE x # y
    <3>1. resCh'[x] = resCh[x] /\ cands'[x] = cands[x]
      BY <1>2, <2>1, <2>3 DEF Receive
    <3>2. QED BY <2>2, <3>1 DEF Arrived
  <2>4. CASE x = y
    <3>1. resCh[x] # <<>> /\ resCh'[x] = Tail(resCh[x])
      BY <1>2, <2>1, <2>4 DEF Receive
    <3>2. \A i \in 1 .. Len(resCh[x]) : i # 1 =>
            i - 1 \in 1 .. Len(resCh'[x]) /\ resCh'[x][i - 1] = resCh[x][i]
      BY <1>2, <3>1
    <3>3. (resCh[x][1].ok \/ cands[x] # {}) => cands'[x] # {}
      <4>1. Head(resCh[x]) = resCh[x][1]
        BY <1>2, <3>1
      <4>2. CASE ReceiveFastest(y)
        BY <1>1, <2>4, <4>1, <4>2 DEF ReceiveFastest, Answer, WindowOK, TypeOK
      <4>3. CASE ReceiveWeighted(y)
        <5>1. cands'[x] = cands[x] \cup {c \in {Head(resCh[x])} : c.ok}
          BY <1>1, <2>4, <4>3 DEF ReceiveWeighted, TypeOK
        <5>2. QED BY <4>1, <5>1
      <4>4. QED BY <1>8, <4>2, <4>3
    <3>4. QED BY <2>2, <3>2, <3>3 DEF Arrived
  <2>5. QED BY <2>3, <2>4
<1>9. ASSUME NEW y \in Calls, WindowEnds(y) PROVE Arrived(x, m)'
  <2>1. PickWeighted(y, cands[y]) /\ UNCHANGED <<task, outcome, resCh, cands>>
    BY <1>9 DEF WindowEnds, taskVars
  <2>2. call[x] = "waiting"
    BY <1>1, <2>1, PickEnds
  <2>3. QED BY <1>3, <2>1, <2>2 DEF Arrived
<1>10. CASE Tick \/ UNCHANGED vars
  BY <1>4, <1>10 DEF Tick, vars, taskVars, recvVars
<1>11. QED BY <1>5, <1>6, <1>7, <1>8, <1>9, <1>10 DEF Next, Step

LEMMA HeaviestStep == RaceInv /\ [Next]_vars => HeaviestInWindow'
<1> DEFINE Chosen(x) ==
      \E a \in cands[x] :
        /\ a.member = winner[x]
        /\ \A b \in cands[x] :
             /\ weight[b.member] <= weight[a.member]
             /\ weight[b.member] = weight[a.member] => a.elapsed <= b.elapsed
<1> SUFFICES ASSUME RaceInv, [Next]_vars, NEW x \in Calls, weighted', call'[x] = "answered"
             PROVE  /\ Chosen(x)'
                    /\ timer'[x] > 0 => \A m \in asked'[x] : task'[x][m] = "done"
  BY DEF HeaviestInWindow
<1>1. CountInv /\ TypeOK /\ HeaviestInWindow
  BY DEF RaceInv, CountInv
<1>2. weighted /\ weight' = weight /\ asked[x] \in SUBSET Members
  BY <1>1, SettingsStay DEF settings, TypeOK
<1>3. CASE call[x] = "answered"
  <2>1. /\ winner'[x] = winner[x] /\ cands'[x] = cands[x]
        /\ timer'[x] > 0 => timer[x] > 0
    BY <1>1, <1>3, EndedStays
  <2>2. asked'[x] = asked[x] /\ \A m \in Members : task[x][m] = "done" => task'[x][m] = "done"
    BY <1>1, <1>3, DoneStays
  <2>3. Chosen(x) /\ (timer[x] > 0 => \A m \in asked[x] : task[x][m] = "done")
    BY <1>1, <1>2, <1>3 DEF HeaviestInWindow
  <2>4. Chosen(x)'
    BY <1>2, <2>1, <2>3
  <2>5. QED BY <1>2, <2>1, <2>2, <2>3, <2>4
<1>4. CASE call[x] # "answered"
  <2>1. Begin(x) \/ ReceiveFastest(x) \/ ReceiveWeighted(x) \/ WindowEnds(x)
    BY <1>1, <1>4, CallSteps
  <2>2. ~ Begin(x) /\ ~ ReceiveFastest(x)
    BY <1>1, <1>2 DEF Begin, ReceiveFastest, TypeOK
  <2>3. ASSUME NEW S \in SUBSET Results, PickWeighted(x, S), cands'[x] = S
        PROVE  Chosen(x)'
    <3>1. PICK a \in Best(S) : winner'[x] = a.member
      BY <1>1, <2>3, PickFails
    <3>2. a \in S /\ \A b \in S : \/ weight[a.member] > weight[b.member]
                                  \/ weight[a.member] = weight[b.member] /\ a.elapsed <= b.elapsed
      BY <3>1 DEF Best
    <3>3. \A b \in S : weight[b.member] \in Nat
      BY <1>1, WeightAssumption DEF TypeOK, Results
    <3>4. \A b \in S : /\ weight[b.member] <= weight[a.member]
                       /\ weight[b.member] = weight[a.member] => a.elapsed <= b.elapsed
      BY <3>2, <3>3
    <3>5. QED BY <1>2, <2>3, <3>1, <3>2, <3>4
  <2>4. CASE ReceiveWeighted(x)
    <3> DEFINE S == cands[x] \cup {c \in {Head(resCh[x])} : c.ok}
    <3>1. /\ Receive(x) /\ remaining[x] = 1 /\ PickWeighted(x, S)
          /\ cands'[x] = S /\ UNCHANGED <<asked, task>>
      BY <1>1, <1>4, <2>4 DEF ReceiveWeighted, taskVars, TypeOK
    <3>2. S \in SUBSET Results
      <4>1. resCh[x] \in Seq(Results) /\ resCh[x] # <<>> /\ cands[x] \in SUBSET Results
        BY <1>1, <3>1 DEF Receive, TypeOK
      <4>2. Head(resCh[x]) \in Results
        BY <4>1
      <4>3. QED BY <4>1, <4>2
    <3> HIDE DEF S
    <3>3. Chosen(x)'
      BY <2>3, <3>1, <3>2
    <3>4. \A m \in asked[x] : task[x][m] = "done"
      BY <1>1, <3>1, LastResult
    <3>5. QED BY <3>1, <3>3, <3>4
  <2>5. CASE WindowEnds(x)
    <3>1. timer[x] = 0 /\ PickWeighted(x, cands[x]) /\ UNCHANGED <<cands, timer>>
      BY <2>5 DEF WindowEnds
    <3>2. cands[x] \in SUBSET Results
      BY <1>1 DEF TypeOK
    <3>3. Chosen(x)'
      BY <2>3, <3>1, <3>2
    <3>4. QED BY <3>1, <3>3
  <2>6. QED BY <2>1, <2>2, <2>4, <2>5
<1>5. QED BY <1>3, <1>4

LEMMA RaceInvariant == Spec => []RaceInv
<1>1. RaceInv /\ [Next]_vars => RaceInv'
  <2>1. RaceInv /\ [Next]_vars => CountInv'
    BY TypeStep, NewStep, CountStep DEF RaceInv, CountInv
  <2>2. QED BY <2>1, ArrivedStep, WindowStep, FailsStep, HeaviestStep DEF RaceInv
<1>2. QED BY InitRace, <1>1, PTL DEF Spec

\* Neither the window nor another member's failure turns a success into an
\* error: a call fails only if every member it asked has failed
\* (racing.go:77-151).
THEOREM FailsOnlyIfAll == Spec => []FailsOnlyIfAllFail
<1>1. RaceInv => FailsOnlyIfAllFail
  BY DEF RaceInv
<1>2. QED BY RaceInvariant, <1>1, PTL

\* The answer of a race with weights is the heaviest success that was received,
\* the fastest among those, and a success is missed only once the window has
\* ended (racing.go:131-165).
THEOREM HeaviestWins == Spec => []HeaviestInWindow
<1>1. RaceInv => HeaviestInWindow
  BY DEF RaceInv
<1>2. QED BY RaceInvariant, <1>1, PTL
=============================================================================
