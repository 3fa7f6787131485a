---------------------------- MODULE ServingProofs ----------------------------
(***************************************************************************)
(* Serving implements Answers: for any clients, names, subnets and         *)
(* policies every client is given the answer to its own question.  The     *)
(* argument follows a query's number: whatever holds one - an entry of the *)
(* cache, a result of the coalescer, a reply - holds the number of a query *)
(* for the key it is filed under, and a key is the question that its       *)
(* request has been rewritten to.                                          *)
(***************************************************************************)
EXTENDS Serving, CachingProofs

ServingTypeOK ==
  /\ policy \in Policies
  /\ received \in [Calls -> Requests]
  /\ req \in [Calls -> Messages] /\ copy \in [Calls -> Messages]
  /\ path \in [Calls -> {"arrived", "selected", "placeholder"}]
  /\ asked \in Seq(Messages) /\ Len(asked) = queries

\* The request of a call is what its key was made of, from the handler until
\* the call returns; a refresh has a copy of that.
RequestsOK ==
  /\ \A c \in Calls : key[c] = MessageKey(Rewritten(received[c]))
  /\ \A c \in Calls :
       /\ path[c] = "arrived" => req[c] = received[c]
       /\ path[c] # "selected" => pc[Caller(c)] = "idle"
       /\ path[c] = "selected" /\ pc[Caller(c)] # "returned" =>
            req[c] = Rewritten(received[c])
       /\ pc[Refresh(c)] # "idle" =>
            pc[Caller(c)] = "returned" /\ copy[c] = Rewritten(received[c])

\* a is the number of a query for key k.
IsFor(a, k) == a \in 1 .. queries /\ Question(asked[a]) = k

EntriesOK == \A k \in Keys : entry[k] # None => IsFor(entry[k].answer, k)

RepliesOK ==
  \A t \in Threads :
    /\ pc[t] = "query" => IsFor(query[t], KeyOf(t))
    /\ pc[t] = "waiting" => KeyOf(joined[t]) = KeyOf(t)
    /\ result[t] \notin {None, 0} => IsFor(result[t], KeyOf(t))
    /\ reply[t] \notin {None, 0} => IsFor(reply[t], KeyOf(t))
    /\ pc[t] # "returned" => reply[t] = None

ServingInv == ServingTypeOK /\ RequestsOK /\ EntriesOK /\ RepliesOK

-----------------------------------------------------------------------------
\* What the policy's operators make of a message.
LEMMA Optional ==
  ASSUME NEW m \in Messages
  PROVE  /\ m.name \in Names /\ m.opt \in OPTs
         /\ m.opt.do \in BOOLEAN /\ m.opt.subnets \in SUBSET Subnets
<1>1. m.name \in Names /\ m.opt \in OPTs
  BY DEF Messages
<1>2. CASE m.opt = NoOPT
  BY <1>1, <1>2 DEF NoOPT
<1>3. CASE m.opt \in [present : {TRUE}, do : BOOLEAN, subnets : SUBSET Subnets]
  BY <1>1, <1>3
<1>4. QED BY <1>1, <1>2, <1>3 DEF OPTs

LEMMA WithOpt ==
  ASSUME NEW m \in Messages, NEW o \in OPTs
  PROVE  /\ [m EXCEPT !.opt = o] \in Messages
         /\ [m EXCEPT !.opt = o].name = m.name /\ [m EXCEPT !.opt = o].opt = o
BY DEF Messages

LEMMA Edits ==
  ASSUME NEW m \in Messages
  PROVE  /\ StripOPT(m) \in Messages /\ StripOPT(m).name = m.name
         /\ StripOPT(m).opt.do = FALSE /\ StripOPT(m).opt.subnets = {}
         /\ SetECSOverride(m) \in Messages /\ SetECSOverride(m).name = m.name
         /\ SetECSOverride(m).opt.do = m.opt.do
         /\ SetECSOverride(m).opt.subnets = {Fixed}
         /\ SetDO(m) \in Messages /\ SetDO(m).name = m.name
         /\ SetDO(m).opt.do = TRUE /\ SetDO(m).opt.subnets = m.opt.subnets
<1>1. /\ StripOPT(m) \in Messages /\ StripOPT(m).name = m.name
      /\ StripOPT(m).opt.do = FALSE /\ StripOPT(m).opt.subnets = {}
  <2>1. NoOPT \in OPTs
    BY DEF OPTs
  <2>2. StripOPT(m) \in Messages /\ StripOPT(m).name = m.name /\ StripOPT(m).opt = NoOPT
    BY <2>1, WithOpt DEF StripOPT
  <2>3. QED BY <2>2 DEF NoOPT
<1>2. /\ SetECSOverride(m) \in Messages /\ SetECSOverride(m).name = m.name
      /\ SetECSOverride(m).opt.do = m.opt.do
      /\ SetECSOverride(m).opt.subnets = {Fixed}
  <2> DEFINE o == [present |-> TRUE, do |-> m.opt.do, subnets |-> {Fixed}]
  <2>1. o \in OPTs /\ o.do = m.opt.do /\ o.subnets = {Fixed}
    BY Optional, MessagesAssumption DEF OPTs
  <2>2. SetECSOverride(m) = [m EXCEPT !.opt = o]
    BY DEF SetECSOverride
  <2> HIDE DEF o
  <2>3. /\ SetECSOverride(m) \in Messages /\ SetECSOverride(m).name = m.name
        /\ SetECSOverride(m).opt = o
    BY <2>1, <2>2, WithOpt
  <2>4. QED BY <2>1, <2>3
<1>3. /\ SetDO(m) \in Messages /\ SetDO(m).name = m.name
      /\ SetDO(m).opt.do = TRUE /\ SetDO(m).opt.subnets = m.opt.subnets
  <2> DEFINE o == [present |-> TRUE, do |-> TRUE, subnets |-> m.opt.subnets]
  <2>1. o \in OPTs /\ o.do = TRUE /\ o.subnets = m.opt.subnets
    BY Optional DEF OPTs
  <2>2. SetDO(m) = [m EXCEPT !.opt = o]
    BY DEF SetDO
  <2> HIDE DEF o
  <2>3. SetDO(m) \in Messages /\ SetDO(m).name = m.name /\ SetDO(m).opt = o
    BY <2>1, <2>2, WithOpt
  <2>4. QED BY <2>1, <2>3
<1>4. QED BY <1>1, <1>2, <1>3

\* The subnets that may go upstream for a message.
AllowedSubnets(m) ==
  CASE policy.mode = "off"      -> {}
    [] policy.mode = "override" -> {Fixed}
    [] policy.mode = "pass"     -> m.opt.subnets

\* A request is rewritten to a message, and its question is one that may be asked.
LEMMA RewrittenMessage ==
  ASSUME policy \in Policies, NEW m \in Messages
  PROVE  /\ Rewritten(m) \in Messages
         /\ MessageKey(Rewritten(m)) \in MayAsk(m)
<1> DEFINE a == Apply(m)
           r == Rewritten(m)
<1>1. policy.mode \in {"off", "pass", "override"} /\ policy.dnssec \in BOOLEAN
  BY MessagesAssumption DEF Policies
<1>2. /\ a \in Messages /\ a.name = m.name /\ a.opt.subnets = AllowedSubnets(m)
      /\ a.opt.do = FALSE \/ a.opt.do = m.opt.do
  <2>1. CASE policy.mode = "off"
    BY <2>1, Edits DEF Apply, AllowedSubnets
  <2>2. CASE policy.mode = "override"
    BY <2>2, Edits DEF Apply, AllowedSubnets
  <2>3. CASE policy.mode = "pass"
    BY <2>3 DEF Apply, AllowedSubnets
  <2>4. QED BY <1>1, <2>1, <2>2, <2>3
<1> HIDE DEF a
<1>3. /\ r \in Messages /\ r.name = m.name /\ r.opt.subnets = AllowedSubnets(m)
      /\ r.opt.do = FALSE \/ r.opt.do = m.opt.do
      /\ policy.dnssec = TRUE /\ m.opt.do = TRUE => r.opt.do = TRUE
  <2>1. CASE policy.dnssec = TRUE /\ m.opt.do = TRUE
    <3>1. r = SetDO(a)
      BY <2>1 DEF Rewritten, ClientDO, a
    <3>2. /\ r \in Messages /\ r.name = m.name /\ r.opt.subnets = AllowedSubnets(m)
          /\ r.opt.do = TRUE
      <4>1. /\ SetDO(a) \in Messages /\ SetDO(a).name = a.name
            /\ SetDO(a).opt.do = TRUE /\ SetDO(a).opt.subnets = a.opt.subnets
        BY <1>2, Edits
      <4>2. QED BY <1>2, <3>1, <4>1
    <3>3. QED BY <2>1, <3>2
  <2>2. CASE ~ (policy.dnssec = TRUE /\ m.opt.do = TRUE)
    <3>1. r = a
      BY <1>1, <2>2, Optional DEF Rewritten, ClientDO, a
    <3>2. QED BY <1>2, <2>2, <3>1
  <2>3. QED BY <2>1, <2>2
<1> HIDE DEF r
<1> DEFINE q == [name |-> r.name, do |-> r.opt.do, subnets |-> r.opt.subnets]
<1>4. MessageKey(r) = q
  BY DEF MessageKey, Question
<1>5. q \in Questions
  BY <1>3, Optional DEF Questions
<1>6. q.name = m.name /\ q.do = r.opt.do /\ q.subnets = AllowedSubnets(m)
  BY <1>3
<1> HIDE DEF q
<1>7. (q.do => m.opt.do) /\ (policy.dnssec /\ m.opt.do => q.do)
  BY <1>1, <1>3, <1>6, Optional
<1>8. q \in MayAsk(m)
  BY <1>5, <1>6, <1>7 DEF MayAsk, AllowedSubnets
<1>9. QED BY <1>3, <1>4, <1>8 DEF r

-----------------------------------------------------------------------------
\* Every step of Serving is one of CachingUpstream, or leaves it alone.
LEMMA CachingSteps == [ServingNext]_servingVars => [Next]_vars
<1> SUFFICES ASSUME [ServingNext]_servingVars PROVE Next \/ UNCHANGED vars
  OBVIOUS
<1>1. CASE Publish
  BY <1>1 DEF Publish
<1>2. CASE Elsewhere
  BY <1>2 DEF Elsewhere, Next, Do
<1>3. ASSUME NEW c \in Calls, ServeDNS(c) PROVE UNCHANGED vars
  BY <1>3 DEF ServeDNS
<1>4. ASSUME NEW c \in Calls, Exchange(c) PROVE Next
  BY <1>4 DEF Exchange, Next
<1>5. ASSUME NEW c \in Calls, CopyAndGetStale(c) PROVE Next
  BY <1>5 DEF CopyAndGetStale, Next
<1>6. ASSUME NEW c \in Calls, ReuseRequest(c) PROVE Next
  BY <1>6 DEF ReuseRequest, Next
<1>7. ASSUME NEW t \in Threads, EnterAndAsk(t) PROVE Next
  BY <1>7 DEF EnterAndAsk, Next, Do
<1>8. CASE UNCHANGED servingVars
  BY <1>8 DEF servingVars
<1>9. QED BY <1>1, <1>2, <1>3, <1>4, <1>5, <1>6, <1>7, <1>8 DEF ServingNext

LEMMA CachingInvariant == ServingSpec => []IInv
<1>1. ServingInit => Init
  BY DEF ServingInit
<1>2. ServingSpec => Spec
  BY <1>1, CachingSteps, PTL DEF ServingSpec, Spec
<1>3. QED BY <1>2, Invariance, PTL

LEMMA ServingInvInit == ServingInit => ServingInv
<1> SUFFICES ASSUME ServingInit PROVE ServingInv
  OBVIOUS
<1>1. ServingTypeOK
  <2>1. asked = <<>> /\ queries = 0
    BY DEF ServingInit, Init
  <2>2. asked \in Seq(Messages) /\ Len(asked) = queries
    BY <2>1
  <2>3. QED BY <2>2, MessagesAssumption DEF ServingInit, ServingTypeOK
<1>2. RequestsOK
  BY CallThreads DEF ServingInit, Init, RequestsOK
<1>3. EntriesOK /\ RepliesOK
  BY DEF ServingInit, Init, EntriesOK, RepliesOK
<1>4. QED BY <1>1, <1>2, <1>3 DEF ServingInv

\* What a thread would send is a message, and its key that of the thread.
LEMMA MessageFits ==
  ASSUME IInv, ServingTypeOK, RequestsOK, NEW t \in Threads, pc[t] = "do"
  PROVE  Message(t) \in Messages /\ Question(Message(t)) = KeyOf(t)
<1>1. PICK c \in Calls : t \in {Caller(c), Refresh(c)} /\ t[1] = c
  BY DEF Threads, Caller, Refresh
<1>2. Message(t) \in Messages
  BY <1>1 DEF Message, ServingTypeOK
<1>3. Message(t) = Rewritten(received[c])
  <2>1. CASE t = Caller(c)
    <3>1. path[c] = "selected"
      BY <2>1 DEF RequestsOK
    <3>2. req[c] = Rewritten(received[c])
      BY <2>1, <3>1 DEF RequestsOK
    <3>3. QED BY <1>1, <2>1, <3>2 DEF Message
  <2>2. CASE t = Refresh(c)
    <3>1. copy[c] = Rewritten(received[c])
      BY <2>2 DEF RequestsOK
    <3>2. QED BY <1>1, <2>2, <3>1, CallThreads DEF Message
  <2>3. QED BY <1>1, <2>1, <2>2
<1>4. KeyOf(t) = MessageKey(Rewritten(received[c]))
  BY <1>1 DEF KeyOf, RequestsOK
<1>5. QED BY <1>2, <1>3, <1>4 DEF MessageKey

\* Only a thread that leads adds to the queries, one that is for its key.
LEMMA AskedSteps ==
  ASSUME IInv, ServingTypeOK, RequestsOK, [ServingNext]_servingVars
  PROVE  \/ UNCHANGED <<asked, queries>>
         \/ \E t \in Threads :
              /\ EnterAndAsk(t) /\ pc[t] = "do" /\ Leads(t)
              /\ queries' = queries + 1 /\ asked' = Append(asked, Message(t))
<1>1. CASE Publish
  BY <1>1 DEF Publish, vars, queryVars
<1>2. CASE Elsewhere
  BY <1>2 DEF Elsewhere, handlerVars, Tick, Evict, Answered, Delete, Wake, queryVars
<1>3. ASSUME NEW c \in Calls, ServeDNS(c) PROVE UNCHANGED <<asked, queries>>
  BY <1>3 DEF ServeDNS, vars, queryVars
<1>4. ASSUME NEW c \in Calls, Exchange(c) PROVE UNCHANGED <<asked, queries>>
  BY <1>4 DEF Exchange, Get, handlerVars, queryVars
<1>5. ASSUME NEW c \in Calls, CopyAndGetStale(c) PROVE UNCHANGED <<asked, queries>>
  BY <1>5 DEF CopyAndGetStale, GetStale, queryVars
<1>6. ASSUME NEW c \in Calls, ReuseRequest(c) PROVE UNCHANGED <<asked, queries>>
  BY <1>6 DEF ReuseRequest, GoOn, queryVars
<1>7. ASSUME NEW t \in Threads, EnterAndAsk(t)
      PROVE  \/ UNCHANGED <<asked, queries>>
             \/ /\ pc[t] = "do" /\ Leads(t)
                /\ queries' = queries + 1 /\ asked' = Append(asked, Message(t))
  BY <1>7 DEF EnterAndAsk, Enter
<1>8. CASE UNCHANGED servingVars
  BY <1>8 DEF servingVars, vars, handlerVars, queryVars
<1>9. QED BY <1>1, <1>2, <1>3, <1>4, <1>5, <1>6, <1>7, <1>8 DEF ServingNext

\* The number of a query stays that of a query for the same key.
LEMMA NumbersStay ==
  ASSUME IInv, ServingTypeOK, RequestsOK, [ServingNext]_servingVars, NEW a, NEW k, IsFor(a, k)
  PROVE  a \in 1 .. queries' /\ Question(asked'[a]) = k
<1>1. CASE UNCHANGED <<asked, queries>>
  BY <1>1 DEF IsFor
<1>2. ASSUME NEW t \in Threads, pc[t] = "do",
             queries' = queries + 1, asked' = Append(asked, Message(t))
      PROVE  a \in 1 .. queries' /\ Question(asked'[a]) = k
  <2>1. Message(t) \in Messages /\ asked \in Seq(Messages) /\ Len(asked) = queries
    BY <1>2, MessageFits DEF ServingTypeOK
  <2>2. a \in 1 .. queries /\ queries \in Nat
    BY DEF IsFor, IInv, TypeOK
  <2>3. asked'[a] = asked[a] /\ a \in 1 .. queries'
    BY <1>2, <2>1, <2>2
  <2>4. QED BY <2>3 DEF IsFor
<1>3. QED BY <1>1, <1>2, AskedSteps

-----------------------------------------------------------------------------
\* The steps keep the types of the handler's state,
LEMMA ServingTypeStep ==
  ASSUME IInv, ServingTypeOK, RequestsOK, [ServingNext]_servingVars
  PROVE  ServingTypeOK'
<1>1. policy' = policy /\ received' = received
  <2>1. CASE UNCHANGED servingVars
    BY <2>1 DEF servingVars, handlerVars
  <2>2. CASE ServingNext
    BY <2>2 DEF ServingNext, Publish, Elsewhere, ServeDNS, Exchange, CopyAndGetStale,
                ReuseRequest, EnterAndAsk, handlerVars
  <2>3. QED BY <2>1, <2>2
<1>2. asked' \in Seq(Messages) /\ Len(asked') = queries'
  <2>1. ASSUME NEW t \in Threads, pc[t] = "do",
               queries' = queries + 1, asked' = Append(asked, Message(t))
        PROVE  asked' \in Seq(Messages) /\ Len(asked') = queries'
    BY <2>1, MessageFits DEF ServingTypeOK
  <2>2. QED BY <2>1, AskedSteps DEF ServingTypeOK
<1>3. path' \in [Calls -> {"arrived", "selected", "placeholder"}]
  <2>1. CASE UNCHANGED path
    BY <2>1 DEF ServingTypeOK
  <2>2. ASSUME NEW c \in Calls, ServeDNS(c)
        PROVE  path' \in [Calls -> {"arrived", "selected", "placeholder"}]
    BY <2>2 DEF ServeDNS, ServingTypeOK
  <2>3. QED BY <2>1, <2>2 DEF ServingNext, Publish, Elsewhere, Exchange, CopyAndGetStale,
                ReuseRequest, EnterAndAsk, handlerVars, servingVars
<1>4. req' \in [Calls -> Messages]
  <2>1. CASE UNCHANGED req
    BY <2>1 DEF ServingTypeOK
  <2>2. ASSUME NEW c \in Calls, ServeDNS(c) PROVE req' \in [Calls -> Messages]
    <3>1. Rewritten(req[c]) \in Messages
      BY RewrittenMessage DEF ServingTypeOK
    <3>2. QED BY <2>2, <3>1 DEF ServeDNS, ServingTypeOK
  <2>3. ASSUME NEW c \in Calls, ReuseRequest(c) PROVE req' \in [Calls -> Messages]
    BY <2>3, MessagesAssumption DEF ReuseRequest, ServingTypeOK
  <2>4. QED BY <2>1, <2>2, <2>3 DEF ServingNext, Publish, Elsewhere, Exchange,
                CopyAndGetStale, EnterAndAsk, handlerVars, servingVars
<1>5. copy' \in [Calls -> Messages]
  <2>1. CASE UNCHANGED copy
    BY <2>1 DEF ServingTypeOK
  <2>2. ASSUME NEW c \in Calls, CopyAndGetStale(c) PROVE copy' \in [Calls -> Messages]
    BY <2>2 DEF CopyAndGetStale, ServingTypeOK
  <2>3. QED BY <2>1, <2>2 DEF ServingNext, Publish, Elsewhere, Exchange, ServeDNS,
                ReuseRequest, EnterAndAsk, handlerVars, servingVars
<1>6. QED BY <1>1, <1>2, <1>3, <1>4, <1>5 DEF ServingTypeOK

\* and with every request the question that its key was made of.
LEMMA RequestsStep ==
  ASSUME IInv, ServingTypeOK, RequestsOK, [ServingNext]_servingVars
  PROVE  RequestsOK'
<1>1. key' = key /\ policy' = policy /\ received' = received
  <2>1. CASE UNCHANGED servingVars
    BY <2>1 DEF servingVars, handlerVars, vars, callVars
  <2>2. CASE ServingNext
    BY <2>2 DEF ServingNext, Publish, Elsewhere, ServeDNS, Exchange, CopyAndGetStale,
                ReuseRequest, EnterAndAsk, handlerVars, vars, callVars, Tick, Evict,
                Answered, Delete, Wake, Get, GetStale, GoOn, Enter
  <2>3. QED BY <2>1, <2>2
<1>2. \A m : Rewritten(m)' = Rewritten(m)
  BY <1>1 DEF Rewritten, ClientDO, Apply, SetDO, StripOPT, SetECSOverride
\* It is enough that requests stay, nothing becomes or stops being idle, and
\* what has returned stays so.
<1>3. ASSUME UNCHANGED <<req, copy, path>>,
             \A t \in Threads : /\ pc'[t] = "idle" <=> pc[t] = "idle"
                                /\ pc[t] = "returned" => pc'[t] = "returned"
      PROVE  RequestsOK'
  BY <1>1, <1>2, <1>3, CallThreads DEF RequestsOK, MessageKey, Question
<1>4. TypeOK
  BY DEF IInv
<1>5. CASE Publish
  BY <1>3, <1>5 DEF Publish, vars, callVars
<1>6. CASE Elsewhere
  <2>1. ASSUME NEW t \in Threads, Answered(t) \/ Delete(t) \/ Wake(t)
        PROVE  \A u \in Threads : /\ pc'[u] = "idle" <=> pc[u] = "idle"
                                  /\ pc[u] = "returned" => pc'[u] = "returned"
    BY <1>4, <2>1 DEF Answered, Delete, Wake, Goto, TypeOK
  <2>2. CASE Tick \/ \E k \in Keys : Evict(k)
    BY <2>2, <1>3, <1>6 DEF Elsewhere, Tick, Evict, handlerVars, callVars
  <2>3. QED BY <2>1, <2>2, <1>3, <1>6 DEF Elsewhere, handlerVars
<1>7. ASSUME NEW c \in Calls, ServeDNS(c) PROVE RequestsOK'
  <2>1. /\ pc' = pc /\ copy' = copy /\ path[c] = "arrived"
        /\ req[c] = received[c] /\ pc[Caller(c)] = "idle"
        /\ \A d \in Calls \ {c} : path'[d] = path[d] /\ req'[d] = req[d]
        /\ \/ path'[c] = "selected" /\ req'[c] = Rewritten(received[c])
           \/ path'[c] = "placeholder"
    BY <1>7 DEF ServeDNS, RequestsOK, ServingTypeOK, vars, callVars
  <2>2. QED BY <1>1, <1>2, <2>1 DEF RequestsOK, MessageKey, Question
<1>8. ASSUME NEW c \in Calls, Exchange(c) PROVE RequestsOK'
  <2>1. /\ UNCHANGED <<req, copy, path>> /\ path[c] = "selected"
        /\ pc[Caller(c)] = "idle" /\ pc'[Caller(c)] \in {"returned", "stale"}
        /\ \A t \in Threads \ {Caller(c)} : pc'[t] = pc[t]
    BY <1>4, <1>8, CallThreads DEF Exchange, Get, Goto, handlerVars, TypeOK
  <2>2. \A d \in Calls : Refresh(d) \in Threads \ {Caller(c)}
    BY DEF Threads, Caller, Refresh
  <2>3. \A d \in Calls \ {c} : Caller(d) \in Threads \ {Caller(c)}
    BY DEF Threads, Caller
  <2>4. pc'[Refresh(c)] = "idle"
    BY <2>1, <2>2 DEF RequestsOK
  <2>5. QED BY <1>1, <1>2, <2>1, <2>2, <2>3, <2>4 DEF RequestsOK, MessageKey, Question
<1>9. ASSUME NEW c \in Calls, CopyAndGetStale(c) PROVE RequestsOK'
  <2>1. \A d \in Calls \ {c} :
          {Caller(d), Refresh(d)} \subseteq Threads \ {Caller(c), Refresh(c)}
    BY DEF Threads, Caller, Refresh
  <2>2. path[c] = "selected" /\ req[c] = Rewritten(received[c])
        /\ pc[Caller(c)] = "stale" /\ pc[Refresh(c)] = "idle"
    BY <1>9 DEF CopyAndGetStale, GetStale, RequestsOK
  <2>3. UNCHANGED <<req, path>> /\ \A d \in Calls \ {c} : copy'[d] = copy[d]
    BY <1>9 DEF CopyAndGetStale, ServingTypeOK
  <2>4. \A t \in Threads \ {Caller(c), Refresh(c)} : pc'[t] = pc[t]
    BY <1>4, <1>9 DEF CopyAndGetStale, GetStale, Goto, TypeOK
  <2>5. CASE Stale(key[c])
    <3>1. pc'[Caller(c)] = "returned" /\ copy'[c] = req[c]
      BY <1>4, <1>9, <2>5, CallThreads DEF CopyAndGetStale, GetStale, TypeOK, ServingTypeOK
    <3>2. QED BY <1>1, <1>2, <2>1, <2>2, <2>3, <2>4, <3>1
              DEF RequestsOK, MessageKey, Question
  <2>6. CASE ~ Stale(key[c])
    <3>1. pc'[Caller(c)] = "do" /\ pc'[Refresh(c)] = "idle"
      BY <1>4, <1>9, <2>2, <2>6, CallThreads
         DEF CopyAndGetStale, GetStale, Goto, TypeOK, ServingTypeOK
    <3>2. QED BY <1>1, <1>2, <2>1, <2>2, <2>3, <2>4, <3>1
              DEF RequestsOK, MessageKey, Question
  <2>7. QED BY <2>5, <2>6
<1>10. ASSUME NEW c \in Calls, ReuseRequest(c) PROVE RequestsOK'
  <2>1. /\ pc' = pc /\ copy' = copy /\ path' = path /\ pc[Caller(c)] = "returned"
        /\ \A d \in Calls \ {c} : req'[d] = req[d]
    BY <1>10 DEF ReuseRequest, GoOn, callVars, ServingTypeOK
  <2>2. path[c] = "selected"
    BY <2>1 DEF RequestsOK
  <2>3. QED BY <1>1, <1>2, <2>1, <2>2 DEF RequestsOK, MessageKey, Question
<1>11. ASSUME NEW t \in Threads, EnterAndAsk(t) PROVE RequestsOK'
  <2>1. UNCHANGED <<req, copy, path>>
    BY <1>11 DEF EnterAndAsk
  <2>2. \A u \in Threads : /\ pc'[u] = "idle" <=> pc[u] = "idle"
                           /\ pc[u] = "returned" => pc'[u] = "returned"
    BY <1>4, <1>11 DEF EnterAndAsk, Enter, Goto, TypeOK
  <2>3. QED BY <1>3, <2>1, <2>2
<1>12. CASE UNCHANGED servingVars
  BY <1>3, <1>12 DEF servingVars, handlerVars, vars, callVars
<1>13. QED BY <1>5, <1>6, <1>7, <1>8, <1>9, <1>10, <1>11, <1>12 DEF ServingNext

-----------------------------------------------------------------------------
\* An entry's number is always that of a query for the entry's key.
LEMMA EntriesStep ==
  ASSUME IInv, ServingInv, [ServingNext]_servingVars
  PROVE  EntriesOK'
<1> SUFFICES ASSUME NEW k \in Keys, entry'[k] # None
             PROVE  /\ entry'[k].answer \in 1 .. queries'
                    /\ Question(asked'[entry'[k].answer]) = k
  BY DEF EntriesOK, IsFor, Question
<1>1. TypeOK /\ ServingTypeOK /\ RequestsOK /\ EntriesOK /\ RepliesOK
  BY DEF IInv, ServingInv
<1>2. \/ entry[k] # None /\ entry'[k].answer = entry[k].answer
      \/ \E t \in Threads : Answered(t) /\ KeyOf(t) = k /\ entry'[k].answer = query[t]
  BY CachingSteps, EntrySteps
<1>3. \A t \in Threads : Answered(t) => pc[t] = "query"
  BY DEF Answered
<1>4. IsFor(entry'[k].answer, k)
  BY <1>1, <1>2, <1>3 DEF EntriesOK, RepliesOK
<1>5. QED BY <1>1, <1>4, NumbersStay

\* Where the fields of a thread come from in a step of CachingUpstream.
LEMMA ThreadSteps ==
  ASSUME IInv, [Next]_vars, NEW u \in Threads
  PROVE  /\ pc'[u] = "query" => \/ pc[u] = "query" /\ query'[u] = query[u]
                                \/ Enter(u) /\ Leads(u)
         /\ pc'[u] = "waiting" => \/ pc[u] = "waiting" /\ joined'[u] = joined[u]
                                  \/ /\ joined'[u] = flight[KeyOf(u)]
                                     /\ flight[KeyOf(u)] # None
         /\ \/ result'[u] = result[u]
            \/ pc[u] = "query" /\ result'[u] \in {query[u], 0}
         /\ \/ reply'[u] = reply[u]
            \/ entry[KeyOf(u)] # None /\ reply'[u] = entry[KeyOf(u)].answer
            \/ reply'[u] = result[u]
            \/ pc[u] = "waiting" /\ reply'[u] = result[joined[u]]
         /\ pc'[u] # "returned" => pc[u] # "returned" /\ reply'[u] = reply[u]
<1> DEFINE P ==
  /\ pc'[u] = "query" => \/ pc[u] = "query" /\ query'[u] = query[u]
                         \/ Enter(u) /\ Leads(u)
  /\ pc'[u] = "waiting" => \/ pc[u] = "waiting" /\ joined'[u] = joined[u]
                           \/ /\ joined'[u] = flight[KeyOf(u)]
                              /\ flight[KeyOf(u)] # None
  /\ \/ result'[u] = result[u]
     \/ pc[u] = "query" /\ result'[u] \in {query[u], 0}
  /\ \/ reply'[u] = reply[u]
     \/ entry[KeyOf(u)] # None /\ reply'[u] = entry[KeyOf(u)].answer
     \/ reply'[u] = result[u]
     \/ pc[u] = "waiting" /\ reply'[u] = result[joined[u]]
  /\ pc'[u] # "returned" => pc[u] # "returned" /\ reply'[u] = reply[u]
<1>t. TypeOK
  BY DEF IInv
<1>1. ASSUME UNCHANGED <<callVars, queryVars, flightVars, reply>> PROVE P
  BY <1>1 DEF callVars, queryVars, flightVars
<1>2. ASSUME Tick \/ (\E k \in Keys : Evict(k)) \/ (\E c \in Calls : GoOn(c)) \/ UNCHANGED vars
      PROVE  P
  BY <1>1, <1>2 DEF Tick, Evict, GoOn, vars
<1>3. ASSUME NEW c \in Calls, Get(c) PROVE P
  <2>1. UNCHANGED <<queryVars, flightVars>> /\ pc[Caller(c)] = "idle"
        /\ (u # Caller(c) => pc'[u] = pc[u] /\ reply'[u] = reply[u])
    BY <1>t, <1>3, CallThreads DEF Get, Goto, TypeOK
  <2>2. CASE u # Caller(c)
    BY <2>1, <2>2 DEF queryVars, flightVars
  <2>3. CASE u = Caller(c)
    <3>1. KeyOf(u) = key[c]
      BY <2>3, CallThreads DEF KeyOf
    <3>2. \/ pc'[u] = "returned" /\ entry[key[c]] # None /\ reply'[u] = entry[key[c]].answer
          \/ pc'[u] = "stale" /\ reply'[u] = reply[u]
      BY <1>t, <1>3, <2>3, CallThreads DEF Get, Goto, TypeOK, Fresh, Present
    <3>3. QED BY <2>1, <2>3, <3>1, <3>2 DEF queryVars, flightVars
  <2>4. QED BY <2>2, <2>3
<1>4. ASSUME NEW c \in Calls, GetStale(c) PROVE P
  <2>1. /\ UNCHANGED <<queryVars, flightVars>> /\ pc[Caller(c)] = "stale"
        /\ pc[Refresh(c)] = "idle"
        /\ (u \notin {Caller(c), Refresh(c)} => pc'[u] = pc[u] /\ reply'[u] = reply[u])
    BY <1>t, <1>4, CallThreads DEF GetStale, Goto, TypeOK, IInv, RefreshOK
  <2>2. CASE u \notin {Caller(c), Refresh(c)}
    BY <2>1, <2>2 DEF queryVars, flightVars
  <2>3. CASE u = Refresh(c)
    <3>1. pc'[u] \in {"idle", "do"} /\ reply'[u] = reply[u]
      BY <1>t, <1>4, <2>1, <2>3, CallThreads DEF GetStale, Goto, TypeOK
    <3>2. QED BY <2>1, <2>3, <3>1 DEF queryVars, flightVars
  <2>4. CASE u = Caller(c)
    <3>1. KeyOf(u) = key[c]
      BY <2>4, CallThreads DEF KeyOf
    <3>2. \/ pc'[u] = "returned" /\ entry[key[c]] # None /\ reply'[u] = entry[key[c]].answer
          \/ pc'[u] = "do" /\ reply'[u] = reply[u]
      BY <1>t, <1>4, <2>4, CallThreads
         DEF GetStale, Goto, TypeOK, Stale, Expired, Present
    <3>3. QED BY <2>1, <2>4, <3>1, <3>2 DEF queryVars, flightVars
  <2>5. QED BY <2>2, <2>3, <2>4
<1>5. ASSUME NEW t \in Threads, Enter(t) PROVE P
  BY <1>t, <1>5 DEF Enter, Goto, TypeOK, Leads
<1>6. ASSUME NEW t \in Threads, Answered(t) PROVE P
  BY <1>t, <1>6 DEF Answered, Goto, TypeOK, Done, flightVars
<1>7. ASSUME NEW t \in Threads, Delete(t) PROVE P
  BY <1>t, <1>7 DEF Delete, Goto, TypeOK, queryVars
<1>8. ASSUME NEW t \in Threads, Wake(t) PROVE P
  BY <1>t, <1>8 DEF Wake, Goto, TypeOK, queryVars, flightVars
<1> HIDE DEF P
<1>9. ASSUME Next PROVE P
  BY <1>2, <1>3, <1>4, <1>5, <1>6, <1>7, <1>8, <1>9 DEF Next, Do
<1>10. ASSUME UNCHANGED vars PROVE P
  BY <1>2, <1>10
<1>11. QED BY <1>9, <1>10 DEF P

\* Results and replies are numbers of queries for the thread's key.
LEMMA RepliesStep ==
  ASSUME IInv, ServingInv, [ServingNext]_servingVars
  PROVE  RepliesOK'
<1>1. /\ TypeOK /\ TakenOK /\ JoinedOK /\ ServingTypeOK /\ RequestsOK /\ EntriesOK
      /\ RepliesOK /\ [Next]_vars
  BY CachingSteps DEF IInv, ServingInv
<1> SUFFICES ASSUME NEW u \in Threads
    PROVE  /\ pc'[u] = "query" => IsFor(query[u], KeyOf(u))'
           /\ pc'[u] = "waiting" => KeyOf(joined[u])' = KeyOf(u)'
           /\ result'[u] \notin {None, 0} => IsFor(result[u], KeyOf(u))'
           /\ reply'[u] \notin {None, 0} => IsFor(reply[u], KeyOf(u))'
           /\ pc'[u] # "returned" => reply'[u] = None
  BY DEF RepliesOK
<1> DEFINE Fits(a) == a \in 1 .. queries' /\ Question(asked'[a]) = KeyOf(u)
<1>2. key' = key /\ KeyOf(u)' = KeyOf(u) /\ KeyOf(u) \in Keys
  BY <1>1, KeysStay, ThreadKey
<1>3. \A a : IsFor(a, KeyOf(u)) => Fits(a)
  BY <1>1, NumbersStay
<1>4. /\ Fits(query'[u]) => IsFor(query[u], KeyOf(u))'
      /\ Fits(result'[u]) => IsFor(result[u], KeyOf(u))'
      /\ Fits(reply'[u]) => IsFor(reply[u], KeyOf(u))'
  BY <1>2 DEF IsFor, Question
<1> HIDE DEF Fits
<1>5. ASSUME pc'[u] = "query" PROVE Fits(query'[u])
  <2>1. CASE pc[u] = "query" /\ query'[u] = query[u]
    BY <1>1, <1>3, <2>1 DEF RepliesOK
  <2>2. CASE Enter(u) /\ Leads(u)
    <3>1. queries' = queries + 1 /\ query'[u] = queries + 1 /\ queries \in Nat
          /\ pc[u] = "do"
      BY <1>1, <2>2 DEF Enter, TypeOK
    <3>2. PICK t \in Threads : EnterAndAsk(t) /\ asked' = Append(asked, Message(t))
      BY <1>1, <3>1, AskedSteps
    <3>3. t = u
      BY <1>1, <1>5, <3>1, <3>2 DEF EnterAndAsk, Enter, Goto, TypeOK
    <3>4. Message(u) \in Messages /\ Question(Message(u)) = KeyOf(u)
      BY <1>1, <3>1, MessageFits
    <3>5. asked'[queries + 1] = Message(u)
      BY <1>1, <3>1, <3>2, <3>3, <3>4 DEF ServingTypeOK
    <3>6. QED BY <3>1, <3>4, <3>5 DEF Fits
  <2>3. QED BY <1>1, <1>5, <2>1, <2>2, ThreadSteps
<1>6. ASSUME pc'[u] = "waiting" PROVE KeyOf(joined[u])' = KeyOf(u)'
  <2>1. KeyOf(joined'[u]) = KeyOf(u)
    <3>1. CASE pc[u] = "waiting" /\ joined'[u] = joined[u]
      BY <1>1, <3>1 DEF RepliesOK
    <3>2. CASE joined'[u] = flight[KeyOf(u)] /\ flight[KeyOf(u)] # None
      BY <1>1, <1>2, <3>2 DEF TakenOK
    <3>3. QED BY <1>1, <1>6, <3>1, <3>2, ThreadSteps
  <2>2. QED BY <1>2, <2>1 DEF KeyOf
<1>7. ASSUME result'[u] \notin {None, 0} PROVE Fits(result'[u])
  <2>1. IsFor(result'[u], KeyOf(u))
    BY <1>1, <1>7, ThreadSteps DEF RepliesOK
  <2>2. QED BY <1>3, <2>1
<1>8. ASSUME reply'[u] \notin {None, 0} PROVE Fits(reply'[u])
  <2>1. CASE reply'[u] = reply[u] \/ reply'[u] = result[u]
    BY <1>1, <1>3, <1>8, <2>1 DEF RepliesOK
  <2>2. CASE entry[KeyOf(u)] # None /\ reply'[u] = entry[KeyOf(u)].answer
    BY <1>1, <1>2, <1>3, <2>2 DEF EntriesOK
  <2>3. CASE pc[u] = "waiting" /\ reply'[u] = result[joined[u]]
    <3>1. joined[u] \in Threads /\ KeyOf(joined[u]) = KeyOf(u)
      BY <1>1, <2>3 DEF JoinedOK, RepliesOK
    <3>2. IsFor(result[joined[u]], KeyOf(joined[u]))
      BY <1>1, <1>8, <2>3, <3>1 DEF RepliesOK
    <3>3. QED BY <1>3, <2>3, <3>1, <3>2
  <2>4. QED BY <1>1, <2>1, <2>2, <2>3, ThreadSteps
<1>9. pc'[u] # "returned" => reply'[u] = None
  BY <1>1, ThreadSteps DEF RepliesOK
<1>10. QED BY <1>4, <1>5, <1>6, <1>7, <1>8, <1>9

LEMMA ServingInvariant == ServingSpec => [](IInv /\ ServingInv)
<1>1. IInv /\ ServingInv /\ [ServingNext]_servingVars => ServingInv'
  BY ServingTypeStep, RequestsStep, EntriesStep, RepliesStep DEF ServingInv
<1>2. QED BY ServingInvInit, CachingInvariant, <1>1, PTL DEF ServingSpec

-----------------------------------------------------------------------------
\* What Answers sees of a call, by its reply.
LEMMA Seen ==
  ASSUME TypeOK, NEW c \in Calls
  PROVE  /\ path[c] = "placeholder" => StateOf(c) = "diverted"
         /\ path[c] # "placeholder" =>
              /\ reply[Caller(c)] = None => StateOf(c) = "waiting"
              /\ reply[Caller(c)] = 0 => StateOf(c) = "failed"
              /\ Replied(c) => StateOf(c) = "answered"
         /\ ~ Replied(c) => AnswerOf(c) = {}
         /\ Replied(c) => AnswerOf(c) = {Question(asked[reply[Caller(c)]])}
BY NoneAssumption DEF StateOf, AnswerOf, Replied

\* A call that still waits gets a reply: the answer to a question that may be
\* asked for it and that has been asked, or an error.
LEMMA OneReply ==
  ASSUME IInv, IInv', ServingInv, ServingInv', NEW c \in Calls, NEW a,
         reply' = [reply EXCEPT ![Caller(c)] = a],
         path[c] = "selected", reply[Caller(c)] = None,
         UNCHANGED <<policy, received, path, asked>>
  PROVE  Promise!Next \/ UNCHANGED Promise!vars
<1>1. TypeOK /\ TypeOK' /\ RepliesOK' /\ RequestsOK /\ RequestsOK' /\ ServingTypeOK
  BY DEF IInv, ServingInv
<1>2. Caller(c) \in Threads /\ reply'[Caller(c)] = a /\ a \in Nat \cup {None}
  BY <1>1, CallThreads DEF TypeOK
<1>3. \A d \in Calls \ {c} : reply'[Caller(d)] = reply[Caller(d)]
  <2>1. \A d \in Calls \ {c} : Caller(d) \in Threads /\ Caller(d) # Caller(c)
    BY DEF Threads, Caller
  <2>2. QED BY <1>1, <2>1 DEF TypeOK
<1>4. [d \in Calls |-> MayAsk(received[d])]' = [d \in Calls |-> MayAsk(received[d])]
  BY DEF MayAsk
<1>5. QuestionsAsked' = QuestionsAsked
  BY DEF QuestionsAsked, Question
<1>6. \A d \in Calls \ {c} : StateOf(d)' = StateOf(d) /\ AnswerOf(d)' = AnswerOf(d)
  BY <1>3 DEF StateOf, AnswerOf, Replied, Question
<1>7. StateOf(c) = "waiting" /\ AnswerOf(c) = {}
  BY <1>1, Seen DEF Replied
<1>8. CASE a = None
  <2>1. StateOf(c)' = StateOf(c) /\ AnswerOf(c)' = AnswerOf(c)
    BY <1>2, <1>8 DEF StateOf, AnswerOf, Replied, Question
  <2>2. QED BY <1>4, <1>5, <1>6, <2>1 DEF Promise!vars
<1>9. CASE a = 0
  <2>1. StateOf(c)' = "failed" /\ AnswerOf(c)' = AnswerOf(c)
    BY <1>2, <1>9, NoneAssumption DEF StateOf, AnswerOf, Replied, Question
  <2>2. [d \in Calls |-> AnswerOf(d)]' = [d \in Calls |-> AnswerOf(d)]
    BY <1>6, <2>1
  <2>3. [d \in Calls |-> StateOf(d)]'
        = [[d \in Calls |-> StateOf(d)] EXCEPT ![c] = "failed"]
    BY <1>6, <2>1
  <2>4. Promise!Fail(c)
    BY <1>4, <1>5, <1>7, <2>2, <2>3 DEF Promise!Fail
  <2>5. QED BY <2>4 DEF Promise!Next
<1>10. CASE a \notin {None, 0}
  <2> DEFINE q == Question(asked[a])
  <2>1. a \in 1 .. Len(asked) /\ q = key[c]
    <3>1. IsFor(reply[Caller(c)], KeyOf(Caller(c)))'
      BY <1>1, <1>2, <1>10 DEF RepliesOK
    <3>2. a \in 1 .. queries' /\ Question(asked'[a]) = key'[Caller(c)[1]]
      BY <1>2, <3>1 DEF IsFor, KeyOf, Question
    <3>3. Caller(c)[1] = c
      BY CallThreads
    <3>4. queries' = Len(asked)
      BY DEF ServingInv, ServingTypeOK
    <3>5. key'[c] = MessageKey(Rewritten(received[c]))'
      BY <1>1 DEF RequestsOK
    <3>6. key[c] = MessageKey(Rewritten(received[c]))
      BY <1>1 DEF RequestsOK
    <3>7. MessageKey(Rewritten(received[c]))' = MessageKey(Rewritten(received[c]))
      BY DEF MessageKey, Question, Rewritten, ClientDO, Apply, SetDO, StripOPT, SetECSOverride
    <3>8. QED BY <3>2, <3>3, <3>4, <3>5, <3>6, <3>7
  <2>2. q \in MayAsk(received[c])
    <3>1. received[c] \in Messages /\ policy \in Policies
      BY <1>1, MessagesAssumption DEF ServingTypeOK
    <3>2. key[c] = MessageKey(Rewritten(received[c]))
      BY <1>1 DEF RequestsOK
    <3>3. QED BY <2>1, <3>1, <3>2, RewrittenMessage
  <2>3. q \in QuestionsAsked
    BY <2>1 DEF QuestionsAsked
  <2>4. StateOf(c)' = "answered" /\ AnswerOf(c)' = {q}
    BY <1>2, <1>10 DEF StateOf, AnswerOf, Replied, Question
  <2>5. [d \in Calls |-> AnswerOf(d)]'
        = [[d \in Calls |-> AnswerOf(d)] EXCEPT ![c] = {q}]
    BY <1>6, <2>4
  <2>6. [d \in Calls |-> StateOf(d)]'
        = [[d \in Calls |-> StateOf(d)] EXCEPT ![c] = "answered"]
    BY <1>6, <2>4
  <2> HIDE DEF q
  <2>7. Promise!Reply(c)
    BY <1>4, <1>5, <1>7, <2>2, <2>3, <2>5, <2>6 DEF Promise!Reply
  <2>8. QED BY <2>7 DEF Promise!Next
<1>11. QED BY <1>8, <1>9, <1>10

\* A step that changes no reply, no path and no queries is not seen.
LEMMA Unseen ==
  ASSUME \A c \in Calls : reply'[Caller(c)] = reply[Caller(c)],
         UNCHANGED <<policy, received, path, asked>>
  PROVE  UNCHANGED Promise!vars
<1>1. [d \in Calls |-> MayAsk(received[d])]' = [d \in Calls |-> MayAsk(received[d])]
  BY DEF MayAsk
<1>2. QuestionsAsked' = QuestionsAsked
  BY DEF QuestionsAsked, Question
<1>3. \A d \in Calls : StateOf(d)' = StateOf(d) /\ AnswerOf(d)' = AnswerOf(d)
  BY DEF StateOf, AnswerOf, Replied, Question
<1>4. QED BY <1>1, <1>2, <1>3 DEF Promise!vars

\* The query of a thread that leads is one that Answers allows its call.
LEMMA OneQuestion ==
  ASSUME IInv, IInv', ServingInv, ServingInv', NEW t \in Threads, EnterAndAsk(t), Leads(t)
  PROVE  Promise!Next
<1>1. TypeOK /\ ServingTypeOK /\ RequestsOK /\ RepliesOK
  BY DEF IInv, ServingInv
<1>2. /\ pc[t] = "do" /\ asked' = Append(asked, Message(t))
      /\ UNCHANGED <<policy, received, path, reply>>
  BY DEF EnterAndAsk, Enter
<1>3. PICK c \in Calls : t \in {Caller(c), Refresh(c)} /\ t[1] = c
  BY DEF Threads, Caller, Refresh
<1> DEFINE m == Message(t)
           n == Len(asked)
<1>4. m \in Messages /\ Question(m) = key[c]
  BY <1>1, <1>2, <1>3, MessageFits DEF KeyOf
<1>5. path[c] = "selected"
  BY <1>1, <1>2, <1>3 DEF RequestsOK
<1>6. n \in Nat /\ Len(asked') = n + 1 /\ asked'[n + 1] = m
      /\ \A i \in 1 .. n : asked'[i] = asked[i]
  BY <1>1, <1>2, <1>4 DEF ServingTypeOK
<1>7. Question(m) \in MayAsk(received[c])
  <2>1. received[c] \in Messages /\ policy \in Policies
    BY <1>1, MessagesAssumption DEF ServingTypeOK
  <2>2. key[c] = MessageKey(Rewritten(received[c]))
    BY <1>1 DEF RequestsOK
  <2>3. QED BY <1>4, <2>1, <2>2, RewrittenMessage
<1> HIDE DEF m, n
<1>8. QuestionsAsked' = QuestionsAsked \cup {Question(m)}
  <2>1. QuestionsAsked' = {Question(asked'[i]) : i \in 1 .. n + 1}
    BY <1>6 DEF QuestionsAsked, Question
  <2>2. QuestionsAsked = {Question(asked[i]) : i \in 1 .. n}
    BY DEF QuestionsAsked, n
  <2>3. \A x \in QuestionsAsked' : x \in QuestionsAsked \cup {Question(m)}
    BY <1>6, <2>1, <2>2
  <2>4. \A x \in QuestionsAsked \cup {Question(m)} : x \in QuestionsAsked'
    BY <1>6, <2>1, <2>2
  <2>5. QED BY <2>3, <2>4
<1>9. \A d \in Calls : StateOf(d)' = StateOf(d) /\ AnswerOf(d)' = AnswerOf(d)
  <2> SUFFICES ASSUME NEW d \in Calls
               PROVE  StateOf(d)' = StateOf(d) /\ AnswerOf(d)' = AnswerOf(d)
    OBVIOUS
  <2>1. StateOf(d)' = StateOf(d)
    BY <1>2 DEF StateOf, Replied
  <2>2. CASE Replied(d)
    <3>1. reply[Caller(d)] \in 1 .. n
      BY <1>1, <2>2, CallThreads DEF RepliesOK, Replied, IsFor, ServingTypeOK, n
    <3>2. asked'[reply[Caller(d)]] = asked[reply[Caller(d)]]
      BY <1>6, <3>1
    <3>3. QED BY <1>2, <2>1, <3>2 DEF AnswerOf, Replied, Question
  <2>3. CASE ~ Replied(d)
    BY <1>2, <2>1, <2>3 DEF AnswerOf, Replied
  <2>4. QED BY <2>2, <2>3
<1>10. [d \in Calls |-> MayAsk(received[d])]' = [d \in Calls |-> MayAsk(received[d])]
  BY <1>2 DEF MayAsk
<1>11. StateOf(c) # "diverted"
  BY <1>1, <1>5, Seen DEF StateOf, Replied, TypeOK
<1>12. Promise!Ask(c)
  BY <1>7, <1>8, <1>9, <1>10, <1>11 DEF Promise!Ask
<1>13. QED BY <1>12 DEF Promise!Next

\* Every step of Serving is one of Answers, or is not seen.
LEMMA PromiseStep ==
  ASSUME IInv, IInv', ServingInv, ServingInv', [ServingNext]_servingVars
  PROVE  Promise!Next \/ UNCHANGED Promise!vars
<1>1. TypeOK /\ ServingTypeOK /\ RequestsOK /\ RepliesOK
  BY DEF IInv, ServingInv
\* A reply of one thread: of a call, or of its refresh.
<1>2. ASSUME NEW t \in Threads, NEW a, reply' = [reply EXCEPT ![t] = a],
             pc[t] \notin {"idle", "returned"},
             UNCHANGED <<policy, received, path, asked>>
      PROVE  Promise!Next \/ UNCHANGED Promise!vars
  <2>1. PICK c \in Calls : t \in {Caller(c), Refresh(c)}
    BY DEF Threads, Caller, Refresh
  <2>2. CASE t = Caller(c)
    <3>1. path[c] = "selected"
      BY <1>1, <1>2, <2>2 DEF RequestsOK
    <3>2. reply[Caller(c)] = None
      BY <1>1, <1>2, <2>2 DEF RepliesOK
    <3>3. QED BY <1>2, <2>2, <3>1, <3>2, OneReply
  <2>3. CASE t = Refresh(c)
    <3>1. \A d \in Calls : Caller(d) \in Threads /\ Caller(d) # t
      BY <2>3 DEF Threads, Caller, Refresh
    <3>2. \A d \in Calls : reply'[Caller(d)] = reply[Caller(d)]
      BY <1>1, <1>2, <3>1 DEF TypeOK
    <3>3. QED BY <1>2, <3>2, Unseen
  <2>4. QED BY <2>1, <2>2, <2>3
<1>3. ASSUME UNCHANGED <<reply, policy, received, path, asked>>
      PROVE  UNCHANGED Promise!vars
  <2>1. \A d \in Calls : reply'[Caller(d)] = reply[Caller(d)]
    BY <1>3
  <2>2. QED BY <1>3, <2>1, Unseen
<1>4. CASE Publish
  BY <1>3, <1>4 DEF Publish, vars
<1>5. CASE Elsewhere
  <2>1. UNCHANGED <<policy, received, path, asked>>
    BY <1>5 DEF Elsewhere, handlerVars
  <2>2. CASE Tick \/ (\E k \in Keys : Evict(k)) \/ \E t \in Threads : Answered(t)
    BY <2>1, <2>2, <1>3 DEF Tick, Evict, Answered
  <2>3. ASSUME NEW t \in Threads, Delete(t)
        PROVE  Promise!Next \/ UNCHANGED Promise!vars
    BY <2>1, <2>3, <1>2 DEF Delete
  <2>4. ASSUME NEW t \in Threads, Wake(t)
        PROVE  Promise!Next \/ UNCHANGED Promise!vars
    BY <2>1, <2>4, <1>2 DEF Wake
  <2>5. QED BY <1>5, <2>2, <2>3, <2>4 DEF Elsewhere
<1>6. ASSUME NEW c \in Calls, ServeDNS(c)
      PROVE  Promise!Next \/ UNCHANGED Promise!vars
  <2>1. /\ path[c] = "arrived" /\ UNCHANGED <<policy, received, asked, reply>>
        /\ \/ path' = [path EXCEPT ![c] = "selected"]
           \/ path' = [path EXCEPT ![c] = "placeholder"]
    BY <1>6 DEF ServeDNS, vars
  <2>2. pc[Caller(c)] = "idle" /\ reply[Caller(c)] = None
    BY <1>1, <2>1, CallThreads DEF RequestsOK, RepliesOK
  <2>3. StateOf(c) = "waiting" /\ AnswerOf(c) = {}
    BY <1>1, <2>1, <2>2, Seen DEF Replied
  <2>4. [d \in Calls |-> MayAsk(received[d])]' = [d \in Calls |-> MayAsk(received[d])]
    BY <2>1 DEF MayAsk
  <2>5. QuestionsAsked' = QuestionsAsked
    BY <2>1 DEF QuestionsAsked, Question
  <2>6. \A d \in Calls : AnswerOf(d)' = AnswerOf(d)
    BY <2>1 DEF AnswerOf, Replied, Question
  <2>7. \A d \in Calls \ {c} : StateOf(d)' = StateOf(d)
    BY <1>1, <2>1 DEF StateOf, Replied, ServingTypeOK
  <2>8. CASE path' = [path EXCEPT ![c] = "selected"]
    <3>1. StateOf(c)' = "waiting"
      BY <1>1, <2>1, <2>2, <2>8, NoneAssumption DEF StateOf, Replied, ServingTypeOK
    <3>2. QED BY <2>3, <2>4, <2>5, <2>6, <2>7, <3>1 DEF Promise!vars
  <2>9. CASE path' = [path EXCEPT ![c] = "placeholder"]
    <3>1. StateOf(c)' = "diverted"
      BY <1>1, <2>1, <2>2, <2>9, NoneAssumption DEF StateOf, Replied, ServingTypeOK
    <3>2. [d \in Calls |-> StateOf(d)]'
          = [[d \in Calls |-> StateOf(d)] EXCEPT ![c] = "diverted"]
      BY <2>7, <3>1
    <3>3. [d \in Calls |-> AnswerOf(d)]' = [d \in Calls |-> AnswerOf(d)]
      BY <2>6
    <3>4. Promise!Divert(c)
      BY <2>3, <2>4, <2>5, <3>2, <3>3 DEF Promise!Divert
    <3>5. QED BY <3>4 DEF Promise!Next
  <2>10. QED BY <2>1, <2>8, <2>9
<1>7. ASSUME NEW c \in Calls, Exchange(c)
      PROVE  Promise!Next \/ UNCHANGED Promise!vars
  <2>1. /\ path[c] = "selected" /\ pc[Caller(c)] = "idle"
        /\ UNCHANGED <<policy, received, path, asked>>
        /\ reply' = reply \/ \E a : reply' = [reply EXCEPT ![Caller(c)] = a]
    BY <1>7 DEF Exchange, Get, handlerVars
  <2>2. reply[Caller(c)] = None
    BY <1>1, <2>1, CallThreads DEF RepliesOK
  <2>3. QED BY <1>3, <2>1, <2>2, OneReply
<1>8. ASSUME NEW c \in Calls, CopyAndGetStale(c)
      PROVE  Promise!Next \/ UNCHANGED Promise!vars
  <2>1. /\ pc[Caller(c)] = "stale" /\ UNCHANGED <<policy, received, path, asked>>
        /\ reply' = reply \/ \E a : reply' = [reply EXCEPT ![Caller(c)] = a]
    BY <1>8 DEF CopyAndGetStale, GetStale
  <2>2. Caller(c) \in Threads
    BY CallThreads
  <2>3. QED BY <1>2, <1>3, <2>1, <2>2
<1>9. ASSUME NEW c \in Calls, ReuseRequest(c) PROVE UNCHANGED Promise!vars
  BY <1>3, <1>9 DEF ReuseRequest, GoOn
<1>10. ASSUME NEW t \in Threads, EnterAndAsk(t)
       PROVE  Promise!Next \/ UNCHANGED Promise!vars
  <2>1. CASE Leads(t)
    BY <1>10, <2>1, OneQuestion
  <2>2. CASE ~ Leads(t)
    BY <1>3, <1>10, <2>2 DEF EnterAndAsk, Enter
  <2>3. QED BY <2>1, <2>2
<1>11. CASE UNCHANGED servingVars
  BY <1>3, <1>11 DEF servingVars, handlerVars, vars
<1>12. QED BY <1>4, <1>5, <1>6, <1>7, <1>8, <1>9, <1>10, <1>11 DEF ServingNext

\* For any clients, names, subnets and policies: every client gets the answer
\* to its own question, as the policy lets it be asked, from the cache, from
\* another client's query or from its own (handler.go:56-107, cache.go:405-439).
THEOREM Serves == ServingSpec => PromiseSpec
<1>1. ServingInit => Promise!Init
  <2> SUFFICES ASSUME ServingInit PROVE Promise!Init
    OBVIOUS
  <2>1. TypeOK
    BY InitIInv DEF ServingInit, IInv
  <2>2. \A c \in Calls : StateOf(c) = "waiting" /\ AnswerOf(c) = {}
    BY <2>1, CallThreads, Seen, NoneAssumption DEF ServingInit, Init, Replied
  <2>3. QuestionsAsked = {}
    <3>1. Len(asked) = 0
      BY DEF ServingInit
    <3>2. 1 .. Len(asked) = {}
      BY <3>1
    <3>3. QED BY <3>2 DEF QuestionsAsked
  <2>4. [c \in Calls |-> MayAsk(received[c])] \in [Calls -> SUBSET Questions]
    BY DEF MayAsk
  <2>5. QED BY <2>2, <2>3, <2>4 DEF Promise!Init
<1>2. QED
  BY <1>1, PromiseStep, ServingInvariant, PTL DEF ServingSpec, PromiseSpec, Promise!Spec
=============================================================================
