------------------------------- MODULE Serving -------------------------------
(***************************************************************************)
(* A request from the handler to its answer: ServeDNS                      *)
(* (internal/handler/handler.go), the ECS policy (internal/ecs/ecs.go) and *)
(* the cache key (keyOf in internal/cache/cache.go) around the caching     *)
(* upstream of one selection (module CachingUpstream).                     *)
(*                                                                         *)
(* A name stands for the name, type and class of a question.  Of an OPT    *)
(* record the DO bit and the client subnets are kept.  An upstream answers *)
(* the question it is asked, for the subnets and with the signatures that  *)
(* are asked for.  In pass mode a request is left to the library, which is *)
(* taken to send it on as it is.                                           *)
(***************************************************************************)
EXTENDS CachingUpstream, Sequences

CONSTANTS Names, Subnets,
          Fixed,         \* the prefix of override mode
          Modes,         \* the values of ecs.mode
          Requests,      \* the messages clients send
          Leftovers      \* what dnsproxy may leave in a request it is done with

NoOPT == [present |-> FALSE, do |-> FALSE, subnets |-> {}]
OPTs == {NoOPT} \cup [present : {TRUE}, do : BOOLEAN, subnets : SUBSET Subnets]
Messages == [name : Names, opt : OPTs]
Questions == [name : Names, do : BOOLEAN, subnets : SUBSET Subnets]
Policies == [mode : Modes, dnssec : BOOLEAN]

ASSUME MessagesAssumption ==
  /\ Fixed \in Subnets /\ Modes \subseteq {"off", "pass", "override"}
  /\ Requests \cup Leftovers \subseteq Messages
ASSUME KeysAssumption == Questions \subseteq Keys

VARIABLES policy,    \* h.ecs and h.dnssec, which a reload does not change
          selected,  \* s.CurrentConfig(): "not yet", "yes", "no more"
          received,  \* call -> the request as the client sent it
          req,       \* call -> dctx.Req
          copy,      \* call -> the reqCopy of its refresh
          path,      \* call -> "arrived", "selected" or "placeholder"
          asked      \* history: the messages of the queries, in their order

handlerVars == <<policy, selected, received, req, copy, path, asked>>
servingVars == <<vars, handlerVars>>

-----------------------------------------------------------------------------
(* The policy. *)

Question(m) == [name |-> m.name, do |-> m.opt.do, subnets |-> m.opt.subnets]

StripOPT(m) == [m EXCEPT !.opt = NoOPT]

SetECSOverride(m) ==
  [m EXCEPT !.opt = [present |-> TRUE, do |-> @.do, subnets |-> {Fixed}]]

Apply(m) ==
  CASE policy.mode = "off"      -> StripOPT(m)
    [] policy.mode = "override" -> SetECSOverride(m)
    [] policy.mode = "pass"     -> m

SetDO(m) == [m EXCEPT !.opt = [present |-> TRUE, do |-> TRUE, subnets |-> @.subnets]]

ClientDO(m) == policy.dnssec /\ m.opt.do

\* ServeDNS: the DO bit is read first and set last.
Rewritten(m) == IF ClientDO(m) THEN SetDO(Apply(m)) ELSE Apply(m)

\* keyOf
\* Mutated: the DO bit is not part of the key.
KeyWithoutDO(m) == [Question(m) EXCEPT !.do = FALSE]
MessageKey(m) == Question(m)

ServingInit ==
  /\ Init
  /\ policy \in Policies /\ selected = "not yet"
  /\ received \in [Calls -> Requests] /\ req = received
  /\ copy = received
  /\ path = [c \in Calls |-> "arrived"]
  /\ asked = <<>>
  /\ \A c \in Calls : key[c] = MessageKey(Rewritten(received[c]))

-----------------------------------------------------------------------------
\* A round publishes the selection, a later one finds no line.
Publish ==
  /\ \/ selected = "not yet" /\ selected' = "yes"
     \/ selected = "yes" /\ selected' = "no more"
  /\ UNCHANGED <<vars, policy, received, req, copy, path, asked>>

\* ServeDNS up to p.Resolve, or to the default handler.
ServeDNS(c) ==
  /\ path[c] = "arrived"
  /\ \/ /\ selected = "yes"
        /\ path' = [path EXCEPT ![c] = "selected"]
        /\ req' = [req EXCEPT ![c] = Rewritten(@)]
     \/ /\ selected # "yes"
        /\ path' = [path EXCEPT ![c] = "placeholder"]
        /\ UNCHANGED req
  /\ UNCHANGED <<vars, policy, selected, received, copy, asked>>

\* cachingUpstream.Exchange, which the proxy calls with the request rewritten.
Exchange(c) == path[c] = "selected" /\ Get(c) /\ UNCHANGED handlerVars

\* refreshAsync copies the request before Exchange returns.
CopyAndGetStale(c) ==
  /\ GetStale(c)
  /\ copy' = IF Stale(key[c]) THEN [copy EXCEPT ![c] = req[c]] ELSE copy
  /\ UNCHANGED <<policy, selected, received, req, path, asked>>

\* What a thread sends to the upstreams.
Message(t) == IF t = Caller(t[1]) THEN req[t[1]] ELSE copy[t[1]]

EnterAndAsk(t) ==
  /\ Enter(t)
  /\ asked' = IF Leads(t) THEN Append(asked, Message(t)) ELSE asked
  /\ UNCHANGED <<policy, selected, received, req, copy, path>>

\* dnsproxy uses the request of a call that has returned for other things.
ReuseRequest(c) ==
  /\ GoOn(c)
  /\ \E m \in Leftovers : req' = [req EXCEPT ![c] = m]
  /\ UNCHANGED <<policy, selected, received, copy, path, asked>>

Elsewhere ==
  /\ \/ Tick
     \/ \E k \in Keys : Evict(k)
     \/ \E t \in Threads : Answered(t) \/ Delete(t) \/ Wake(t)
  /\ UNCHANGED handlerVars

ServingNext ==
  \/ Publish \/ Elsewhere
  \/ \E c \in Calls : \/ ServeDNS(c) \/ Exchange(c)
                      \/ CopyAndGetStale(c) \/ ReuseRequest(c)
  \/ \E t \in Threads : EnterAndAsk(t)

ServingSpec == ServingInit /\ [][ServingNext]_servingVars

-----------------------------------------------------------------------------
\* The questions a request may become: never a subnet the policy forbids, and
\* signatures only for a client that wants them, always if dnssec is set.
MayAsk(m) ==
  {q \in Questions :
     /\ q.name = m.name
     /\ q.subnets = CASE policy.mode = "off"      -> {}
                      [] policy.mode = "override" -> {Fixed}
                      [] policy.mode = "pass"     -> m.opt.subnets
     /\ q.do => m.opt.do
     /\ policy.dnssec /\ m.opt.do => q.do}

Replied(c) == reply[Caller(c)] \notin {None, 0}

\* What Answers sees of this state.
StateOf(c) ==
  CASE path[c] = "placeholder" -> "diverted"
    [] path[c] # "placeholder" /\ reply[Caller(c)] = 0 -> "failed"
    [] path[c] # "placeholder" /\ Replied(c) -> "answered"
    [] path[c] # "placeholder" /\ reply[Caller(c)] = None -> "waiting"

AnswerOf(c) == IF Replied(c) THEN {Question(asked[reply[Caller(c)]])} ELSE {}

QuestionsAsked == {Question(asked[i]) : i \in 1 .. Len(asked)}

Promise == INSTANCE Answers WITH
  Clients <- Calls,
  allowed <- [c \in Calls |-> MayAsk(received[c])],
  asked <- QuestionsAsked,
  state <- [c \in Calls |-> StateOf(c)],
  answer <- [c \in Calls |-> AnswerOf(c)]

\* Every client gets the answer to its own question, as the policy lets it be
\* asked, although the answer may come from the cache, from another client's
\* query or from a refresh; no upstream of the selection is asked anything
\* the policy forbids (README.md:202, 304-316).
PromiseSpec == Promise!Spec
=============================================================================
