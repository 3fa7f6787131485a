---------------------------- MODULE Configuration ----------------------------
(***************************************************************************)
(* From the configuration file to the options of each provider: LoadConfig *)
(* and normalize (internal/config/config.go), then scheduler.New.          *)
(*                                                                         *)
(* A file has the fields that are checked, completed or turned into        *)
(* something else; the others are handed on as they are.  None is a field  *)
(* that is empty or left out.  Of certificates, bootstrap servers, static  *)
(* hosts and health_http it is kept whether they are given and well formed.*)
(* Durations are counted in units of 50 ms, the shortest default.          *)
(***************************************************************************)
EXTENDS Integers, FiniteSets

CONSTANTS Files,      \* the configuration files
          Width,      \* a time.Duration is in -Width .. Width - 1
          HostNames,  \* hosts of upstream addresses that are names, not IPs
          None, Bad   \* left out; not a duration

Second == 20
Minute == 60 * Second
Day == 24 * 60 * Minute

Protocols == {"doh", "dot", "doq", "plain_dns"}
TLSProtocols == {"doh", "dot", "doq"}
ModeOrder == {"DNS-over-HTTPS", "DNS-over-TLS", "DNS-over-QUIC", "Plain DNS"}
Priorities == {"ipv4", "ipv6", "latency"}
DurationFields == {"probe_interval", "probe_timeout", "ip_latency_interval",
                   "race_window", "breaker_cooldown", "cache_ttl", "ttl_min", "ttl_max",
                   "cache_stale_max_age", "cache_stale_answer_ttl", "bootstrap_cache_ttl"}

\* What yaml, the pattern of days and time.ParseDuration can make of a text.
Texts == [days : Nat \cup {None}, rest : Int \cup {None, Bad}]
IsText(t) ==
  /\ t \in Texts
  /\ t.rest \in Int => t.rest \in - Width .. Width - 1
  /\ t.days = None => t.rest # None
  /\ t.days # None => t.rest \in Nat \cup {None, Bad}

ASSUME WidthAssumption == Width \in Nat /\ Width > 30 * Minute
ASSUME NoneAssumption ==
  /\ None \notin Int /\ None \notin BOOLEAN /\ None # "dns-query"
  /\ Bad \notin Int /\ None # Bad
ASSUME FilesAssumption ==
  \A f \in Files :
    /\ \A d \in DurationFields : f[d] = None \/ IsText(f[d])
    /\ f.listeners \in [Protocols -> [enabled : BOOLEAN, port : Int \cup {None}]]
    /\ {f.probe_count, f.cache_size} \subseteq Int \cup {None}
    /\ f.fail_threshold \in Int
    /\ f.cache_enabled \in BOOLEAN \cup {None}

\* Durations of which 0 and less are kept.
AsTheyAre == {"cache_ttl", "cache_stale_max_age", "cache_stale_answer_ttl",
              "bootstrap_cache_ttl"}

VARIABLES file,     \* the file at the path given to LoadConfig
          cfg,      \* what LoadConfig made of it: None before, Bad if refused
          options   \* provider -> its upstream options, None before New

vars == <<file, cfg, options>>

Init == file \in Files /\ cfg = None /\ options = None

-----------------------------------------------------------------------------
(* Durations.  A text is a number of days and a rest that time.ParseDuration *)
(* has parsed; without days it is all rest.                                  *)

Wrap(x) == ((x + Width) % (2 * Width)) - Width

\* Mutated: the product is only looked at for its sign.
FitsIfPositive(days) == Wrap(days * Day) >= 0

\* dayDur/24/time.Hour == days, the division that of Go.
Fits(days) ==
  LET d == Wrap(days * Day)
  IN  days = IF d >= 0 THEN d \div Day ELSE - ((- d) \div Day)

ParseDuration(t) ==
  IF t.days = None THEN t.rest
  ELSE LET d == Wrap(t.days * Day)
           r == IF t.rest = None THEN 0 ELSE t.rest
       IN  IF ~ Fits(t.days) \/ r = Bad THEN Bad
           ELSE IF Wrap(d + r) < 0 THEN Bad ELSE Wrap(d + r)

\* UnmarshalYAML is not called for a field left out.
Parsed(t) == IF t = None THEN None ELSE ParseDuration(t)
Value(t) == IF t = None THEN 0 ELSE ParseDuration(t)

-----------------------------------------------------------------------------
(* normalize. *)

Or(x, default) == IF x = None THEN default ELSE x
OrUnlessPositive(x, default) == IF x = None THEN default ELSE IF x <= 0 THEN default ELSE x

PortNumbers == 1 .. 65535
DefaultPort == [doh |-> 443, dot |-> 853, doq |-> 853, plain_dns |-> 53]

NormalListeners(f) ==
  [p \in Protocols |-> [f.listeners[p] EXCEPT !.port = OrUnlessPositive(@, DefaultPort[p])]]

On(f) == {p \in Protocols : f.listeners[p].enabled}

\* validateListeners, validateDoHPath
ListenersRefused(f) ==
  \/ On(f) = {}
  \/ \E p \in On(f) : NormalListeners(f)[p].port \notin PortNumbers
  \/ "doh" \in On(f) /\ f.doh_path \notin {None, "dns-query", "other path"}

\* ecs.New
PolicyRefused(f) ==
  \/ f.ecs_mode \notin {None, "off", "pass", "override"}
  \/ f.ecs_mode = "override" /\ f.ecs_address # "prefix"

CertRefused(f) ==
  /\ On(f) \cap TLSProtocols # {}
  /\ (f.cert_paths = None \/ f.cert_mode \notin {"acme", "existing"})

LimitsRefused(f) ==
  LET min == Value(f.ttl_min)
      max == Value(f.ttl_max)
  IN  min < 0 \/ max < 0 \/ (min > 0 /\ max > 0 /\ min > max)

BreakerRefused(f) == f.fail_threshold < 0 \/ Value(f.breaker_cooldown) < 0

\* Keys of maps are names of providers, "" among them.
MapsRefused(f) ==
  \/ \E n \in DOMAIN f.priority_of : n = "" \/ f.priority_of[n] \notin Priorities
  \/ \E n \in DOMAIN f.weights : n = "" \/ f.weights[n] \notin 1 .. 100
  \/ DOMAIN f.dns = {}
  \/ \E n \in DOMAIN f.dns : n = "" \/ DOMAIN f.dns[n] = {}

Refused(f) ==
  \/ \E d \in DurationFields : Parsed(f[d]) = Bad
  \/ ListenersRefused(f) \/ PolicyRefused(f) \/ CertRefused(f)
  \/ LimitsRefused(f) \/ BreakerRefused(f) \/ MapsRefused(f)
  \/ f.cache_eviction \notin {None, "fifo", "lru", "lfu"}
  \/ f.ip_priority \notin {None} \cup Priorities
  \/ f.upstream_mode \notin {None, "fastest", "weighted"}
  \/ f.hosts = "malformed" \/ f.health_http = "malformed"

\* Mutated: the cooldown is left as it is.
CooldownAsIs(f) == Value(f.breaker_cooldown)
Cooldown(f) ==
  LET c == Value(f.breaker_cooldown)
  IN  IF f.fail_threshold > 0 /\ c = 0 THEN 30 * Second ELSE c

\* Mutated: cache_ttl is a plain value, left out it is 0.
CacheTTLFollows(f) == Value(f.cache_ttl)
CacheTTL(f) == Or(Parsed(f.cache_ttl), 30 * Minute)

\* The configuration of a file that is not refused.
Normal(f) ==
  [listeners |-> NormalListeners(f),
   doh_path |-> IF "doh" \in On(f) THEN Or(f.doh_path, "dns-query") ELSE f.doh_path,
   ecs_mode |-> Or(f.ecs_mode, "off"), ecs_address |-> f.ecs_address,
   cert_mode |-> f.cert_mode, cert_paths |-> f.cert_paths,
   probe_interval |-> OrUnlessPositive(Parsed(f.probe_interval), 15 * Minute),
   probe_timeout |-> OrUnlessPositive(Parsed(f.probe_timeout), 3 * Second),
   probe_count |-> OrUnlessPositive(f.probe_count, 3),
   cache_enabled |-> Or(f.cache_enabled, TRUE),
   cache_size |-> OrUnlessPositive(f.cache_size, 64 * 1024 * 1024),
   cache_ttl |-> CacheTTL(f),
   cache_eviction |-> Or(f.cache_eviction, "lru"),
   cache_stale_max_age |-> Value(f.cache_stale_max_age),
   cache_stale_answer_ttl |-> Value(f.cache_stale_answer_ttl),
   ttl_min |-> Value(f.ttl_min), ttl_max |-> Value(f.ttl_max),
   bootstrap_cache_ttl |-> Value(f.bootstrap_cache_ttl),
   bootstrap |-> Or(f.bootstrap, "two public servers"), hosts |-> f.hosts,
   ip_priority |-> Or(f.ip_priority, "ipv4"), priority_of |-> f.priority_of,
   ip_latency_interval |-> OrUnlessPositive(Parsed(f.ip_latency_interval), 15 * Minute),
   upstream_mode |-> Or(f.upstream_mode, "fastest"), weights |-> f.weights,
   race_window |-> OrUnlessPositive(Parsed(f.race_window), Second \div 20),
   health_http |-> f.health_http,
   fail_threshold |-> f.fail_threshold, breaker_cooldown |-> Cooldown(f),
   dns |-> f.dns]

\* What DefaultConfig sets in these fields.
DefaultConfig ==
  [ports |-> [doh |-> 443, dot |-> 853, doq |-> 853, plain_dns |-> 53],
   ecs_mode |-> "off",
   probe_interval |-> 15 * Minute, probe_timeout |-> 3 * Second, probe_count |-> 3,
   cache_enabled |-> TRUE, cache_size |-> 64 * 1024 * 1024,
   cache_ttl |-> 30 * Minute, cache_eviction |-> "lru", ttl_min |-> 0, ttl_max |-> 0,
   cache_stale_max_age |-> 0, cache_stale_answer_ttl |-> 0,
   bootstrap |-> "two public servers", ip_priority |-> "ipv4",
   ip_latency_interval |-> 15 * Minute,
   upstream_mode |-> "fastest", race_window |-> Second \div 20]

LoadConfig ==
  /\ cfg = None
  /\ cfg' = IF Refused(file) THEN Bad ELSE Normal(file)
  /\ UNCHANGED <<file, options>>

-----------------------------------------------------------------------------
(* scheduler.New, and what it asks of the configuration.                     *)

Weight(c, n) ==
  IF n \in DOMAIN c.weights /\ c.weights[n] >= 1 THEN c.weights[n] ELSE 1

IPPriorityFor(c, n) ==
  IF n \in DOMAIN c.priority_of /\ c.priority_of[n] # "" THEN c.priority_of[n]
  ELSE c.ip_priority

DefaultPortForScheme(scheme) ==
  CASE scheme \in {"tls", "quic", "h3"} -> 853
    [] scheme \in {"udp", "tcp"} -> 53
    [] OTHER -> 443

\* targetFromAddr.  An address is its scheme, its host, how the name of the
\* host is spelled, and its port; a port that is no number is None.
TargetFromAddr(a) ==
  [host |-> a.host, spelling |-> a.spelling,
   port |-> IF a.port \in PortNumbers \cup {0} THEN a.port
            ELSE DefaultPortForScheme(a.scheme)]

Addresses(c, n) == {c.dns[n][mode] : mode \in DOMAIN c.dns[n]}

\* Mutated: the map's key is the name as it is spelled.
SameTargetSpelled(t, u) == t.host = u.host /\ t.spelling = u.spelling
SameTarget(t, u) == t.host = u.host

\* UpstreamTargetsFor: of several ports of one host the address that is visited
\* last decides, in the order of Go's map.
UpstreamTargetsFor(c, n) ==
  LET all == {TargetFromAddr(a) : a \in {b \in Addresses(c, n) : b.host \in HostNames}}
  IN  {T \in SUBSET all :
         \A t \in all : Cardinality({u \in T : SameTarget(t, u)}) = 1}

Choices(c, n) ==
  CASE IPPriorityFor(c, n) = "ipv4" -> {[prefer_ipv6 |-> FALSE, probed |-> {}]}
    [] IPPriorityFor(c, n) = "ipv6" -> {[prefer_ipv6 |-> TRUE, probed |-> {}]}
    [] IPPriorityFor(c, n) = "latency" ->
         [prefer_ipv6 : {FALSE}, probed : UpstreamTargetsFor(c, n)]

New ==
  /\ cfg \notin {None, Bad} /\ options = None
  /\ LET providers == DOMAIN cfg.dns
     IN  \E o \in [providers -> UNION {Choices(cfg, n) : n \in providers}] :
           (\A n \in providers : o[n] \in Choices(cfg, n)) /\ options' = o
  /\ UNCHANGED <<file, cfg>>

Next == LoadConfig \/ New

Spec == Init /\ [][Next]_vars

-----------------------------------------------------------------------------
Accepted == cfg \notin {None, Bad}

\* What a text says, in numbers without a width.
Meaning(t) ==
  IF t.rest = Bad THEN Bad
  ELSE (IF t.days = None THEN 0 ELSE t.days * Day) + (IF t.rest = None THEN 0 ELSE t.rest)

\* No duration is ever cut by the width of a number: a text that says too much
\* refuses the file, any other is taken for exactly what it says
\* (config.go:160-214).  Of cache_ttl that holds for 0 and less too, which say
\* that the records' own TTLs are followed (config.go:94), and of the two windows
\* of stale answers and the bootstrap cache's TTL (config.go:100, 110).
DurationIsExact ==
  \A d \in DurationFields : Accepted /\ file[d] # None =>
    LET x == Meaning(file[d])
    IN  /\ x # Bad
        /\ x < Width
        /\ (x > 0 \/ d \in AsTheyAre) => cfg[d] = x

\* A field left out means in normalize what DefaultConfig says.
OmittedIsDefault ==
  Accepted =>
    /\ \A k \in DOMAIN DefaultConfig \ {"ports"} :
         file[k] = None => cfg[k] = DefaultConfig[k]
    /\ \A p \in Protocols :
         file.listeners[p].port = None => cfg.listeners[p].port = DefaultConfig.ports[p]

\* What the rest of the program takes for granted holds of every file that is
\* accepted: the two tickers (scheduler.go:165, prober.go:71), the pointers
\* (scheduler.go:310, 313), netip.MustParseAddr (main.go:264), the proxy's
\* listeners (main.go:78-115), and what modules Scheduler, Racing, Cache and
\* Serving assume of their settings.
AcceptedIsUsable ==
  Accepted =>
    /\ cfg.probe_interval > 0 /\ cfg.ip_latency_interval > 0
    /\ cfg.cache_enabled # None /\ cfg.cache_ttl # None
    /\ cfg.hosts # "malformed"
    /\ On(cfg) # {}
    /\ \A p \in On(cfg) : cfg.listeners[p].port \in PortNumbers
    /\ (On(cfg) \cap TLSProtocols # {}) => cfg.cert_paths # None
    /\ "doh" \in On(cfg) => cfg.doh_path # None
    /\ cfg.ecs_mode = "override" => cfg.ecs_address = "prefix"
    /\ cfg.probe_timeout > 0 /\ cfg.probe_count > 0 /\ cfg.race_window > 0
    /\ cfg.fail_threshold > 0 => cfg.breaker_cooldown > 0
    /\ \A n \in DOMAIN cfg.dns : Weight(cfg, n) \in 1 .. 100
    /\ cfg.ttl_max \div Second > 0 => cfg.ttl_min \div Second <= cfg.ttl_max \div Second
    /\ cfg.cache_eviction \in {"fifo", "lru", "lfu"}

\* The ports an upstream is dialled at when its address names none.
DialledPort(scheme) ==
  CASE scheme = "https" -> 443
    [] scheme \in {"tls", "quic"} -> 853
    [] scheme \in {"udp", "tcp"} -> 53

\* With latency every host a provider can be asked at by name is measured, once,
\* so that none counts twice in the average, and at a port one of the
\* provider's own addresses has (README.md:235, 243); no other provider probes.
TargetsCover ==
  options # None =>
    \A n \in DOMAIN cfg.dns :
      LET probed == options[n].probed
          named == {a \in Addresses(cfg, n) : a.host \in HostNames}
      IN  IF IPPriorityFor(cfg, n) # "latency" THEN probed = {}
          ELSE /\ \A mode \in ModeOrder \cap DOMAIN cfg.dns[n] :
                    cfg.dns[n][mode] \in named =>
                      Cardinality({t \in probed : t.host = cfg.dns[n][mode].host}) = 1
               /\ \A t \in probed : \E a \in named :
                    /\ a.host = t.host
                    /\ t.port = IF a.port = None THEN DialledPort(a.scheme) ELSE a.port
=============================================================================
