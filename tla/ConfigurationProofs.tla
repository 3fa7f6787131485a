------------------------- MODULE ConfigurationProofs -------------------------
(***************************************************************************)
(* Proofs about module Configuration, for every set of files and every     *)
(* width of a duration above 30 minutes: no duration is cut, what is       *)
(* accepted is usable, and the hosts of a provider on latency are          *)
(* measured.  They rest on one invariant, that the configuration in hand   *)
(* is what normalize makes of a file it does not refuse, the first also on *)
(* what Go's wrapping product and the division that checks it do, and the  *)
(* last on what UpstreamTargetsFor can return.                             *)
(***************************************************************************)
EXTENDS Configuration, TLAPS

\* The remainder of a number that is itself below n, or below twice n.
LEMMA Modulo ==
  ASSUME NEW y \in Int, NEW n \in Nat, n > 0
  PROVE  /\ y % n \in 0 .. n - 1
         /\ y \in 0 .. n - 1 => y % n = y
         /\ y \in n .. 2 * n - 1 => y % n = y - n
<1>1. y % n \in 0 .. n - 1
  OBVIOUS
<1>2. ASSUME y \in 0 .. n - 1 PROVE y % n = y
  <2>1. y >= 0 /\ y < n
    BY <1>2
  <2>2. QED BY <2>1
<1>3. ASSUME y \in n .. 2 * n - 1 PROVE y % n = y - n
  <2>1. y >= n /\ y < 2 * n
    BY <1>3
  <2>2. QED BY <2>1
<1>4. QED BY <1>1, <1>2, <1>3

\* A duration is in its range; what is in range is not changed; and a sum that
\* leaves it at the top becomes negative.
LEMMA Wrapped ==
  ASSUME NEW x \in Int
  PROVE  /\ Wrap(x) \in - Width .. Width - 1
         /\ x \in - Width .. Width - 1 => Wrap(x) = x
         /\ x \in Width .. 2 * Width - 2 => Wrap(x) < 0
<1> DEFINE y == x + Width
           n == 2 * Width
<1>1. Width \in Nat /\ y \in Int /\ n \in Nat /\ n > 0
  BY WidthAssumption DEF Minute, Second
<1>2. Wrap(x) = (y % n) - Width
  BY DEF Wrap
<1> HIDE DEF y, n
<1>3. /\ y % n \in 0 .. n - 1
      /\ y \in 0 .. n - 1 => y % n = y
      /\ y \in n .. 2 * n - 1 => y % n = y - n
  BY <1>1, Modulo
<1>4. QED BY <1>1, <1>2, <1>3 DEF y, n

\* The check of the product lets no overflow through.
LEMMA FitsIsExact ==
  ASSUME NEW days \in Nat, Fits(days)
  PROVE  Wrap(days * Day) = days * Day /\ days * Day \in 0 .. Width - 1
<1> DEFINE d == Wrap(days * Day)
<1>1. Width \in Nat /\ Day \in Nat /\ Day = 1728000
  BY WidthAssumption DEF Day, Minute, Second
<1>2. days * Day \in Nat /\ d \in - Width .. Width - 1
  BY <1>1, Wrapped
<1>3. days = IF d >= 0 THEN d \div Day ELSE - ((- d) \div Day)
  BY DEF Fits
<1> HIDE DEF d
<1>4. days * Day <= Width - 1
  <2>1. CASE d >= 0
    BY <1>1, <1>2, <1>3, <2>1
  <2>2. CASE d < 0
    BY <1>1, <1>2, <1>3, <2>2
  <2>3. QED BY <1>2, <2>1, <2>2
<1>5. QED BY <1>1, <1>2, <1>4, Wrapped DEF d

\* A text with a meaning is read for exactly what it means, or refused.
LEMMA ParseIsExact ==
  ASSUME NEW t, IsText(t), ParseDuration(t) # Bad
  PROVE  /\ Meaning(t) # Bad /\ Meaning(t) \in Int /\ Meaning(t) < Width
         /\ ParseDuration(t) = Meaning(t)
<1>1. Width \in Nat
  BY WidthAssumption
<1>2. CASE t.days = None
  BY <1>1, <1>2, NoneAssumption DEF ParseDuration, Meaning, Texts, IsText
<1>3. CASE t.days # None
  <2> DEFINE p == t.days * Day
             r == IF t.rest = None THEN 0 ELSE t.rest
  <2>1. Fits(t.days) /\ r # Bad /\ Wrap(Wrap(p) + r) >= 0
        /\ ParseDuration(t) = Wrap(Wrap(p) + r)
    <3>1. Fits(t.days) /\ r # Bad
      BY <1>3 DEF ParseDuration
    <3>2. t.days \in Nat
      BY <1>3 DEF Texts, IsText
    <3>3. p \in 0 .. Width - 1 /\ Wrap(p) = p /\ r \in 0 .. Width - 1
      BY <1>1, <1>3, <3>1, <3>2, FitsIsExact, WidthAssumption DEF Texts, IsText, Minute, Second
    <3>4. Wrap(Wrap(p) + r) \in - Width .. Width - 1
      BY <1>1, <3>3, Wrapped
    <3>5. ~ (Wrap(Wrap(p) + r) < 0)
      BY <1>3, <3>1 DEF ParseDuration
    <3>6. ParseDuration(t) = Wrap(Wrap(p) + r)
      BY <1>3, <3>1, <3>5 DEF ParseDuration
    <3>7. QED BY <1>1, <3>1, <3>4, <3>5, <3>6
  <2>2. t.days \in Nat
    BY <1>3 DEF Texts, IsText
  <2>3. p \in 0 .. Width - 1 /\ Wrap(p) = p /\ r \in 0 .. Width - 1
    BY <1>1, <1>3, <2>1, <2>2, FitsIsExact, WidthAssumption DEF Texts, IsText, Minute, Second
  <2>4. Meaning(t) = p + r
    BY <1>3, <2>1, <2>3, NoneAssumption DEF Meaning
  <2> HIDE DEF p, r
  <2>5. p + r \in - Width .. Width - 1
    <3>1. CASE p + r < Width
      BY <1>1, <2>3, <3>1
    <3>2. CASE p + r >= Width
      <4>1. Wrap(p + r) < 0
        BY <1>1, <2>3, <3>2, Wrapped
      <4>2. Wrap(p + r) \in Int
        BY <1>1, <2>3, Wrapped
      <4>3. QED BY <2>1, <2>3, <4>1, <4>2
    <3>3. QED BY <1>1, <2>3, <3>1, <3>2
  <2>6. ParseDuration(t) = p + r
    BY <2>1, <2>3, <2>5, Wrapped
  <2>7. QED BY <1>1, <2>4, <2>5, <2>6, NoneAssumption
<1>4. QED BY <1>2, <1>3
-----------------------------------------------------------------------------
\* The configuration in hand is what normalize makes of a file that it does not
\* refuse (config.go:294-308).
FromFile ==
  /\ file \in Files
  /\ cfg \in {None, Bad} \/ (cfg = Normal(file) /\ ~ Refused(file))

LEMMA FromFileAlways == Spec => []FromFile
<1>1. Init => FromFile
  BY DEF Init, FromFile
<1>2. FromFile /\ [Next]_vars => FromFile'
  <2> SUFFICES ASSUME FromFile, [Next]_vars PROVE FromFile'
    OBVIOUS
  <2>1. CASE LoadConfig
    <3>1. CASE Refused(file)
      BY <2>1, <3>1 DEF LoadConfig, FromFile
    <3>2. CASE ~ Refused(file)
      <4>1. cfg' = Normal(file) /\ file' = file
        BY <2>1, <3>2 DEF LoadConfig
      <4>2. Normal(file') = Normal(file) /\ Refused(file') = Refused(file)
        BY <4>1
      <4>3. QED BY <3>2, <4>1, <4>2 DEF FromFile
    <3>3. QED BY <3>1, <3>2
  <2>2. ASSUME UNCHANGED <<file, cfg>> PROVE FromFile'
    BY <2>2 DEF FromFile
  <2>3. CASE New
    BY <2>2, <2>3 DEF New
  <2>4. CASE UNCHANGED vars
    BY <2>2, <2>4 DEF vars
  <2>5. QED BY <2>1, <2>3, <2>4 DEF Next
<1>3. QED BY <1>1, <1>2, PTL DEF Spec

\* A duration of a file that is not refused.
LEMMA DurationOf ==
  ASSUME NEW f \in Files, ~ Refused(f), NEW d \in DurationFields
  PROVE  \/ f[d] = None /\ Parsed(f[d]) = None /\ Value(f[d]) = 0
         \/ /\ f[d] # None
            /\ Meaning(f[d]) # Bad /\ Meaning(f[d]) \in Int /\ Meaning(f[d]) < Width
            /\ Parsed(f[d]) = Meaning(f[d]) /\ Value(f[d]) = Meaning(f[d])
<1>1. CASE f[d] = None
  BY <1>1 DEF Parsed, Value
<1>2. CASE f[d] # None
  <2>1. IsText(f[d])
    BY <1>2, FilesAssumption
  <2>2. ParseDuration(f[d]) # Bad
    BY <1>2 DEF Refused, Parsed
  <2>3. QED BY <1>2, <2>1, <2>2, ParseIsExact DEF Parsed, Value
<1>3. QED BY <1>1, <1>2

\* What normalize makes of each of the durations.
LEMMA NormalDurations ==
  ASSUME NEW f
  PROVE  LET c == Normal(f)
         IN  /\ c["probe_interval"] = OrUnlessPositive(Parsed(f["probe_interval"]), 15 * Minute)
             /\ c["probe_timeout"] = OrUnlessPositive(Parsed(f["probe_timeout"]), 3 * Second)
             /\ c["ip_latency_interval"]
                  = OrUnlessPositive(Parsed(f["ip_latency_interval"]), 15 * Minute)
             /\ c["race_window"] = OrUnlessPositive(Parsed(f["race_window"]), Second \div 20)
             /\ c["cache_ttl"] = CacheTTL(f)
             /\ c["breaker_cooldown"] = Cooldown(f)
             /\ \A d \in {"ttl_min", "ttl_max", "cache_stale_max_age",
                         "cache_stale_answer_ttl", "bootstrap_cache_ttl"} :
                  c[d] = Value(f[d])
BY DEF Normal

\* No duration is cut by the width of its number: what a file that is accepted
\* says is what the program runs with (config.go:160-214).
THEOREM DurationsAreExact == Spec => []DurationIsExact
<1>1. FromFile => DurationIsExact
  <2> SUFFICES ASSUME FromFile, NEW d \in DurationFields, Accepted, file[d] # None
               PROVE  /\ Meaning(file[d]) # Bad /\ Meaning(file[d]) < Width
                      /\ (Meaning(file[d]) > 0 \/ d \in AsTheyAre) => cfg[d] = Meaning(file[d])
    BY DEF DurationIsExact
  <2> DEFINE x == Meaning(file[d])
  <2>1. file \in Files /\ cfg = Normal(file) /\ ~ Refused(file)
    BY DEF FromFile, Accepted
  <2>2. /\ x # Bad /\ x \in Int /\ x < Width
        /\ Parsed(file[d]) = x /\ Value(file[d]) = x
    BY <2>1, DurationOf
  <2> HIDE DEF x
  <2>3. ASSUME x > 0 \/ d \in AsTheyAre PROVE cfg[d] = x
    <3>1. x # None /\ (x > 0 => ~ (x <= 0))
      BY <2>2, NoneAssumption
    <3>2. CASE d \in {"probe_interval", "probe_timeout", "ip_latency_interval", "race_window"}
      <4>1. x > 0 /\ OrUnlessPositive(Parsed(file[d]), 15 * Minute) = x
        BY <2>2, <2>3, <3>1, <3>2 DEF OrUnlessPositive, AsTheyAre
      <4>2. /\ OrUnlessPositive(Parsed(file[d]), 3 * Second) = x
            /\ OrUnlessPositive(Parsed(file[d]), Second \div 20) = x
        BY <2>2, <3>1, <4>1 DEF OrUnlessPositive
      <4>3. QED BY <2>1, <3>2, <4>1, <4>2, NormalDurations
    <3>3. CASE d = "cache_ttl"
      BY <2>1, <2>2, <3>1, <3>3, NormalDurations DEF CacheTTL, Or
    <3>4. CASE d = "breaker_cooldown"
      BY <2>1, <2>2, <2>3, <3>1, <3>4, NormalDurations DEF Cooldown, AsTheyAre
    <3>5. CASE d \in {"ttl_min", "ttl_max", "cache_stale_max_age",
                      "cache_stale_answer_ttl", "bootstrap_cache_ttl"}
      BY <2>1, <2>2, <3>5, NormalDurations
    <3>6. QED BY <3>2, <3>3, <3>4, <3>5 DEF DurationFields
  <2>4. QED BY <2>2, <2>3 DEF x
<1>2. QED BY <1>1, FromFileAlways, PTL

\* The parts of AcceptedIsUsable, of a file that is not refused: its durations
\* and counts,
LEMMA UsableNumbers ==
  ASSUME NEW f \in Files, ~ Refused(f)
  PROVE  LET c == Normal(f)
         IN  /\ c.probe_interval > 0 /\ c.ip_latency_interval > 0
             /\ c.probe_timeout > 0 /\ c.probe_count > 0 /\ c.race_window > 0
             /\ c.cache_ttl # None
             /\ c.fail_threshold > 0 => c.breaker_cooldown > 0
             /\ c.ttl_max \div Second > 0 => c.ttl_min \div Second <= c.ttl_max \div Second
<1> DEFINE c == Normal(f)
<1>1. \A d \in DurationFields : Parsed(f[d]) \in Int \cup {None} /\ Value(f[d]) \in Int
  BY DurationOf
<1>2. \A x \in Int \cup {None} : \A y \in Int : y > 0 => OrUnlessPositive(x, y) > 0
  BY NoneAssumption DEF OrUnlessPositive
<1>3. /\ c.probe_interval > 0 /\ c.ip_latency_interval > 0
      /\ c.probe_timeout > 0 /\ c.race_window > 0
  <2>1. /\ 15 * Minute \in Int /\ 15 * Minute > 0 /\ 3 * Second \in Int /\ 3 * Second > 0
        /\ Second \div 20 \in Int /\ Second \div 20 > 0
    BY DEF Minute, Second
  <2>2. {"probe_interval", "probe_timeout", "ip_latency_interval", "race_window"}
        \subseteq DurationFields
    BY DEF DurationFields
  <2>3. \A d \in {"probe_interval", "probe_timeout", "ip_latency_interval", "race_window"} :
          /\ OrUnlessPositive(Parsed(f[d]), 15 * Minute) > 0
          /\ OrUnlessPositive(Parsed(f[d]), 3 * Second) > 0
          /\ OrUnlessPositive(Parsed(f[d]), Second \div 20) > 0
    BY <1>1, <1>2, <2>1, <2>2
  <2>4. QED BY <2>3, NormalDurations
<1>4. c.probe_count > 0
  <2>1. c.probe_count = OrUnlessPositive(f.probe_count, 3)
    BY DEF Normal
  <2>2. f.probe_count \in Int \cup {None}
    BY FilesAssumption
  <2>3. OrUnlessPositive(f.probe_count, 3) > 0
    BY <2>2 DEF OrUnlessPositive
  <2>4. QED BY <2>1, <2>3
<1>5. c.cache_ttl # None
  <2>1. Parsed(f.cache_ttl) \in Int \cup {None} /\ 30 * Minute \in Int
    BY <1>1 DEF DurationFields, Minute, Second
  <2>2. CacheTTL(f) \in Int
    BY <2>1 DEF CacheTTL, Or
  <2>3. QED BY <2>2, NormalDurations, NoneAssumption
<1>6. c.fail_threshold > 0 => c.breaker_cooldown > 0
  <2>1. /\ Value(f.breaker_cooldown) \in Int /\ ~ (Value(f.breaker_cooldown) < 0)
        /\ f.fail_threshold \in Int /\ c.fail_threshold = f.fail_threshold
    BY <1>1, FilesAssumption DEF DurationFields, Refused, BreakerRefused, Normal
  <2>2. c.breaker_cooldown = Cooldown(f)
    BY NormalDurations
  <2>3. QED BY <2>1, <2>2 DEF Cooldown, Second
<1>7. c.ttl_max \div Second > 0 => c.ttl_min \div Second <= c.ttl_max \div Second
  <2> DEFINE min == Value(f.ttl_min)
             max == Value(f.ttl_max)
  <2>1. c.ttl_min = min /\ c.ttl_max = max
    BY NormalDurations
  <2>2. min \in Int /\ max \in Int
    BY <1>1 DEF DurationFields
  <2>3. min >= 0 /\ max >= 0 /\ (min > 0 /\ max > 0 => min <= max)
    BY <2>2 DEF Refused, LimitsRefused
  <2> HIDE DEF min, max
  <2>4. max \div 20 > 0 => min \div 20 <= max \div 20
    BY <2>2, <2>3
  <2>5. QED BY <2>1, <2>4 DEF Second
<1>8. QED BY <1>3, <1>4, <1>5, <1>6, <1>7

\* its listeners, what they need, and its other choices.
LEMMA UsableChoices ==
  ASSUME NEW f \in Files, ~ Refused(f)
  PROVE  LET c == Normal(f)
         IN  /\ c.cache_enabled # None
             /\ c.hosts # "malformed"
             /\ On(c) # {}
             /\ \A p \in On(c) : c.listeners[p].port \in PortNumbers
             /\ (On(c) \cap TLSProtocols # {}) => c.cert_paths # None
             /\ "doh" \in On(c) => c.doh_path # None
             /\ c.ecs_mode = "override" => c.ecs_address = "prefix"
             /\ \A n \in DOMAIN c.dns : Weight(c, n) \in 1 .. 100
             /\ c.cache_eviction \in {"fifo", "lru", "lfu"}
<1> DEFINE c == Normal(f)
<1>1. c.listeners = NormalListeners(f)
  BY DEF Normal
<1>2. On(c) = On(f)
  <2>1. \A p \in Protocols : c.listeners[p].enabled = f.listeners[p].enabled
    BY <1>1, FilesAssumption DEF NormalListeners
  <2>2. QED BY <2>1 DEF On
<1>3. On(c) # {} /\ \A p \in On(c) : c.listeners[p].port \in PortNumbers
  <2>1. ~ ListenersRefused(f)
    BY DEF Refused
  <2>2. On(f) # {}
    BY <2>1 DEF ListenersRefused
  <2>3. \A p \in On(f) : NormalListeners(f)[p].port \in PortNumbers
    BY <2>1 DEF ListenersRefused
  <2>4. \A p \in On(c) : c.listeners[p].port \in PortNumbers
    BY <1>1, <1>2, <2>3
  <2>5. QED BY <1>2, <2>2, <2>4
<1>4. (On(c) \cap TLSProtocols # {}) => c.cert_paths # None
  <2>1. c.cert_paths = f.cert_paths
    BY DEF Normal
  <2>2. QED BY <1>2, <2>1 DEF Refused, CertRefused
<1>5. "doh" \in On(c) => c.doh_path # None
  <2>1. "doh" \in On(f) => c.doh_path = Or(f.doh_path, "dns-query")
    BY DEF Normal
  <2>2. Or(f.doh_path, "dns-query") # None
    BY NoneAssumption DEF Or
  <2>3. QED BY <1>2, <2>1, <2>2
<1>6. c.ecs_mode = "override" => c.ecs_address = "prefix"
  <2>1. c.ecs_mode = Or(f.ecs_mode, "off") /\ c.ecs_address = f.ecs_address
    BY DEF Normal
  <2>2. QED BY <2>1 DEF Refused, PolicyRefused, Or
<1>7. \A n \in DOMAIN c.dns : Weight(c, n) \in 1 .. 100
  <2>1. c.weights = f.weights
    BY DEF Normal
  <2>2. \A n \in DOMAIN f.weights : f.weights[n] \in 1 .. 100
    BY DEF Refused, MapsRefused
  <2>3. QED BY <2>1, <2>2 DEF Weight
<1>8. c.cache_enabled # None
  <2>1. c.cache_enabled = Or(f.cache_enabled, TRUE)
    BY DEF Normal
  <2>2. QED BY <2>1, NoneAssumption DEF Or
<1>9. c.hosts # "malformed"
  BY DEF Normal, Refused
<1>10. c.cache_eviction \in {"fifo", "lru", "lfu"}
  <2>1. c.cache_eviction = Or(f.cache_eviction, "lru")
    BY DEF Normal
  <2>2. QED BY <2>1 DEF Refused, Or
<1>11. QED BY <1>3, <1>4, <1>5, <1>6, <1>7, <1>8, <1>9, <1>10

\* What the rest of the program takes for granted holds of every file that is
\* accepted (scheduler.go:165, 310; prober.go:71; main.go:78-115, 264).
THEOREM AcceptedFilesAreUsable == Spec => []AcceptedIsUsable
<1>1. FromFile => AcceptedIsUsable
  <2> SUFFICES ASSUME FromFile, Accepted PROVE AcceptedIsUsable
    BY DEF AcceptedIsUsable
  <2>1. file \in Files /\ cfg = Normal(file) /\ ~ Refused(file)
    BY DEF FromFile, Accepted
  <2>2. QED BY <2>1, UsableNumbers, UsableChoices DEF AcceptedIsUsable
<1>2. QED BY <1>1, FromFileAlways, PTL

\* A field left out means what DefaultConfig says (config.go:233-292, 359-492).
THEOREM OmittedFieldsAreDefault == Spec => []OmittedIsDefault
<1>1. FromFile => OmittedIsDefault
  <2> SUFFICES ASSUME FromFile, Accepted PROVE OmittedIsDefault
    BY DEF OmittedIsDefault
  <2>1. file \in Files /\ cfg = Normal(file) /\ ~ Refused(file)
    BY DEF FromFile, Accepted
  <2>2. \A k \in DOMAIN DefaultConfig \ {"ports"} :
          file[k] = None => cfg[k] = DefaultConfig[k]
    <3>1. /\ file["probe_interval"] = None => cfg["probe_interval"] = DefaultConfig["probe_interval"]
          /\ file["probe_timeout"] = None => cfg["probe_timeout"] = DefaultConfig["probe_timeout"]
          /\ file["ip_latency_interval"] = None => cfg["ip_latency_interval"] = DefaultConfig["ip_latency_interval"]
          /\ file["race_window"] = None => cfg["race_window"] = DefaultConfig["race_window"]
          /\ file["cache_ttl"] = None => cfg["cache_ttl"] = DefaultConfig["cache_ttl"]
          /\ file["ttl_min"] = None => cfg["ttl_min"] = DefaultConfig["ttl_min"]
          /\ file["ttl_max"] = None => cfg["ttl_max"] = DefaultConfig["ttl_max"]
          /\ file["cache_stale_max_age"] = None => cfg["cache_stale_max_age"] = DefaultConfig["cache_stale_max_age"]
          /\ file["cache_stale_answer_ttl"] = None => cfg["cache_stale_answer_ttl"] = DefaultConfig["cache_stale_answer_ttl"]
      BY <2>1, NormalDurations
         DEF DefaultConfig, Parsed, Value, CacheTTL, Or, OrUnlessPositive
    <3>2. /\ file["ecs_mode"] = None => cfg["ecs_mode"] = DefaultConfig["ecs_mode"]
          /\ file["probe_count"] = None => cfg["probe_count"] = DefaultConfig["probe_count"]
          /\ file["cache_enabled"] = None => cfg["cache_enabled"] = DefaultConfig["cache_enabled"]
          /\ file["cache_size"] = None => cfg["cache_size"] = DefaultConfig["cache_size"]
          /\ file["cache_eviction"] = None => cfg["cache_eviction"] = DefaultConfig["cache_eviction"]
          /\ file["bootstrap"] = None => cfg["bootstrap"] = DefaultConfig["bootstrap"]
          /\ file["ip_priority"] = None => cfg["ip_priority"] = DefaultConfig["ip_priority"]
          /\ file["upstream_mode"] = None => cfg["upstream_mode"] = DefaultConfig["upstream_mode"]
      <4>1. /\ cfg["ecs_mode"] = Or(file["ecs_mode"], "off")
            /\ cfg["cache_enabled"] = Or(file["cache_enabled"], TRUE)
            /\ cfg["cache_eviction"] = Or(file["cache_eviction"], "lru")
            /\ cfg["bootstrap"] = Or(file["bootstrap"], "two public servers")
            /\ cfg["ip_priority"] = Or(file["ip_priority"], "ipv4")
            /\ cfg["upstream_mode"] = Or(file["upstream_mode"], DefaultConfig["upstream_mode"])
        BY <2>1 DEF Normal, DefaultConfig
      <4>2. /\ cfg["probe_count"] = OrUnlessPositive(file["probe_count"], DefaultConfig["probe_count"])
            /\ cfg["cache_size"] = OrUnlessPositive(file["cache_size"], DefaultConfig["cache_size"])
        <5>1. cfg["probe_count"] = OrUnlessPositive(file["probe_count"], 3)
          BY <2>1 DEF Normal
        <5>2. cfg["cache_size"] = OrUnlessPositive(file["cache_size"], 64 * 1024 * 1024)
          BY <2>1 DEF Normal
        <5>3. /\ DefaultConfig["probe_count"] = 3
              /\ DefaultConfig["cache_size"] = 64 * 1024 * 1024
          BY DEF DefaultConfig
        <5>4. QED BY <5>1, <5>2, <5>3
      <4>3. /\ DefaultConfig["ecs_mode"] = "off" /\ DefaultConfig["cache_enabled"] = TRUE
            /\ DefaultConfig["cache_eviction"] = "lru"
            /\ DefaultConfig["bootstrap"] = "two public servers"
            /\ DefaultConfig["ip_priority"] = "ipv4"
        BY DEF DefaultConfig
      <4>4. QED BY <4>1, <4>2, <4>3 DEF Or, OrUnlessPositive
    <3>3. DOMAIN DefaultConfig \ {"ports"}
          = {"probe_interval", "probe_timeout", "ip_latency_interval", "race_window",
             "cache_ttl", "ttl_min", "ttl_max", "cache_stale_max_age",
             "cache_stale_answer_ttl", "ecs_mode", "probe_count", "cache_enabled",
             "cache_size", "cache_eviction", "bootstrap", "ip_priority", "upstream_mode"}
      BY DEF DefaultConfig
    <3>4. QED BY <3>1, <3>2, <3>3
  <2>3. ASSUME NEW p \in Protocols, file.listeners[p].port = None
        PROVE  cfg.listeners[p].port = DefaultConfig.ports[p]
    <3>1. cfg.listeners = NormalListeners(file)
      BY <2>1 DEF Normal
    <3>2. file.listeners[p] \in [enabled : BOOLEAN, port : Int \cup {None}]
      BY <2>1, FilesAssumption
    <3>3. cfg.listeners[p].port = OrUnlessPositive(None, DefaultPort[p])
      BY <2>3, <3>1, <3>2 DEF NormalListeners
    <3>4. QED BY <3>3 DEF OrUnlessPositive, DefaultPort, DefaultConfig, Protocols
  <2>4. QED BY <2>2, <2>3 DEF OmittedIsDefault
<1>2. QED BY <1>1, FromFileAlways, PTL
-----------------------------------------------------------------------------
\* Every address of a file that names its host has a port that is one, if it has
\* any, and otherwise a scheme whose default port is known; h3 is not among them.
Dialable ==
  \A f \in Files : \A n \in DOMAIN f.dns : \A mode \in DOMAIN f.dns[n] :
    LET a == f.dns[n][mode]
    IN  a.host \in HostNames =>
          \/ a.port \in PortNumbers \cup {0}
          \/ a.port = None /\ a.scheme \in {"https", "tls", "quic", "udp", "tcp"}

\* The options of a provider are among those its priority allows.
Chosen ==
  options = None \/ (Accepted /\ \A n \in DOMAIN cfg.dns : options[n] \in Choices(cfg, n))

LEMMA ChosenAlways == Spec => []Chosen
<1>1. Init => Chosen
  BY DEF Init, Chosen
<1>2. Chosen /\ [Next]_vars => Chosen'
  <2> SUFFICES ASSUME Chosen, [Next]_vars PROVE Chosen'
    OBVIOUS
  <2>1. CASE LoadConfig
    BY <2>1 DEF LoadConfig, Chosen, Accepted
  <2>2. CASE New
    <3>1. cfg' = cfg /\ Accepted
      BY <2>2 DEF New, Accepted
    <3>2. \A n \in DOMAIN cfg.dns : options'[n] \in Choices(cfg, n)
      BY <2>2 DEF New
    <3>3. Accepted' /\ \A n \in DOMAIN cfg'.dns : options'[n] \in Choices(cfg', n)
      BY <3>1, <3>2 DEF Accepted
    <3>4. QED BY <3>3 DEF Chosen
  <2>3. CASE UNCHANGED vars
    <3>1. cfg' = cfg /\ options' = options
      BY <2>3 DEF vars
    <3>2. options # None =>
            Accepted' /\ \A n \in DOMAIN cfg'.dns : options'[n] \in Choices(cfg', n)
      BY <3>1 DEF Chosen, Accepted
    <3>3. QED BY <3>1, <3>2 DEF Chosen
  <2>4. QED BY <2>1, <2>2, <2>3 DEF Next
<1>3. QED BY <1>1, <1>2, PTL DEF Spec

\* The priority of a provider of an accepted file is one of the three.
LEMMA PriorityKnown ==
  ASSUME NEW f \in Files, ~ Refused(f), NEW n
  PROVE  IPPriorityFor(Normal(f), n) \in Priorities
<1>1. /\ Normal(f).ip_priority = Or(f.ip_priority, "ipv4")
      /\ Normal(f).priority_of = f.priority_of
  BY DEF Normal
<1>2. Or(f.ip_priority, "ipv4") \in Priorities
  BY DEF Refused, Or, Priorities
<1>3. \A m \in DOMAIN f.priority_of : f.priority_of[m] \in Priorities
  BY DEF Refused, MapsRefused
<1>4. QED BY <1>1, <1>2, <1>3 DEF IPPriorityFor

\* Of the targets that UpstreamTargetsFor chooses one is at each of the hosts, and
\* none is anywhere else.
LEMMA OneTargetPerHost ==
  ASSUME NEW c, NEW n, NEW T \in UpstreamTargetsFor(c, n)
  PROVE  /\ \A a \in Addresses(c, n) : a.host \in HostNames =>
              Cardinality({t \in T : t.host = a.host}) = 1
         /\ \A t \in T : \E a \in Addresses(c, n) :
              a.host \in HostNames /\ t = TargetFromAddr(a)
<1> DEFINE all == {TargetFromAddr(a) : a \in {b \in Addresses(c, n) : b.host \in HostNames}}
<1>1. T \subseteq all /\ \A t \in all : Cardinality({u \in T : SameTarget(t, u)}) = 1
  BY DEF UpstreamTargetsFor
<1>2. ASSUME NEW a \in Addresses(c, n), a.host \in HostNames
      PROVE  Cardinality({t \in T : t.host = a.host}) = 1
  <2>1. TargetFromAddr(a) \in all /\ TargetFromAddr(a).host = a.host
    BY <1>2 DEF TargetFromAddr
  <2>2. {u \in T : SameTarget(TargetFromAddr(a), u)} = {t \in T : t.host = a.host}
    BY <2>1 DEF SameTarget
  <2>3. QED BY <1>1, <2>1, <2>2
<1>3. QED BY <1>1, <1>2

\* With latency every host of a provider that has a name is measured, once, at a
\* port at which the provider is asked, and nothing else is; whichever of several
\* ports of a host the order of Go's map picks (config.go:563-577, 587-629).
THEOREM HostsAreMeasured ==
  ASSUME Dialable
  PROVE  Spec => []TargetsCover
<1>1. FromFile /\ Chosen => TargetsCover
  <2> SUFFICES ASSUME FromFile, Chosen, options # None, NEW n \in DOMAIN cfg.dns
               PROVE  LET probed == options[n].probed
                          named == {a \in Addresses(cfg, n) : a.host \in HostNames}
                      IN  IF IPPriorityFor(cfg, n) # "latency" THEN probed = {}
                          ELSE /\ \A mode \in ModeOrder \cap DOMAIN cfg.dns[n] :
                                    cfg.dns[n][mode] \in named =>
                                      Cardinality({t \in probed : t.host = cfg.dns[n][mode].host}) = 1
                               /\ \A t \in probed : \E a \in named :
                                    /\ a.host = t.host
                                    /\ t.port = IF a.port = None THEN DialledPort(a.scheme) ELSE a.port
    BY DEF TargetsCover
  <2> DEFINE probed == options[n].probed
  <2>1. file \in Files /\ cfg = Normal(file) /\ ~ Refused(file)
    BY DEF FromFile, Chosen, Accepted
  <2>2. options[n] \in Choices(cfg, n) /\ IPPriorityFor(cfg, n) \in Priorities
    BY <2>1, PriorityKnown DEF Chosen
  <2>3. CASE IPPriorityFor(cfg, n) # "latency"
    BY <2>2, <2>3 DEF Choices, Priorities
  <2>4. CASE IPPriorityFor(cfg, n) = "latency"
    <3>1. probed \in UpstreamTargetsFor(cfg, n)
      BY <2>2, <2>4 DEF Choices
    <3>2. /\ \A a \in Addresses(cfg, n) : a.host \in HostNames =>
               Cardinality({t \in probed : t.host = a.host}) = 1
          /\ \A t \in probed : \E a \in Addresses(cfg, n) :
               a.host \in HostNames /\ t = TargetFromAddr(a)
      BY <3>1, OneTargetPerHost
    <3>3. ASSUME NEW a \in Addresses(cfg, n), a.host \in HostNames
          PROVE  TargetFromAddr(a).port
                   = IF a.port = None THEN DialledPort(a.scheme) ELSE a.port
      <4>1. cfg.dns = file.dns
        BY <2>1 DEF Normal
      <4>2. \/ a.port \in PortNumbers \cup {0}
            \/ a.port = None /\ a.scheme \in {"https", "tls", "quic", "udp", "tcp"}
        BY <2>1, <3>3, <4>1 DEF Addresses, Dialable
      <4>3. None \notin PortNumbers \cup {0}
        <5>1. PortNumbers \subseteq Int /\ {0} \subseteq Int
          BY DEF PortNumbers
        <5>2. None \notin Int
          BY NoneAssumption
        <5>3. QED BY <5>1, <5>2
      <4>4. a.scheme \in {"https", "tls", "quic", "udp", "tcp"} =>
              DefaultPortForScheme(a.scheme) = DialledPort(a.scheme)
        BY DEF DefaultPortForScheme, DialledPort
      <4>5. TargetFromAddr(a).port = IF a.port \in PortNumbers \cup {0} THEN a.port
                                     ELSE DefaultPortForScheme(a.scheme)
        BY DEF TargetFromAddr
      <4>6. QED BY <4>2, <4>3, <4>4, <4>5
    <3>4. \A a \in Addresses(cfg, n) : TargetFromAddr(a).host = a.host
      BY DEF TargetFromAddr
    <3>5. \A mode \in DOMAIN cfg.dns[n] : cfg.dns[n][mode] \in Addresses(cfg, n)
      BY DEF Addresses
    <3> DEFINE named == {a \in Addresses(cfg, n) : a.host \in HostNames}
    <3>6. \A mode \in ModeOrder \cap DOMAIN cfg.dns[n] : cfg.dns[n][mode] \in named =>
            Cardinality({t \in probed : t.host = cfg.dns[n][mode].host}) = 1
      BY <3>2, <3>5
    <3>7. ASSUME NEW t \in probed
          PROVE  \E a \in named :
                   /\ a.host = t.host
                   /\ t.port = IF a.port = None THEN DialledPort(a.scheme) ELSE a.port
      <4>1. PICK a \in Addresses(cfg, n) : a.host \in HostNames /\ t = TargetFromAddr(a)
        BY <3>2
      <4>2. a.host = t.host /\ t.port = IF a.port = None THEN DialledPort(a.scheme) ELSE a.port
        BY <3>3, <3>4, <4>1
      <4>3. QED BY <4>1, <4>2
    <3>8. QED BY <2>4, <3>6, <3>7
  <2>5. QED BY <2>3, <2>4
<1>2. QED BY <1>1, FromFileAlways, ChosenAlways, PTL
=============================================================================
