--------------------------- MODULE MCConfiguration ---------------------------
(* Configuration for TLC: one file that is accepted, every file that differs *)
(* from it in one field, and those that differ in two that belong together.  *)
EXTENDS Configuration

Std(x) == [days |-> None, rest |-> x]
Days(n, x) == [days |-> n, rest |-> x]
Address(scheme, host, spelling, port) ==
  [scheme |-> scheme, host |-> host, spelling |-> spelling, port |-> port]
NoNames == [n \in {} |-> None]
Listeners(p, e, port) ==
  [q \in Protocols |-> IF q = p THEN [enabled |-> e, port |-> port]
                       ELSE [enabled |-> FALSE, port |-> None]]
OneLine(a) == [m \in {"DNS-over-TLS"} |-> a]

Base ==
  [listeners |-> Listeners("plain_dns", TRUE, None),
   doh_path |-> None, ecs_mode |-> None, ecs_address |-> None,
   cert_mode |-> None, cert_paths |-> None,
   probe_interval |-> None, probe_timeout |-> None, probe_count |-> None,
   cache_enabled |-> None, cache_size |-> None, cache_ttl |-> None,
   cache_eviction |-> None, cache_stale_max_age |-> None,
   cache_stale_answer_ttl |-> None, bootstrap_cache_ttl |-> None, ttl_min |-> None, ttl_max |-> None,
   bootstrap |-> None, hosts |-> None,
   ip_priority |-> None, priority_of |-> NoNames, ip_latency_interval |-> None,
   upstream_mode |-> None, weights |-> NoNames, race_window |-> None,
   health_http |-> None, fail_threshold |-> 0, breaker_cooldown |-> None,
   dns |-> [n \in {"p1"} |-> OneLine(Address("tls", "h1", "lower", None))]]

\* The days wrap around zero, one and sixty times.
DayTexts == {Days(n, x) : n \in (0 .. 40) \cup (370 .. 400) \cup (1150 .. 1200),
                          x \in {None, Bad, 0, 1, 19 * Second, Width - 1}}
StdTexts == {Std(x) : x \in {- Width, - Second, -1, 0, 1, 10, Second, 30, 60 * Minute,
                             Width - 1, Bad}}
FewTexts == {None, Bad} \cup {Std(x) : x \in {-1, 0, 1, 10, Second, 30, 5 * Second}}

Ports == {None, -1, 0, 1, 53, 65535, 65536}
ListenerFiles ==
  {[Base EXCEPT !.listeners = Listeners(p, e, port), !.doh_path = path,
                !.cert_paths = paths, !.cert_mode = mode] :
     p \in Protocols, e \in BOOLEAN, port \in Ports,
     path \in {None, "dns-query", "malformed"}, paths \in {None, "given"},
     mode \in {None, "acme", "existing", "other"}}
DurationFiles ==
  {[Base EXCEPT ![d] = t] : d \in {"probe_interval"}, t \in DayTexts} \cup
  {[Base EXCEPT ![d] = t] : d \in DurationFields, t \in StdTexts}
LimitFiles ==
  {[Base EXCEPT !.ttl_min = s, !.ttl_max = t] : s \in FewTexts \ {Bad}, t \in FewTexts \ {Bad}}
BreakerFiles ==
  {[Base EXCEPT !.fail_threshold = i, !.breaker_cooldown = t] :
     i \in {-1, 0, 1, 5}, t \in FewTexts \ {Bad}}
Weights == {-1, 0, 1, 100, 101}
FieldFiles ==
  {[Base EXCEPT !.ecs_mode = x, !.ecs_address = y] :
     x \in {None, "off", "pass", "override", "other"}, y \in {None, "prefix", "malformed"}} \cup
  {[Base EXCEPT !.probe_count = x, !.cache_size = y] :
     x \in {None, -1, 0, 1, 4}, y \in {None, -1, 0, 1024}} \cup
  {[Base EXCEPT !.cache_enabled = x, !.cache_eviction = y] :
     x \in {None, TRUE, FALSE}, y \in {None, "fifo", "lru", "lfu", "other"}} \cup
  {[Base EXCEPT !.bootstrap = x, !.hosts = y, !.health_http = z] :
     x \in {None, "given"}, y \in {None, "given", "malformed"},
     z \in {None, "given", "malformed"}} \cup
  {[Base EXCEPT !.upstream_mode = x, !.weights = [n \in {y} |-> z]] :
     x \in {None, "fastest", "weighted", "other"}, y \in {"", "p1", "p2"}, z \in Weights} \cup
  {[Base EXCEPT !.dns = x] :
     x \in {NoNames, [n \in {""} |-> OneLine(Address("tls", "h1", "lower", None))],
            [n \in {"p1"} |-> NoNames]}}

\* Two providers: one with up to three lines at names or IPs, one with an IP.
MCHostNames == {"h1", "h2"}
Lines ==
  {Address("https", "h1", "lower", None), Address("tls", "h1", "upper", None),
   Address("udp", "h1", "lower", 5353), Address("quic", "h2", "lower", 784),
   Address("tcp", "ip", "lower", None)}
Modes3 == {"DNS-over-HTTPS", "DNS-over-TLS", "Plain DNS"}
ProviderFiles ==
  {[Base EXCEPT !.dns = [n \in {"p1", "p2"} |->
                           IF n = "p1" THEN lines
                           ELSE OneLine(Address("tls", "ip", "lower", 853))],
                !.ip_priority = x,
                !.priority_of = IF y = None THEN NoNames ELSE [n \in {z} |-> y]] :
     lines \in [Modes3 -> Lines], x \in {None, "ipv6", "latency", "other"},
     y \in {None, "ipv4", "latency", "other"}, z \in {"", "p1", "p3"}}

MCFiles == {Base} \cup ListenerFiles \cup DurationFiles \cup LimitFiles
           \cup BreakerFiles \cup FieldFiles \cup ProviderFiles
=============================================================================
