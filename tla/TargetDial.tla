----------------------------- MODULE TargetDial -----------------------------
(***************************************************************************)
(* Which IP addresses the server may reach for a client                    *)
(* (ServerEgressPolicyConfig, maverick-core/src/config.rs), and how it     *)
(* reaches one: resolution, the race of two connects and its deadline      *)
(* (maverick-server/src/relay.rs).  An address is the sequence of its      *)
(* octets: 4 of them for IPv4, 16 for IPv6.                                *)
(***************************************************************************)
EXTENDS Integers, Sequences, FiniteSets, SequencesExt

Zeros(n) == [i \in 1 .. n |-> 0]
Starts(ip, prefix) == SubSeq(ip, 1, Len(prefix)) = prefix
Tail4(ip) == SubSeq(ip, 13, 16)
Inverted(o) == [i \in 1 .. Len(o) |-> 255 - o[i]]

is_ipv4(ip) == Len(ip) = 4

\* Mutant: the Teredo client address is read as it stands, not inverted.
embedded_ipv4_for_egress_Plain(ip) ==
    CASE Starts(ip, Zeros(10) \o <<255, 255>>) -> Tail4(ip)
      [] Starts(ip, Zeros(12)) /\ Tail4(ip) \notin {Zeros(4), <<0, 0, 0, 1>>} -> Tail4(ip)
      [] Starts(ip, <<0, 100, 255, 155>> \o Zeros(8)) -> Tail4(ip)
      [] Starts(ip, <<32, 2>>) -> SubSeq(ip, 3, 6)
      [] Starts(ip, <<32, 1, 0, 0>>) -> Tail4(ip)
      [] OTHER -> ip

\* The IPv4 address an IPv6 address carries: mapped, compatible, NAT64, 6to4 or
\* Teredo (stored inverted); the address itself when it carries none.
embedded_ipv4_for_egress(ip) ==
    CASE Starts(ip, Zeros(10) \o <<255, 255>>) -> Tail4(ip)
      [] Starts(ip, Zeros(12)) /\ Tail4(ip) \notin {Zeros(4), <<0, 0, 0, 1>>} -> Tail4(ip)
      [] Starts(ip, <<0, 100, 255, 155>> \o Zeros(8)) -> Tail4(ip)
      [] Starts(ip, <<32, 2>>) -> SubSeq(ip, 3, 6)
      [] Starts(ip, <<32, 1, 0, 0>>) -> Inverted(Tail4(ip))
      [] OTHER -> ip

canonicalize_egress_ip(ip) == IF is_ipv4(ip) THEN ip ELSE embedded_ipv4_for_egress(ip)

\* The standard library's classes.
is_loopback(ip) == IF is_ipv4(ip) THEN ip[1] = 127 ELSE ip = Zeros(15) \o <<1>>
is_unspecified(ip) == ip = Zeros(Len(ip))
is_multicast(ip) == IF is_ipv4(ip) THEN ip[1] \in 224 .. 239 ELSE ip[1] = 255

is_link_local_ip(ip) ==
    IF is_ipv4(ip) THEN Starts(ip, <<169, 254>>) ELSE ip[1] = 254 /\ ip[2] \in 128 .. 191

is_shared_ipv4(ip) == ip[1] = 100 /\ ip[2] \in 64 .. 127
is_local_use_nat64_ip(ip) == Starts(ip, <<0, 100, 255, 155, 0, 1>>)

is_private_ip(ip) ==
    IF is_ipv4(ip)
    THEN \/ ip[1] = 10 \/ (ip[1] = 172 /\ ip[2] \in 16 .. 31) \/ Starts(ip, <<192, 168>>)
         \/ is_shared_ipv4(ip)
    ELSE ip[1] \in 252 .. 253 \/ is_local_use_nat64_ip(ip)

is_reserved_or_special_ipv4(ip) ==
    \/ ip[1] = 0 \/ ip[1] >= 240
    \/ \E p \in {<<192, 0, 0>>, <<192, 0, 2>>, <<198, 18>>, <<198, 19>>, <<198, 51, 100>>, <<203, 0, 113>>,
                 <<192, 88, 99>>} : Starts(ip, p)

is_reserved_or_special_ip(ip) ==
    IF is_ipv4(ip) THEN is_reserved_or_special_ipv4(ip) ELSE Starts(ip, <<32, 1, 13, 184>>)

\* The first class that holds decides. The first three and the link-local and
\* private classes are disjoint, so the CASE keeps the order of the returns.
allows_ip(p, addr) ==
    LET ip == canonicalize_egress_ip(addr)
    IN  CASE is_loopback(ip) -> p.allow_loopback
          [] is_unspecified(ip) -> p.allow_unspecified
          [] is_multicast(ip) -> p.allow_multicast
          [] is_link_local_ip(ip) -> p.allow_link_local
          [] is_private_ip(ip) -> p.allow_private
          [] OTHER -> ~is_reserved_or_special_ip(ip)

-----------------------------------------------------------------------------
(***************************************************************************)
(* How the server reaches a target (maverick-server/src/relay.rs): resolve *)
(* under a timeout, keep the addresses the egress policy allows, then      *)
(* either connect (one address after the other when they are of one        *)
(* family, racing the two families otherwise) or exchange one UDP          *)
(* datagram. Dials share the counters of the process.                      *)
(***************************************************************************)

CONSTANTS Dials,     \* dials that may run at once
          Kinds,     \* of "tcp", "udp", "dns"
          Answers,   \* what the resolver may say: sequences of addresses
          Policies   \* egress policies

VARIABLES policy, dials, metrics
vars == <<policy, dials, metrics>>

Idle == [at |-> "idle", kind |-> "none", addrs |-> << >>, pending |-> << >>, in_flight |-> {}, errors |-> {},
         launched |-> << >>, result |-> 0, why |-> "none"]
Counters == {"resolution_timeouts", "resolution_failures", "connect_timeouts", "connect_failures",
             "resolution_latency", "connect_latency", "tcp_flows", "dns_queries"}

\* Mutant: a failed connect is counted among the failed resolutions.
record_Swapped(kind) ==
    CASE kind = "ResolutionTimeout" -> {"resolution_timeouts"} [] kind = "ResolutionFailure" -> {"resolution_failures"}
      [] kind = "ConnectTimeout" -> {"resolution_timeouts"} [] kind = "ConnectFailure" -> {"connect_failures"}
      [] OTHER -> {}

\* The counter of each failure kind; a refusal by the policy has none.
record(kind) ==
    CASE kind = "ResolutionTimeout" -> {"resolution_timeouts"} [] kind = "ResolutionFailure" -> {"resolution_failures"}
      [] kind = "ConnectTimeout" -> {"connect_timeouts"} [] kind = "ConnectFailure" -> {"connect_failures"}
      [] OTHER -> {}

Counted(set) == metrics' = [c \in Counters |-> metrics[c] + (IF c \in set THEN 1 ELSE 0)]

Indices(addrs, v4) == SelectSeq([i \in 1 .. Len(addrs) |-> i], LAMBDA i : is_ipv4(addrs[i]) = v4)

\* Mutant: all the addresses of the first family go first.
candidates_Grouped(addrs) ==
    LET first == is_ipv4(addrs[1]) IN Indices(addrs, first) \o Indices(addrs, ~first)

\* The two families interleaved, starting with that of the first address.
candidates(addrs) ==
    LET first == Indices(addrs, is_ipv4(addrs[1]))
        other == Indices(addrs, ~is_ipv4(addrs[1]))
        At(s, i) == IF i <= Len(s) THEN <<s[i]>> ELSE << >>
    IN  FlattenSeq([i \in 1 .. Len(addrs) |-> At(first, i) \o At(other, i)])

Mixed(addrs) == \E i, j \in 1 .. Len(addrs) : is_ipv4(addrs[i]) /\ ~is_ipv4(addrs[j])
Order(addrs) == IF Mixed(addrs) THEN candidates(addrs) ELSE [i \in 1 .. Len(addrs) |-> i]
Launch(r) == [r EXCEPT !.pending = Tail(@), !.in_flight = @ \cup {Head(r.pending)},
                       !.launched = Append(@, Head(r.pending))]

Ended(r, at, why) == [r EXCEPT !.at = at, !.why = why, !.in_flight = {}]
Dialing(r) == r.at = "connect"
Counting(r) == r.kind = "tcp"

Init ==
    /\ policy \in Policies
    /\ dials = [d \in Dials |-> Idle]
    /\ metrics = [c \in Counters |-> 0]

\* A DNS query is counted before anything else, and refused without a dns section.
Start(d) ==
    /\ dials[d].at = "idle"
    /\ \E k \in Kinds :
          /\ \/ dials' = [dials EXCEPT ![d] = [Idle EXCEPT !.at = "resolve", !.kind = k]]
             \/ k = "dns" /\ dials' = [dials EXCEPT ![d] = Ended([Idle EXCEPT !.kind = k], "failed", "NoDns")]
          /\ Counted(IF k = "dns" THEN {"dns_queries"} ELSE {})
    /\ UNCHANGED policy

Fail(d, why) ==
    /\ dials' = [dials EXCEPT ![d] = Ended(@, "failed", why)]
    /\ Counted(IF Counting(dials[d]) THEN record(why) ELSE {})

resolve_allowed_addresses(p, answer) == SelectSeq(answer, LAMBDA ip : allows_ip(p, ip))

Resolved(d) ==
    /\ dials[d].at = "resolve"
    /\ \E answer \in Answers : \E allowed \in {resolve_allowed_addresses(policy, answer)} :
          IF answer = << >> THEN Fail(d, "ResolutionFailure")
          ELSE IF allowed = << >> THEN Fail(d, "EgressPolicyRejected")
          ELSE IF Counting(dials[d])
          THEN /\ dials' = [dials EXCEPT ![d] =
                      Launch([@ EXCEPT !.at = "connect", !.addrs = allowed, !.pending = Order(allowed)])]
               /\ Counted({"resolution_latency"})
          ELSE /\ dials' = [dials EXCEPT ![d] =
                      Launch([@ EXCEPT !.at = "exchange", !.addrs = allowed, !.pending = <<1>>])]
               /\ Counted({})
    /\ UNCHANGED policy

ResolutionEnds(d) ==
    /\ dials[d].at = "resolve"
    /\ \E why \in {"ResolutionTimeout", "ResolutionFailure"} : Fail(d, why)
    /\ UNCHANGED policy

\* Mutant: the error of the attempt that failed last is reported.
race_error_Latest(r, i) == i

\* All attempts failed: the error of the last address in resolver order, which
\* must be there (0: the expect panics).
race_error(r, i) == IF Len(r.addrs) \in r.errors \cup {i} THEN Len(r.addrs) ELSE 0

\* An attempt completes. A connection ends the dial and drops the others; an
\* error starts the next candidate, or ends the dial when none is left.
AttemptDone(d) ==
    /\ Dialing(dials[d])
    /\ \E i \in dials[d].in_flight : \E ok \in BOOLEAN :
          LET r == dials[d]
              s == [r EXCEPT !.in_flight = @ \ {i}, !.errors = @ \cup {i}]
              err == IF Mixed(r.addrs) THEN race_error(r, i) ELSE i
          IN  IF ok THEN /\ dials' = [dials EXCEPT ![d] = Ended([r EXCEPT !.result = i], "opened", "none")]
                         /\ Counted({"connect_latency", "tcp_flows"})
              ELSE IF s.pending # << >>
              THEN dials' = [dials EXCEPT ![d] = Launch(s)] /\ UNCHANGED metrics
              ELSE IF s.in_flight # {}
              THEN dials' = [dials EXCEPT ![d] = s] /\ UNCHANGED metrics
              ELSE /\ dials' = [dials EXCEPT ![d] = Ended([s EXCEPT !.result = err], "failed", "ConnectFailure")]
                   /\ Counted({"connect_failures"})
    /\ UNCHANGED policy

\* Mutant: the race has no bound.
may_race_Many(r) == Mixed(r.addrs) /\ r.pending # << >>

may_race(r) == Mixed(r.addrs) /\ r.pending # << >> /\ Cardinality(r.in_flight) < 2

\* TARGET_CONNECT_RACE_DELAY passed with one attempt in flight.
RaceDelay(d) ==
    /\ Dialing(dials[d]) /\ may_race(dials[d])
    /\ dials' = [dials EXCEPT ![d] = Launch(@)]
    /\ UNCHANGED <<policy, metrics>>

\* Mutant: only a race runs under the timeout.
ConnectTimesOut_Race(d) ==
    /\ Dialing(dials[d]) /\ Mixed(dials[d].addrs)
    /\ Fail(d, "ConnectTimeout")
    /\ UNCHANGED policy

\* connect_with_timeout drops every attempt.
ConnectTimesOut(d) ==
    /\ Dialing(dials[d])
    /\ Fail(d, "ConnectTimeout")
    /\ UNCHANGED policy

\* relay_udp_packet and relay_dns_query: one datagram out, one back or none in time.
Exchanged(d) ==
    /\ dials[d].at = "exchange"
    /\ \/ dials' = [dials EXCEPT ![d] = Ended([@ EXCEPT !.result = 1], "opened", "none")]
       \/ dials' = [dials EXCEPT ![d] = Ended(@, "failed", "Exchange")]
    /\ UNCHANGED <<policy, metrics>>

Next ==
    \E d \in Dials : \/ Start(d) \/ Resolved(d) \/ ResolutionEnds(d) \/ AttemptDone(d)
                     \/ RaceDelay(d) \/ ConnectTimesOut(d) \/ Exchanged(d)

Spec == Init /\ [][Next]_vars

-----------------------------------------------------------------------------

TypeOK ==
    /\ policy \in Policies
    /\ \A d \in Dials :
          LET r == dials[d] n == Len(r.addrs)
          IN  /\ r.at \in {"idle", "resolve", "connect", "exchange", "opened", "failed"}
              /\ r.in_flight \subseteq 1 .. n /\ r.errors \subseteq 1 .. n /\ r.result \in 0 .. n
              /\ Range(r.launched) \subseteq 1 .. n /\ IsInjective(r.launched) /\ Cardinality(r.in_flight) <= 2
    /\ \A c \in Counters : metrics[c] \in Nat

\* The five ways an IPv6 address carries an IPv4 address.
Carriers(v4) ==
    {Zeros(10) \o <<255, 255>> \o v4, <<0, 100, 255, 155>> \o Zeros(8) \o v4, <<32, 2>> \o v4 \o Zeros(10),
     <<32, 1, 0, 0>> \o Zeros(8) \o Inverted(v4)}
    \cup (IF v4 \in {Zeros(4), <<0, 0, 0, 1>>} THEN {} ELSE {Zeros(12) \o v4})

\* Nothing is dialled that the policy refuses by the name of its IPv4 form:
\* whichever of the answers' IPv4 addresses an attempted address is, or carries
\* in an IPv6 form, the policy admits that IPv4 address.
NoForbiddenTarget ==
    \A d \in Dials : \A i \in Range(dials[d].launched) : \A answer \in Answers : \A j \in 1 .. Len(answer) :
        (is_ipv4(answer[j]) /\ dials[d].addrs[i] \in {answer[j]} \cup Carriers(answer[j]))
            => allows_ip(policy, answer[j])

\* A connect failure is reported only after every allowed address was tried and
\* failed, and the reported error is that of the last one in resolver order,
\* whether the addresses were raced or tried in turn.
FailureIsExhaustive ==
    \A d \in Dials : dials[d].why = "ConnectFailure" =>
        /\ dials[d].errors = 1 .. Len(dials[d].addrs)
        /\ dials[d].result = Len(dials[d].addrs)

\* In a race neither family is tried twice more often than the other while the
\* other still has an address to try, so a dead family delays a dial by one
\* attempt at most.
FamiliesAlternate ==
    \A d \in Dials :
        LET r == dials[d]
            Tried(n, v4) == Cardinality({k \in 1 .. n : is_ipv4(r.addrs[r.launched[k]]) = v4})
        IN  Mixed(r.addrs) => \A n \in 1 .. Len(r.launched) : \A v4 \in BOOLEAN :
                Tried(n, v4) > Tried(n, ~v4) + 1 => Tried(n, ~v4) = Len(Indices(r.addrs, ~v4))

\* The counters account for every TCP dial: resolved ones by latency or failure,
\* connecting ones by latency, failure or timeout. UDP and DNS dials leave no mark.
CountersBalance ==
    LET In(states, whys) == Cardinality({d \in Dials : /\ Counting(dials[d]) /\ dials[d].at \in states
                                                       /\ dials[d].why \in whys})
    IN  /\ metrics["connect_latency"] = In({"opened"}, {"none"})
        /\ metrics["connect_failures"] + metrics["connect_timeouts"]
              = In({"failed"}, {"ConnectFailure", "ConnectTimeout"})
        /\ metrics["resolution_failures"] + metrics["resolution_timeouts"]
              = In({"failed"}, {"ResolutionFailure", "ResolutionTimeout"})
        /\ metrics["resolution_latency"] = metrics["connect_latency"] + metrics["connect_failures"]
              + metrics["connect_timeouts"] + In({"connect"}, {"none"})

\* Every dial that began ends, whatever the resolver and the targets do.
DialEnds == \A d \in Dials : dials[d].at = "resolve" ~> dials[d].at \in {"opened", "failed"}
=============================================================================
