------------------------------- MODULE DataPath -------------------------------
(***************************************************************************)
(* What happens to the packets of one session between the tunnel and the   *)
(* internet: rate limit, firewall, traffic log, address translation and    *)
(* the DNS cache the firewall reads.  The handler thread carries packets   *)
(* out (ClientHandler._handle_data), the gateway thread carries them in    *)
(* (VPNServer._on_internet_packet and deliver), panel threads change the   *)
(* rules.  The quota is in VPNServer, the tables of the translation in     *)
(* ServerNAT, the socket in Delivery.  A packet that cannot be parsed is   *)
(* dropped before the firewall looks at it, and is left out.  The cache is *)
(* one for all sessions, and is fed by what leaves as by what arrives.     *)
(*                                                                         *)
(* Not in the code: told, mustBlock, mayBlock and passed.                  *)
(***************************************************************************)
EXTENDS TokenBucket, FiniteSets, FiniteSetsExt

CONSTANTS
    User,           \* username of the session
    Users,          \* the names a rule may carry
    All,            \* ALL_USERS
    Addresses,      \* IPv4 addresses
    Names,          \* domain names
    Below(_, _),    \* Below(d, r): d.endswith("." + r)
    Sizes,          \* of packets
    MaxEntries,     \* DNSCache._max
    MaxAnswers,     \* bound: addresses in one DNS response
    MaxRules,       \* bound: rules ever added
    MaxUp,          \* bound: packets of the client
    MaxDown,        \* bound: packets to the client, and packets of others that are observed
    MaxTime,        \* bound: units of time
    None

ASSUME DataPathConstants ==
    /\ User \in Users /\ All \in Users /\ User # All
    /\ Sizes \subseteq Nat \ {0} /\ MaxEntries \in Nat \ {0} /\ MaxAnswers \in Nat \ {0}
    /\ {MaxRules, MaxUp, MaxDown, MaxTime} \subseteq Nat
    /\ None \notin Addresses \union Names
    /\ IsFiniteSet(Addresses)

VARIABLES
    rules,      \* firewall_domains and firewall_ips
    lastId,     \* sqlite_sequence of the two tables
    cache,      \* DNSCache._map
    up,         \* the packet of the handler thread
    down,       \* the packet of the gateway thread
    packets,    \* packets so far, each way; MaxDown bounds those of others too
    bucket,
    now,
    stopped,    \* ClientHandler._stop is set
    passed,     \* tokens of all that passed the bucket before the stop
    told,       \* the name a client was last told an address has, while the cache has it
    mustBlock,  \* rules in force for the packet of `up` since it arrived
    mayBlock    \* rules there were at some time since

admin == <<rules, lastId>>
limiter == <<bucket, now, stopped, passed>>
ghosts == <<told, mustBlock, mayBlock>>
vars == <<admin, cache, up, down, packets, limiter, ghosts>>

-----------------------------------------------------------------------------

Tables == {"domain", "ip"}
Targets(table) == IF table = "domain" THEN Names ELSE Addresses
Idle == [pc |-> "idle", dest |-> None, size |-> 0, name |-> None, names |-> {}, blocked |-> FALSE]
Quiet == [pc |-> "idle", size |-> 0, name |-> None, answers |-> {}]

\* Mutant of Concerns: every rule is read.
ConcernsAnyone(rule) == rule.user \in Users

Concerns(rule) == rule.user \in {User, All}

\* Mutant of Covers: subdomains are forgotten.
CoversExactly(rule, name) == name = rule

\* The match of is_blocked.
Covers(rule, name) == name = rule \/ Below(name, rule)

\* By what the client was told.
Forbids(rule, dest) ==
    /\ Concerns(rule)
    /\ \/ rule.table = "ip" /\ rule.target = dest
       \/ /\ rule.table = "domain" /\ told[dest] # None
          /\ told[dest] = rule.target \/ Below(told[dest], rule.target)

-----------------------------------------------------------------------------
\* Panel threads: add_firewall_domain, add_firewall_ip, list_firewall_rules,
\* remove_firewall_rule.

AddRule(table, user, target) ==
    /\ lastId["domain"] + lastId["ip"] < MaxRules
    /\ LET rule == [table |-> table, id |-> lastId[table] + 1, user |-> user, target |-> target]
       IN  /\ rules' = rules \union {rule}
           /\ mayBlock' = IF up.pc # "idle" THEN mayBlock \union {rule} ELSE mayBlock
    /\ lastId' = [lastId EXCEPT ![table] = @ + 1]
    /\ UNCHANGED <<cache, up, down, packets, limiter, told, mustBlock>>

\* By the number that list_firewall_rules showed.
RemoveRule(rule) ==
    /\ rules' = rules \ {rule}
    /\ mustBlock' = mustBlock \ {rule}
    /\ UNCHANGED <<lastId, cache, up, down, packets, limiter, told, mayBlock>>

-----------------------------------------------------------------------------
\* TokenBucket.consume, one turn of its loop, which ends when the session is stopped.  A
\* stop right after the loop has looked is as one after its turn.

Consume(amount) ==
    LET refilled == Refilled(bucket, now)
    IN  /\ ~stopped /\ Passes(refilled, amount)
        /\ bucket' = Spent(refilled, amount)
        /\ passed' = passed + amount
        /\ UNCHANGED <<now, stopped>>

\* The frame goes on without tokens.
GiveUp == stopped /\ UNCHANGED limiter

\* Not enough: the thread sleeps and comes back.
Wait(amount) ==
    /\ ~stopped /\ ~Passes(Refilled(bucket, now), amount)
    /\ bucket' = Refilled(bucket, now)
    /\ UNCHANGED <<admin, cache, up, down, packets, now, stopped, passed, ghosts>>

Waits == \/ up.pc = "limit" /\ Wait(up.size)
         \/ down.pc = "limit" /\ Wait(down.size)

\* After the stop time no longer counts.
Tick ==
    /\ ~stopped /\ now < MaxTime
    /\ now' = now + 1
    /\ UNCHANGED <<admin, cache, up, down, packets, bucket, stopped, passed, ghosts>>

\* ClientHandler.stop, on any thread.
Stop ==
    /\ ~stopped
    /\ stopped' = TRUE
    /\ UNCHANGED <<admin, cache, up, down, packets, bucket, now, passed, ghosts>>

-----------------------------------------------------------------------------
\* The handler thread.

UpGoto(place) == up' = [up EXCEPT !.pc = place]
Forgotten == mustBlock' = {} /\ mayBlock' = {}

\* A whole packet was reassembled and its quota charged.  Nothing is read after a stop.
Upload(dest, size) ==
    /\ up.pc = "idle" /\ ~stopped /\ packets.up < MaxUp
    /\ packets' = [packets EXCEPT !.up = @ + 1]
    /\ up' = [Idle EXCEPT !.pc = "limit", !.dest = dest, !.size = size]
    /\ mustBlock' = {r \in rules : Forbids(r, dest)}
    /\ mayBlock' = rules
    /\ UNCHANGED <<admin, cache, down, limiter, told>>

UpLimit ==
    /\ up.pc = "limit"
    /\ Consume(up.size) \/ GiveUp
    /\ UpGoto("resolve")
    /\ UNCHANGED <<admin, cache, down, packets, ghosts>>

Resolve ==
    /\ up.pc = "resolve"
    /\ up' = [up EXCEPT !.pc = "domains", !.name = cache[up.dest]]
    /\ UNCHANGED <<admin, cache, down, packets, limiter, ghosts>>

\* get_firewall_for_user runs two statements and no transaction.
ReadDomains ==
    /\ up.pc = "domains"
    /\ up' = [up EXCEPT !.pc = "ips",
                        !.names = {r.target : r \in {q \in rules : q.table = "domain" /\ Concerns(q)}}]
    /\ UNCHANGED <<admin, cache, down, packets, limiter, ghosts>>

ReadIPs ==
    /\ up.pc = "ips"
    /\ up' = [up EXCEPT !.pc = "log",
                        !.blocked = \/ \E r \in rules : /\ r.table = "ip" /\ Concerns(r)
                                                        /\ r.target = up.dest
                                    \/ /\ up.name # None
                                       /\ \E r \in up.names : Covers(r, up.name)]
    /\ UNCHANGED <<admin, cache, down, packets, limiter, ghosts>>

LogTraffic ==
    /\ up.pc = "log"
    /\ UpGoto(IF up.blocked THEN "drop" ELSE "translate")
    /\ UNCHANGED <<admin, cache, down, packets, limiter, ghosts>>

\* The firewall drops the packet, or the translation does, or it leaves.
UpEnds ==
    /\ up.pc \in {"drop", "translate"}
    /\ up' = Idle /\ Forgotten
    /\ UNCHANGED <<admin, cache, down, packets, limiter, told>>

-----------------------------------------------------------------------------
\* The gateway thread.

\* A packet for this session was translated back; it may be a DNS response.
Inbound(size, name, answers) ==
    /\ down.pc = "idle" /\ packets.down < MaxDown
    /\ packets' = [packets EXCEPT !.down = @ + 1]
    /\ down' = [pc |-> IF name = None THEN "limit" ELSE "observe",
                size |-> size, name |-> name, answers |-> answers]
    /\ UNCHANGED <<admin, cache, up, limiter, ghosts>>

CacheSize(c) == Cardinality({a \in Addresses : c[a] # None})

\* Mutant of Ingested: the map is cleared when it is over its limit.
IngestedOffByOne(name, answers) ==
    LET kept == IF CacheSize(cache) > MaxEntries THEN [a \in Addresses |-> None] ELSE cache
    IN  [a \in Addresses |-> IF a \in answers THEN name ELSE kept[a]]

\* _ingest
Ingested(name, answers) ==
    LET kept == IF CacheSize(cache) >= MaxEntries THEN [a \in Addresses |-> None] ELSE cache
    IN  [a \in Addresses |-> IF a \in answers THEN name ELSE kept[a]]

\* observe_ip_packet: under the lock of the cache.  What the client was told of an address
\* whose entry is cleared or replaced no longer counts.
Ingest(name, answers) ==
    LET lost(a) == CacheSize(cache) >= MaxEntries \/ (a \in answers /\ told[a] # name)
    IN  /\ cache' = Ingested(name, answers)
        /\ told' = [a \in Addresses |-> IF lost(a) THEN None ELSE told[a]]
        /\ mustBlock' = {r \in mustBlock : r.table = "domain" => ~lost(up.dest)}

Observe ==
    /\ down.pc = "observe"
    /\ Ingest(down.name, down.answers)
    /\ down' = [down EXCEPT !.pc = "limit"]
    /\ UNCHANGED <<admin, up, packets, limiter, mayBlock>>

\* A packet of another session, either way, or one of this session that leaves.
ObserveOther(name, answers) ==
    /\ packets.down < MaxDown
    /\ packets' = [packets EXCEPT !.down = @ + 1]
    /\ Ingest(name, answers)
    /\ UNCHANGED <<admin, up, down, limiter, mayBlock>>

DownLimit ==
    /\ down.pc = "limit"
    /\ Consume(down.size) \/ GiveUp
    /\ down' = [down EXCEPT !.pc = "deliver"]
    /\ UNCHANGED <<admin, cache, up, packets, ghosts>>

Deliver ==
    /\ down.pc = "deliver"
    /\ told' = [a \in Addresses |-> IF a \in down.answers /\ cache[a] = down.name
                                   THEN down.name ELSE told[a]]
    /\ down' = Quiet
    /\ UNCHANGED <<admin, cache, up, packets, limiter, mustBlock, mayBlock>>

-----------------------------------------------------------------------------

Init ==
    /\ rules = {} /\ lastId = [t \in Tables |-> 0]
    /\ cache = [a \in Addresses |-> None] /\ told = cache
    /\ up = Idle /\ down = Quiet /\ packets = [up |-> 0, down |-> 0]
    /\ now = 0 /\ bucket = New(0) /\ stopped = FALSE /\ passed = 0
    /\ mustBlock = {} /\ mayBlock = {}

Panel ==
    \/ \E t \in Tables, u \in Users : \E x \in Targets(t) : AddRule(t, u, x)
    \/ \E r \in rules : RemoveRule(r)

Handler ==
    \/ \E a \in Addresses, n \in Sizes : Upload(a, n)
    \/ UpLimit \/ Resolve \/ ReadDomains \/ ReadIPs \/ LogTraffic \/ UpEnds

\* The addresses of one DNS response.
Answers == UNION {kSubset(k, Addresses) : k \in 1..MaxAnswers}

Gateway ==
    \/ \E n \in Sizes : Inbound(n, None, {})
    \/ \E n \in Sizes, d \in Names, answers \in Answers : Inbound(n, d, answers)
    \/ Observe \/ DownLimit \/ Deliver

Others == \E d \in Names, answers \in Answers : ObserveOther(d, answers)

Next == Panel \/ Handler \/ Gateway \/ Others \/ Waits \/ Tick \/ Stop

Spec == Init /\ [][Next]_vars

-----------------------------------------------------------------------------
\* Properties.

\* Types.
TypeOK ==
    /\ \A r \in rules : r.table \in Tables /\ r.user \in Users /\ r.target \in Targets(r.table)
                        /\ r.id \in 1..lastId[r.table]
    /\ cache \in [Addresses -> Names \union {None}] /\ told \in [Addresses -> Names \union {None}]
    /\ up.dest \in Addresses \union {None} /\ up.names \subseteq Names
    /\ bucket.tokens <= Capacity /\ bucket.last \in 0..now /\ stopped \in BOOLEAN
    /\ mustBlock \subseteq mayBlock

\* A packet does not leave when a rule for its user (or "all") forbade its destination all
\* the time from its arrival on, by address or by the name the client was told the address
\* has, as long as the cache kept that name (VPNServer.is_blocked, _on_internet_packet).
ForbiddenStays == up.pc = "translate" => mustBlock = {}

\* A packet is blocked only if, at some time since it arrived, there was a rule for its user
\* or for all against the address, or against the name the cache had or a parent of it.
BlockedForCause ==
    up.pc = "drop" =>
        \E r \in mayBlock : /\ r.user \in {User, All}
                            /\ \/ r.target = up.dest
                               \/ r.target = up.name \/ Below(up.name, r.target)

\* Whenever a frame within the capacity passes the bucket before the session is stopped, no
\* more has passed since it began, oversized frames included, than one burst and what the
\* time has earned.
RateHolds ==
    [][passed' # passed /\ ~Oversized(passed' - passed)
        => passed' <= Capacity + Rate * now]_vars

\* The DNS cache exceeds its limit at most by one answer that came in below it.
CacheBounded == CacheSize(cache) <= MaxEntries - 1 + MaxAnswers

=============================================================================
