--------------------------- MODULE DataPath_proofs ----------------------------
(***************************************************************************)
(* Theorems about DataPath with their proofs, for every rate, every set of *)
(* packet sizes, users, names and addresses, and any number of packets and *)
(* rules: the rate limit, the firewall and the size of the DNS cache.      *)
(***************************************************************************)
EXTENDS DataPath, FiniteSetTheorems, TLAPS

\* Tokens and passed together are what was there at the start and what was earned up
\* to the last refill; a thread that waits has the size of a packet.
BucketInv ==
    /\ bucket \in [tokens : Int, last : Int]
    /\ now \in Int /\ passed \in Int
    /\ "size" \in DOMAIN up /\ up.size \in Int
    /\ "size" \in DOMAIN down /\ down.size \in Int
    /\ bucket.last <= now
    /\ bucket.tokens + passed <= Capacity + Rate * bucket.last

-----------------------------------------------------------------------------

\* A refill earns at most the rate over the time since the last one, and less when the
\* bucket is full (TokenBucket.consume, the `min`).
LEMMA RefillEarns ==
    ASSUME NEW b \in [tokens : Int, last : Int], NEW t \in Int
    PROVE  /\ Refilled(b, t) \in [tokens : Int, last : Int]
           /\ Refilled(b, t).last = t
           /\ Refilled(b, t).tokens <= b.tokens + Rate * t - Rate * b.last
<1>1. (t - b.last) * Rate = Rate * t - Rate * b.last
  BY BucketConstants
<1>2. (t - b.last) * Rate \in Int
  BY BucketConstants
<1> QED
  BY <1>1, <1>2, BucketConstants DEF Refilled, Capacity

\* What a thread that passes the bucket leaves behind, and how much has passed by then
\* (TokenBucket.consume).
LEMMA ConsumeStep ==
    ASSUME BucketInv, NEW amount \in Int, Consume(amount)
    PROVE  /\ bucket' \in [tokens : Int, last : Int]
           /\ passed' = passed + amount
           /\ bucket'.last = now
           /\ bucket'.tokens + passed' <= Capacity + Rate * now
           /\ ~Oversized(amount) => passed' <= Capacity + Rate * now
<1> DEFINE r == Refilled(bucket, now)
<1>1. /\ r \in [tokens : Int, last : Int] /\ r.last = now
      /\ r.tokens <= bucket.tokens + Rate * now - Rate * bucket.last
  BY RefillEarns DEF BucketInv
<1>2. /\ bucket' = [r EXCEPT !.tokens = @ - amount]
      /\ passed' = passed + amount
      /\ r.tokens >= amount \/ Oversized(amount)
  BY DEF Consume, Passes, Spent
<1> HIDE DEF r
<1>3. bucket'.tokens = r.tokens - amount /\ bucket'.last = now
  BY <1>1, <1>2
<1>4. Rate * now \in Int /\ Rate * bucket.last \in Int /\ Capacity \in Int
  BY BucketConstants DEF BucketInv, Capacity
<1> QED
  BY <1>1, <1>2, <1>3, <1>4 DEF BucketInv

\* Every step keeps the invariant: the two threads that consume, the waits, the clock, and
\* the steps that bring a packet of a new size.
LEMMA BucketInvStep == BucketInv /\ [Next]_vars => BucketInv'
<1> SUFFICES ASSUME BucketInv, [Next]_vars PROVE BucketInv'
  OBVIOUS
<1> USE DEF BucketInv
<1>1. CASE UpLimit
  <2>1. /\ Consume(up.size) \/ UNCHANGED <<bucket, passed>>
        /\ up' = [up EXCEPT !.pc = "resolve"] /\ UNCHANGED <<down, now>>
    BY <1>1 DEF UpLimit, UpGoto, Consume, GiveUp, limiter
  <2>2. CASE Consume(up.size)
    BY <2>1, <2>2, ConsumeStep
  <2>3. CASE UNCHANGED <<bucket, passed>>
    BY <2>1, <2>3 DEF Capacity
  <2> QED
    BY <2>1, <2>2, <2>3
<1>2. CASE DownLimit
  <2>1. /\ Consume(down.size) \/ UNCHANGED <<bucket, passed>>
        /\ down' = [down EXCEPT !.pc = "deliver"] /\ UNCHANGED <<up, now>>
    BY <1>2 DEF DownLimit, Consume, GiveUp, limiter
  <2>2. CASE Consume(down.size)
    BY <2>1, <2>2, ConsumeStep
  <2>3. CASE UNCHANGED <<bucket, passed>>
    BY <2>1, <2>3 DEF Capacity
  <2> QED
    BY <2>1, <2>2, <2>3
<1>3. CASE Waits
  <2>1. bucket' = Refilled(bucket, now) /\ UNCHANGED <<up, down, now, passed>>
    BY <1>3 DEF Waits, Wait
  <2>2. Rate * now \in Int /\ Rate * bucket.last \in Int /\ Capacity \in Int
    BY BucketConstants DEF Capacity
  <2>3. /\ bucket' \in [tokens : Int, last : Int]
        /\ bucket'.last = now
        /\ bucket'.tokens <= bucket.tokens + Rate * now - Rate * bucket.last
    BY <2>1, RefillEarns
  <2>4. bucket'.tokens \in Int /\ bucket.tokens \in Int
    BY <2>3
  <2>5. bucket'.tokens + passed' <= Capacity' + Rate * bucket'.last
    BY <2>1, <2>2, <2>3, <2>4 DEF Capacity
  <2> QED
    BY <2>1, <2>3, <2>5
<1>4. CASE Tick
  BY <1>4 DEF Tick
<1>5. CASE \E a \in Addresses, n \in Sizes : Upload(a, n)
  BY <1>5, DataPathConstants DEF Upload, Idle, limiter
<1>6. ASSUME NEW n \in Sizes, NEW d, NEW answers, Inbound(n, d, answers)
      PROVE  BucketInv'
  BY <1>6, DataPathConstants DEF Inbound, limiter
<1>7. CASE Panel
  BY <1>7 DEF Panel, AddRule, RemoveRule, limiter
<1>8. CASE Resolve \/ ReadDomains \/ ReadIPs \/ LogTraffic
  <2>1. UNCHANGED <<down, bucket, now, passed>>
    BY <1>8 DEF Resolve, ReadDomains, ReadIPs, LogTraffic, limiter
  <2>2. "size" \in DOMAIN up' /\ up'.size = up.size
    <3>1. CASE Resolve
      BY <3>1 DEF Resolve
    <3>2. CASE ReadDomains
      BY <3>2 DEF ReadDomains
    <3>3. CASE ReadIPs
      BY <3>3 DEF ReadIPs
    <3>4. CASE LogTraffic
      BY <3>4 DEF LogTraffic, UpGoto
    <3> QED
      BY <1>8, <3>1, <3>2, <3>3, <3>4
  <2> QED
    BY <2>1, <2>2
<1>9. CASE UpEnds
  BY <1>9 DEF UpEnds, Idle, limiter
<1>10. CASE Observe \/ Deliver
  <2>1. UNCHANGED <<up, bucket, now, passed>>
    BY <1>10 DEF Observe, Deliver, limiter
  <2>2. "size" \in DOMAIN down' /\ down'.size \in Int
    <3>1. CASE Observe
      <4>1. down' = [down EXCEPT !.pc = "limit"]
        BY <3>1 DEF Observe
      <4> QED
        BY <4>1
    <3>2. CASE Deliver
      BY <3>2 DEF Deliver, Quiet
    <3> QED
      BY <1>10, <3>1, <3>2
  <2> QED
    BY <2>1, <2>2
<1>11. CASE Others \/ Stop \/ UNCHANGED vars
  BY <1>11 DEF Others, ObserveOther, Stop, vars, limiter
<1> QED
  BY <1>1, <1>2, <1>3, <1>4, <1>5, <1>6, <1>7, <1>8, <1>9, <1>10, <1>11 DEF Next, Handler, Gateway

\* Only the two limited steps let anything pass, and only against tokens.
LEMMA PassedByLimit ==
    ASSUME [Next]_vars, passed' # passed
    PROVE  \/ UpLimit /\ Consume(up.size)
           \/ DownLimit /\ Consume(down.size)
BY DEF vars, Next, Panel, AddRule, RemoveRule, Handler, Upload, UpLimit, Resolve, ReadDomains,
       ReadIPs, LogTraffic, UpEnds, Gateway, Inbound, Observe, DownLimit, Deliver, Waits, Wait,
       Tick, Others, ObserveOther, Stop, GiveUp, limiter

\* A session's traffic keeps the rate: when a frame within the capacity has passed the
\* bucket, no more has passed in all than one burst and what time has earned, however the
\* two threads take turns and whatever oversized frames went before
\* (TokenBucket.consume).
THEOREM RateKept == Spec => RateHolds
<1>1. Init => BucketInv
  BY BucketConstants DEF Init, BucketInv, Idle, Quiet, New, Capacity
<1>2. BucketInv /\ [Next]_vars =>
        [passed' # passed /\ ~Oversized(passed' - passed) => passed' <= Capacity + Rate * now]_vars
  <2> SUFFICES ASSUME BucketInv, [Next]_vars, passed' # passed, ~Oversized(passed' - passed)
               PROVE  passed' <= Capacity + Rate * now
    OBVIOUS
  <2>1. PICK amount \in Int : Consume(amount)
    <3>1. Consume(up.size) \/ Consume(down.size)
      BY PassedByLimit
    <3> QED
      BY <3>1 DEF BucketInv
  <2>2. passed' - passed = amount
    BY <2>1, ConsumeStep DEF BucketInv
  <2> QED
    BY <2>1, <2>2, ConsumeStep
<1> QED
  BY <1>1, <1>2, BucketInvStep, PTL DEF Spec, RateHolds

-----------------------------------------------------------------------------
\* The firewall.

UpStates == [pc : {"idle", "limit", "resolve", "domains", "ips", "log", "drop", "translate"},
             dest : Addresses \union {None}, size : Nat, name : Names \union {None},
             names : SUBSET Names, blocked : BOOLEAN]

DownStates == [pc : {"idle", "observe", "limit", "deliver"}, size : Nat,
               name : Names \union {None}, answers : SUBSET Addresses]

RulesTyped ==
    /\ lastId \in [Tables -> Nat]
    /\ \A r \in rules : r.table \in Tables /\ r.user \in Users /\ r.target \in Targets(r.table)
                        /\ r.id \in 1..lastId[r.table]

NamesTyped ==
    cache \in [Addresses -> Names \union {None}] /\ told \in [Addresses -> Names \union {None}]

PacketsTyped == up \in UpStates /\ down \in DownStates /\ (up.pc # "idle" => up.dest \in Addresses)

\* A name the client was told is the one the cache has; what it was told of the addresses
\* of a response is forgotten until it is delivered, unless it says the same.
ToldIsCached ==
    /\ \A a \in Addresses : told[a] # None => cache[a] = told[a]
    /\ down.pc \in {"limit", "deliver"} =>
        \A a \in down.answers : told[a] \in {None, down.name}

\* A rule that was in force all the time is still there, still forbids the destination,
\* and is among what the handler thread has read by now.
InForce ==
    /\ \A r \in mustBlock :
        /\ r \in rules /\ Forbids(r, up.dest)
        /\ r.table = "domain" =>
            /\ up.pc \in {"domains", "ips", "log"} => up.name = told[up.dest]
            /\ up.pc \in {"ips", "log"} => r.target \in up.names
    /\ up.pc = "log" /\ mustBlock # {} => up.blocked
    /\ up.pc \in {"idle", "translate"} => mustBlock = {}

\* Why the packet of the handler thread is blocked.
Cause == \E r \in mayBlock :
    r.user \in {User, All} /\ (r.target = up.dest \/ r.target = up.name \/ Below(up.name, r.target))

\* What the handler thread has read of the rules was there at some time since the packet
\* arrived.
WasThere ==
    /\ up.pc # "idle" => rules \subseteq mayBlock
    /\ up.pc \in {"ips", "log"} =>
        \A n \in up.names : \E r \in mayBlock : r.user \in {User, All} /\ r.target = n
    /\ up.pc = "drop" \/ (up.pc = "log" /\ up.blocked) => Cause

TypesInv == RulesTyped /\ NamesTyped /\ PacketsTyped
FirewallInv == TypesInv /\ ToldIsCached /\ InForce /\ WasThere

\* The steps that leave alone what the firewall is about.
LEMMA Elsewhere ==
    ASSUME TypesInv, Waits \/ Tick \/ Stop
    PROVE  UNCHANGED <<rules, lastId, cache, up, down, told, mustBlock, mayBlock>>
BY DEF Waits, Wait, Tick, Stop, admin, ghosts

\* What a step of the handler thread does to its own packet, and what it leaves alone.
LEMMA UpSteps ==
    ASSUME PacketsTyped,
           UpLimit \/ Resolve \/ ReadDomains \/ ReadIPs \/ LogTraffic
    PROVE  /\ UNCHANGED <<rules, lastId, cache, down, told, mustBlock, mayBlock>>
           /\ up'.dest = up.dest /\ up'.size = up.size
           /\ up.pc # "idle" /\ up'.pc # "idle"
<1>1. UNCHANGED <<rules, lastId, cache, down, told, mustBlock, mayBlock>>
  BY DEF UpLimit, Resolve, ReadDomains, ReadIPs, LogTraffic, admin, ghosts
<1>2. CASE UpLimit \/ LogTraffic
  BY <1>1, <1>2 DEF UpLimit, LogTraffic, UpGoto, PacketsTyped, UpStates
<1>3. CASE Resolve
  BY <1>1, <1>3 DEF Resolve, PacketsTyped, UpStates
<1>4. CASE ReadDomains
  BY <1>1, <1>4 DEF ReadDomains, PacketsTyped, UpStates
<1>5. CASE ReadIPs
  BY <1>1, <1>5 DEF ReadIPs, PacketsTyped, UpStates
<1>6. QED
  BY <1>2, <1>3, <1>4, <1>5

\* Each step of the handler thread on its packet.
LEMMA UpTypes ==
    ASSUME TypesInv,
           UpLimit \/ Resolve \/ ReadDomains \/ ReadIPs \/ LogTraffic
    PROVE  up' \in UpStates
<1> USE DEF TypesInv, PacketsTyped
<1>1. CASE UpLimit \/ LogTraffic
  BY <1>1 DEF UpLimit, LogTraffic, UpGoto, UpStates
<1>2. CASE Resolve
  <2>1. cache[up.dest] \in Names \union {None} /\ up' = [up EXCEPT !.pc = "domains", !.name = cache[up.dest]]
    BY <1>2 DEF Resolve, NamesTyped
  <2>2. QED
    BY <2>1 DEF UpStates
<1>3. CASE ReadDomains
  <2> DEFINE names == {r.target : r \in {q \in rules : q.table = "domain" /\ Concerns(q)}}
  <2>1. names \subseteq Names
    BY DEF RulesTyped, Targets
  <2>2. up' = [up EXCEPT !.pc = "ips", !.names = names]
    BY <1>3 DEF ReadDomains
  <2> HIDE DEF names
  <2>3. QED
    BY <2>1, <2>2 DEF UpStates
<1>4. CASE ReadIPs
  <2>1. PICK b \in BOOLEAN : up' = [up EXCEPT !.pc = "log", !.blocked = b]
    BY <1>4 DEF ReadIPs
  <2>2. QED
    BY <2>1 DEF UpStates
<1>5. QED
  BY <1>1, <1>2, <1>3, <1>4

LEMMA AnswersAreAddresses ==
    ASSUME NEW answers \in Answers
    PROVE  answers \in SUBSET Addresses /\ Cardinality(answers) <= MaxAnswers
BY DataPathConstants DEF Answers, kSubset

\* The cache and the told names keep their types when a response is observed.
LEMMA IngestTypes ==
    ASSUME NamesTyped, NEW d \in Names \union {None}, NEW answers, Ingest(d, answers)
    PROVE  NamesTyped'
<1>1. PICK lost : told' = [a \in Addresses |-> IF a \in lost THEN None ELSE told[a]]
  <2> DEFINE lost == {a \in Addresses : CacheSize(cache) >= MaxEntries \/ (a \in answers /\ told[a] # d)}
  <2>1. told' = [a \in Addresses |-> IF a \in lost THEN None ELSE told[a]]
    BY DEF Ingest
  <2>2. QED
    BY <2>1
<1>2. told' \in [Addresses -> Names \union {None}]
  BY <1>1 DEF NamesTyped
<1>3. PICK kept \in [Addresses -> Names \union {None}] :
          cache' = [a \in Addresses |-> IF a \in answers THEN d ELSE kept[a]]
  BY DEF Ingest, Ingested, NamesTyped
<1>4. cache' \in [Addresses -> Names \union {None}]
  BY <1>3
<1>5. QED
  BY <1>2, <1>4 DEF NamesTyped

LEMMA TypesStep == TypesInv /\ [Next]_vars => TypesInv'
<1> SUFFICES ASSUME TypesInv, [Next]_vars PROVE TypesInv'
  OBVIOUS
<1> USE DEF TypesInv
<1>1. ASSUME NEW t \in Tables, NEW u \in Users, NEW x \in Targets(t), AddRule(t, u, x) PROVE TypesInv'
  <2>1. UNCHANGED <<cache, told, up, down>>
    BY <1>1 DEF AddRule, limiter
  <2>2. lastId' = [lastId EXCEPT ![t] = @ + 1] /\ lastId' \in [Tables -> Nat]
    BY <1>1 DEF AddRule, RulesTyped
  <2>3. rules' = rules \union {[table |-> t, id |-> lastId[t] + 1, user |-> u, target |-> x]}
    BY <1>1 DEF AddRule
  <2>4. ASSUME NEW r \in rules'
        PROVE  r.table \in Tables /\ r.user \in Users /\ r.target \in Targets(r.table) /\ r.id \in 1..lastId'[r.table]
    <3>1. CASE r \in rules
      BY <2>2, <3>1 DEF RulesTyped
    <3>2. CASE r = [table |-> t, id |-> lastId[t] + 1, user |-> u, target |-> x]
      BY <2>2, <3>2 DEF RulesTyped
    <3>3. QED
      BY <2>3, <3>1, <3>2
  <2>5. RulesTyped'
    BY <2>2, <2>4 DEF RulesTyped, Targets
  <2>6. QED
    BY <2>1, <2>5 DEF NamesTyped, PacketsTyped
<1>2. ASSUME NEW r \in rules, RemoveRule(r) PROVE TypesInv'
  BY <1>2 DEF RemoveRule, limiter, RulesTyped, Targets, NamesTyped, PacketsTyped
<1>3. CASE Waits \/ Tick \/ Stop
  BY <1>3, Elsewhere DEF RulesTyped, Targets, NamesTyped, PacketsTyped
<1>4. ASSUME NEW a \in Addresses, NEW n \in Sizes, Upload(a, n) PROVE TypesInv'
  <2>1. up' = [pc |-> "limit", dest |-> a, size |-> n, name |-> None, names |-> {}, blocked |-> FALSE]
    BY <1>4 DEF Upload, Idle
  <2>2. up' \in UpStates /\ up'.dest \in Addresses
    BY <2>1, DataPathConstants DEF UpStates
  <2>3. UNCHANGED <<rules, lastId, cache, told, down>>
    BY <1>4 DEF Upload, admin
  <2>4. QED
    BY <2>2, <2>3 DEF RulesTyped, Targets, NamesTyped, PacketsTyped
<1>5. CASE UpLimit \/ Resolve \/ ReadDomains \/ ReadIPs \/ LogTraffic
  BY <1>5, UpSteps, UpTypes DEF RulesTyped, Targets, NamesTyped, PacketsTyped
<1>6. CASE UpEnds
  <2>1. Idle \in UpStates /\ Idle.pc = "idle"
    BY DEF Idle, UpStates
  <2>2. up' = Idle /\ UNCHANGED <<rules, lastId, cache, told, down>>
    BY <1>6 DEF UpEnds, admin
  <2>3. QED
    BY <2>1, <2>2 DEF RulesTyped, Targets, NamesTyped, PacketsTyped
<1>7. ASSUME NEW n \in Sizes, NEW d \in Names \union {None}, NEW answers \in SUBSET Addresses,
             Inbound(n, d, answers)
      PROVE  TypesInv'
  <2>1. down' \in DownStates
    BY <1>7, DataPathConstants DEF Inbound, DownStates
  <2>2. UNCHANGED <<rules, lastId, cache, told, up>>
    BY <1>7 DEF Inbound, admin, ghosts
  <2>3. QED
    BY <2>1, <2>2 DEF RulesTyped, Targets, NamesTyped, PacketsTyped
<1>8. CASE Observe
  <2>1. down' = [down EXCEPT !.pc = "limit"] /\ UNCHANGED <<rules, lastId, up>>
    BY <1>8 DEF Observe, admin
  <2>2. down' \in DownStates /\ down.name \in Names \union {None}
    BY <2>1 DEF PacketsTyped, DownStates
  <2>3. Ingest(down.name, down.answers)
    BY <1>8 DEF Observe
  <2>4. QED
    BY <2>1, <2>2, <2>3, IngestTypes DEF RulesTyped, Targets, PacketsTyped
<1>9. CASE DownLimit
  <2>1. down' = [down EXCEPT !.pc = "deliver"] /\ UNCHANGED <<rules, lastId, cache, told, up>>
    BY <1>9 DEF DownLimit, admin, ghosts
  <2>2. down' \in DownStates
    BY <2>1 DEF PacketsTyped, DownStates
  <2>3. QED
    BY <2>1, <2>2 DEF RulesTyped, Targets, NamesTyped, PacketsTyped
<1>10. CASE Deliver
  <2>1. down' = Quiet /\ UNCHANGED <<rules, lastId, cache, up>>
    BY <1>10 DEF Deliver, admin
  <2>2. down' \in DownStates
    BY <2>1 DEF Quiet, DownStates
  <2>3. told' = [a \in Addresses |-> IF a \in down.answers /\ cache[a] = down.name
                                    THEN down.name ELSE told[a]]
    BY <1>10 DEF Deliver
  <2>4. down.name \in Names \union {None}
    BY DEF PacketsTyped, DownStates
  <2>5. told' \in [Addresses -> Names \union {None}]
    BY <2>3, <2>4 DEF NamesTyped
  <2>6. QED
    BY <2>1, <2>2, <2>5 DEF RulesTyped, Targets, NamesTyped, PacketsTyped
<1>11. CASE UNCHANGED vars
  BY <1>11 DEF vars, admin, ghosts, RulesTyped, Targets, NamesTyped, PacketsTyped
<1>12. ASSUME NEW d \in Names, NEW answers \in Answers, ObserveOther(d, answers) PROVE TypesInv'
  <2>1. Ingest(d, answers) /\ UNCHANGED <<rules, lastId, up, down>>
    BY <1>12 DEF ObserveOther, admin
  <2>2. QED
    BY <2>1, IngestTypes DEF RulesTyped, Targets, PacketsTyped
<1> QED
  BY <1>1, <1>2, <1>3, <1>4, <1>5, <1>6, <1>7, <1>8, <1>9, <1>10, <1>11, <1>12, AnswersAreAddresses
  DEF Next, Panel, Handler, Gateway, Others

\* What observing a response does to the name of one address, in the cache and as told.
LEMMA IngestStep ==
    ASSUME NEW d, NEW answers, Ingest(d, answers), NEW a \in Addresses
    PROVE  LET lost == CacheSize(cache) >= MaxEntries \/ (a \in answers /\ told[a] # d)
           IN  /\ told'[a] = IF lost THEN None ELSE told[a]
               /\ a \in answers => cache'[a] = d
               /\ ~lost /\ a \notin answers => cache'[a] = cache[a]
<1> DEFINE lost(b) == CacheSize(cache) >= MaxEntries \/ (b \in answers /\ told[b] # d)
<1>1. told' = [b \in Addresses |-> IF lost(b) THEN None ELSE told[b]]
  BY DEF Ingest
<1>2. told'[a] = IF lost(a) THEN None ELSE told[a]
  BY <1>1
<1>3. cache' = Ingested(d, answers)
  BY DEF Ingest
<1>4. CASE CacheSize(cache) >= MaxEntries
  BY <1>2, <1>3, <1>4 DEF Ingested
<1>5. CASE ~(CacheSize(cache) >= MaxEntries)
  <2>1. cache' = [b \in Addresses |-> IF b \in answers THEN d ELSE cache[b]]
    BY <1>3, <1>5 DEF Ingested
  <2>2. cache'[a] = IF a \in answers THEN d ELSE cache[a]
    BY <2>1
  <2>3. QED
    BY <1>2, <1>5, <2>2
<1>6. QED
  BY <1>4, <1>5

\* A told name stays or is forgotten, and what stays is what the cache has.
LEMMA IngestTold ==
    ASSUME NEW d, NEW answers, Ingest(d, answers), NEW a \in Addresses,
           told[a] # None => cache[a] = told[a]
    PROVE  /\ told'[a] # None => cache'[a] = told'[a]
           /\ told'[a] \in {None, told[a]}
           /\ a \in answers => told'[a] \in {None, d}
BY IngestStep

LEMMA ToldStep == TypesInv /\ ToldIsCached /\ [Next]_vars => ToldIsCached'
<1> SUFFICES ASSUME TypesInv, ToldIsCached, [Next]_vars PROVE ToldIsCached'
  OBVIOUS
<1> USE DEF ToldIsCached
<1>1. CASE UNCHANGED <<cache, told, down>>
  BY <1>1
<1>2. ASSUME NEW n \in Sizes, NEW d, NEW answers, (d = None /\ answers = {}) \/ d # None, Inbound(n, d, answers)
      PROVE  ToldIsCached'
  BY <1>2 DEF Inbound, ghosts
<1>3. CASE Observe
  <2>1. down' = [down EXCEPT !.pc = "limit"] /\ down'.answers = down.answers /\ down'.name = down.name
    BY <1>3 DEF Observe, TypesInv, PacketsTyped, DownStates
  <2>2. Ingest(down.name, down.answers) /\ down.answers \subseteq Addresses
    BY <1>3 DEF Observe, TypesInv, PacketsTyped, DownStates
  <2>3. ASSUME NEW a \in Addresses PROVE told'[a] # None => cache'[a] = told'[a]
    BY <2>2, IngestTold
  <2>4. ASSUME NEW a \in down.answers PROVE told'[a] \in {None, down.name}
    BY <2>2, IngestTold
  <2>5. QED
    BY <2>1, <2>3, <2>4
<1>4. CASE DownLimit
  <2>1. down' = [down EXCEPT !.pc = "deliver"] /\ UNCHANGED <<cache, told>>
    BY <1>4 DEF DownLimit, ghosts
  <2>2. down.pc = "limit" /\ down'.answers = down.answers /\ down'.name = down.name
    BY <1>4, <2>1 DEF DownLimit, TypesInv, PacketsTyped, DownStates
  <2>3. QED
    BY <2>1, <2>2
<1>5. CASE Deliver
  <2>1. down' = Quiet /\ Quiet.pc = "idle" /\ UNCHANGED cache /\ down.pc = "deliver"
    BY <1>5 DEF Deliver, Quiet
  <2>2. told' = [a \in Addresses |-> IF a \in down.answers /\ cache[a] = down.name
                                    THEN down.name ELSE told[a]]
    BY <1>5 DEF Deliver
  <2>3. ASSUME NEW a \in Addresses, told'[a] # None PROVE cache'[a] = told'[a]
    <3>1. CASE a \in down.answers /\ cache[a] = down.name
      BY <2>1, <2>2, <3>1
    <3>2. CASE ~(a \in down.answers /\ cache[a] = down.name)
      BY <2>1, <2>2, <2>3, <3>2
    <3>3. QED
      BY <3>1, <3>2
  <2>4. QED
    BY <2>1, <2>3
<1>6. CASE Panel \/ Waits \/ Tick \/ Stop \/ UNCHANGED vars
  BY <1>1, <1>6 DEF Panel, AddRule, RemoveRule, Waits, Wait, Tick, Stop, vars, ghosts
<1>7. CASE Handler
  BY <1>1, <1>7 DEF Handler, Upload, UpLimit, Resolve, ReadDomains, ReadIPs, LogTraffic, UpEnds, ghosts
<1>8. CASE Gateway
  <2>1. \A d \in Names : d # None
    BY DataPathConstants
  <2>2. QED
    BY <1>2, <1>3, <1>4, <1>5, <1>8, <2>1 DEF Gateway
<1>9. ASSUME NEW d, NEW answers, ObserveOther(d, answers) PROVE ToldIsCached'
  <2>1. Ingest(d, answers) /\ UNCHANGED down /\ down.answers \subseteq Addresses
    BY <1>9 DEF ObserveOther, TypesInv, PacketsTyped, DownStates
  <2>2. \A a \in Addresses : (told'[a] # None => cache'[a] = told'[a]) /\ told'[a] \in {None, told[a]}
    BY <2>1, IngestTold
  <2>3. QED
    BY <2>1, <2>2
<1> QED
  BY <1>6, <1>7, <1>8, <1>9 DEF Next, Others

\* A rule in force goes on to forbid the destination as long as the told name stays.
LEMMA StillForbids ==
    ASSUME NEW r, NEW a, Forbids(r, a), r.table = "domain" => told'[a] = told[a]
    PROVE  Forbids(r, a)'
<1> SUFFICES Concerns(r) /\ (\/ r.table = "ip" /\ r.target = a
                             \/ /\ r.table = "domain" /\ told'[a] # None
                                /\ told'[a] = r.target \/ Below(told'[a], r.target))
  BY DEF Forbids, Concerns
<1> QED
  BY DEF Forbids

\* Rules in force when nothing of the firewall's or the handler thread's changes but, at
\* most, the names told of addresses without such a rule, and more rules.
LEMMA InForceKept ==
    ASSUME InForce, mustBlock' \subseteq mustBlock, \A r \in mustBlock' : r \in rules',
           UNCHANGED up,
           \A r \in mustBlock' : r.table = "domain" => told'[up.dest] = told[up.dest]
    PROVE  InForce'
<1>1. ASSUME NEW r \in mustBlock'
      PROVE  /\ r \in rules' /\ Forbids(r, up.dest)'
             /\ r.table = "domain" =>
                  /\ up.pc \in {"domains", "ips", "log"} => up.name = told'[up.dest]
                  /\ up.pc \in {"ips", "log"} => r.target \in up.names
  <2>1. r \in mustBlock /\ r \in rules' /\ Forbids(r, up.dest)
    BY DEF InForce
  <2>2. Forbids(r, up.dest)'
    BY <2>1, StillForbids DEF Forbids, Concerns
  <2>3. QED
    BY <2>1, <2>2 DEF InForce
<1>2. QED
  BY <1>1 DEF InForce

LEMMA InForceStep == TypesInv /\ ToldIsCached /\ InForce /\ [Next]_vars => InForce'
<1> SUFFICES ASSUME TypesInv, ToldIsCached, InForce, [Next]_vars PROVE InForce'
  OBVIOUS
<1>1. CASE UNCHANGED <<rules, told, mustBlock, up>>
  BY <1>1, InForceKept DEF InForce
<1>2. ASSUME NEW t \in Tables, NEW u \in Users, NEW x \in Targets(t), AddRule(t, u, x) PROVE InForce'
  <2>1. rules \subseteq rules' /\ UNCHANGED <<told, mustBlock, up>>
    BY <1>2 DEF AddRule
  <2>2. QED
    BY <2>1, InForceKept DEF InForce
<1>3. ASSUME NEW r \in rules, RemoveRule(r) PROVE InForce'
  <2>1. rules' = rules \ {r} /\ mustBlock' = mustBlock \ {r} /\ UNCHANGED <<told, up>>
    BY <1>3 DEF RemoveRule
  <2>2. QED
    BY <2>1, InForceKept DEF InForce
<1>4. ASSUME NEW a \in Addresses, NEW n \in Sizes, Upload(a, n) PROVE InForce'
  <2>1. mustBlock' = {r \in rules : Forbids(r, a)} /\ UNCHANGED <<rules, told>>
    BY <1>4 DEF Upload, admin
  <2>2. up'.dest = a /\ up'.pc = "limit"
    BY <1>4 DEF Upload, Idle
  <2>3. \A r \in mustBlock' : r \in rules /\ Forbids(r, a)
    BY <2>1
  <2>4. \A r \in mustBlock' : Forbids(r, up.dest)'
    BY <2>1, <2>2, <2>3 DEF Forbids, Concerns
  <2>5. QED
    BY <2>1, <2>2, <2>3, <2>4 DEF InForce
<1>5. CASE UpLimit \/ Resolve \/ ReadDomains \/ ReadIPs \/ LogTraffic
  <2>1. /\ UNCHANGED <<rules, told, mustBlock>> /\ up'.dest = up.dest
        /\ up \in UpStates /\ up.dest \in Addresses /\ up.pc # "idle"
    BY <1>5, UpSteps DEF TypesInv, PacketsTyped
  <2>2. ASSUME NEW r \in mustBlock PROVE r \in rules /\ r \in rules' /\ Forbids(r, up.dest) /\ Forbids(r, up.dest)'
    BY <2>1 DEF InForce, Forbids, Concerns
  <2>3. ASSUME NEW r \in mustBlock, r.table = "domain"
        PROVE  told[up.dest] # None /\ cache[up.dest] = told[up.dest]
    BY <2>1, <2>2, <2>3 DEF Forbids, ToldIsCached
  <2>4. CASE UpLimit
    <3>1. up'.pc = "resolve"
      BY <2>1, <2>4 DEF UpLimit, UpGoto, UpStates
    <3>2. QED
      BY <2>1, <2>2, <3>1 DEF InForce
  <2>5. CASE Resolve
    <3>1. up'.pc = "domains" /\ up'.name = cache[up.dest]
      BY <2>1, <2>5 DEF Resolve, UpStates
    <3>2. QED
      BY <2>1, <2>2, <2>3, <3>1 DEF InForce
  <2>6. CASE ReadDomains
    <3> DEFINE names == {r.target : r \in {q \in rules : q.table = "domain" /\ Concerns(q)}}
    <3>1. up'.pc = "ips" /\ up'.name = up.name /\ up'.names = names /\ up.pc = "domains"
      BY <2>1, <2>6 DEF ReadDomains, UpStates
    <3>2. ASSUME NEW r \in mustBlock, r.table = "domain" PROVE r.target \in up'.names
      BY <2>2, <3>1, <3>2 DEF Forbids
    <3> HIDE DEF names
    <3>3. \A r \in mustBlock : r.table = "domain" => up'.name = told[up.dest]
      BY <3>1 DEF InForce
    <3>4. QED
      BY <2>1, <2>2, <3>1, <3>2, <3>3 DEF InForce
  <2>7. CASE ReadIPs
    <3> DEFINE hit == \/ \E r \in rules : r.table = "ip" /\ Concerns(r) /\ r.target = up.dest
                      \/ up.name # None /\ \E n \in up.names : Covers(n, up.name)
    <3>1. up' = [up EXCEPT !.pc = "log", !.blocked = hit] /\ up.pc = "ips"
      BY <2>7 DEF ReadIPs
    <3>2. ASSUME NEW r \in mustBlock PROVE hit
      <4>1. CASE r.table = "ip" /\ r.target = up.dest
        BY <2>2, <4>1 DEF Forbids
      <4>2. CASE r.table = "domain"
        <5>1. up.name = told[up.dest] /\ r.target \in up.names /\ told[up.dest] # None
          BY <2>3, <3>1, <4>2 DEF InForce
        <5>2. Covers(r.target, up.name)
          BY <2>2, <4>2, <5>1 DEF Forbids, Covers
        <5>3. QED
          BY <5>1, <5>2
      <4>3. QED
        BY <2>2, <4>1, <4>2 DEF Forbids
    <3> HIDE DEF hit
    <3>3. mustBlock # {} => hit
      BY <3>2
    <3>4. up'.pc = "log" /\ up'.name = up.name /\ up'.names = up.names
      BY <2>1, <3>1 DEF UpStates
    <3>5. mustBlock # {} => up'.blocked
      BY <2>1, <3>1, <3>3 DEF UpStates
    <3>6. \A r \in mustBlock : r.table = "domain" => up'.name = told[up.dest] /\ r.target \in up'.names
      BY <3>1, <3>4 DEF InForce
    <3>7. QED
      BY <2>1, <2>2, <3>4, <3>5, <3>6 DEF InForce
  <2>8. CASE LogTraffic
    <3>1. up'.pc \in {"drop", "translate"} /\ up.pc = "log" /\ (~up.blocked <=> up'.pc = "translate")
      BY <2>1, <2>8 DEF LogTraffic, UpGoto, UpStates
    <3>2. up'.pc = "translate" => mustBlock = {}
      BY <3>1 DEF InForce
    <3>3. QED
      BY <2>1, <2>2, <3>1, <3>2 DEF InForce
  <2>9. QED
    BY <1>5, <2>4, <2>5, <2>6, <2>7, <2>8
<1>6. CASE UpEnds
  BY <1>6 DEF UpEnds, Idle, Forgotten, InForce
<1>7. ASSUME NEW d, NEW answers, Ingest(d, answers), UNCHANGED <<rules, up>> PROVE InForce'
  <2> DEFINE lost(a) == CacheSize(cache) >= MaxEntries \/ (a \in answers /\ told[a] # d)
  <2>1. mustBlock' = {r \in mustBlock : r.table = "domain" => ~lost(up.dest)}
    BY <1>7 DEF Ingest
  <2>2. ASSUME NEW r \in mustBlock', r.table = "domain" PROVE told'[up.dest] = told[up.dest]
    <3>1. up.dest \in Addresses /\ ~lost(up.dest)
      BY <2>1, <2>2 DEF InForce, TypesInv, PacketsTyped
    <3>2. QED
      BY <1>7, <3>1, IngestStep
  <2>3. mustBlock' \subseteq mustBlock
    BY <2>1
  <2> HIDE DEF lost
  <2>4. QED
    BY <1>7, <2>2, <2>3, InForceKept DEF InForce
<1>8. CASE Deliver
  <2>1. UNCHANGED <<rules, mustBlock, up>> /\ down.pc = "deliver"
    BY <1>8 DEF Deliver, admin
  <2>2. told' = [a \in Addresses |-> IF a \in down.answers /\ cache[a] = down.name
                                    THEN down.name ELSE told[a]]
    BY <1>8 DEF Deliver
  <2>3. ASSUME NEW r \in mustBlock, r.table = "domain" PROVE told'[up.dest] = told[up.dest]
    <3>1. up.dest \in Addresses
      BY DEF InForce, TypesInv, PacketsTyped
    <3>2. told[up.dest] # None
      BY <2>3 DEF InForce, Forbids
    <3>3. up.dest \in down.answers => told[up.dest] = down.name
      BY <2>1, <3>2 DEF ToldIsCached
    <3>4. QED
      BY <2>2, <3>1, <3>3
  <2>4. QED
    BY <2>1, <2>3, InForceKept DEF InForce
<1>9. CASE Waits \/ Tick \/ Stop \/ DownLimit \/ UNCHANGED vars
  BY <1>1, <1>9 DEF Waits, Wait, Tick, Stop, DownLimit, vars, admin, ghosts
<1>10. ASSUME NEW n, NEW d, NEW answers, Inbound(n, d, answers) PROVE InForce'
  BY <1>1, <1>10 DEF Inbound, admin, ghosts
<1>11. CASE Observe \/ Others
  BY <1>7, <1>11 DEF Observe, Others, ObserveOther, admin
<1> QED
  BY <1>2, <1>3, <1>4, <1>5, <1>6, <1>8, <1>9, <1>10, <1>11 DEF Next, Panel, Handler, Gateway

LEMMA WasThereStep == TypesInv /\ WasThere /\ [Next]_vars => WasThere'
<1> SUFFICES ASSUME TypesInv, WasThere, [Next]_vars PROVE WasThere'
  OBVIOUS
\* More rules that were there, and fewer that are.
<1>1. ASSUME mayBlock \subseteq mayBlock', UNCHANGED up, up.pc # "idle" => rules' \subseteq mayBlock'
      PROVE  WasThere'
  BY <1>1 DEF WasThere, Cause
<1>2. CASE UNCHANGED <<rules, mayBlock, up>>
  BY <1>1, <1>2 DEF WasThere
<1>3. ASSUME NEW t \in Tables, NEW u \in Users, NEW x \in Targets(t), AddRule(t, u, x) PROVE WasThere'
  <2>1. mayBlock \subseteq mayBlock' /\ UNCHANGED up /\ (up.pc # "idle" => rules' \subseteq mayBlock')
    BY <1>3 DEF AddRule, WasThere
  <2>2. QED
    BY <1>1, <2>1
<1>4. ASSUME NEW r \in rules, RemoveRule(r) PROVE WasThere'
  BY <1>1, <1>4 DEF RemoveRule, WasThere
<1>5. ASSUME NEW a \in Addresses, NEW n \in Sizes, Upload(a, n) PROVE WasThere'
  BY <1>5 DEF Upload, Idle, admin, WasThere
<1>6. CASE UpLimit \/ Resolve \/ ReadDomains \/ ReadIPs \/ LogTraffic
  <2>1. /\ UNCHANGED <<rules, mayBlock>> /\ up'.dest = up.dest
        /\ up \in UpStates /\ up.dest \in Addresses /\ rules \subseteq mayBlock
    BY <1>6, UpSteps DEF TypesInv, PacketsTyped, WasThere
  <2>2. CASE UpLimit
    <3>1. up'.pc = "resolve"
      BY <2>1, <2>2 DEF UpLimit, UpGoto, UpStates
    <3>2. QED
      BY <2>1, <3>1 DEF WasThere
  <2>3. CASE Resolve
    <3>1. up'.pc = "domains"
      BY <2>1, <2>3 DEF Resolve, UpStates
    <3>2. QED
      BY <2>1, <3>1 DEF WasThere
  <2>4. CASE ReadDomains
    <3> DEFINE names == {r.target : r \in {q \in rules : q.table = "domain" /\ Concerns(q)}}
    <3>1. up'.pc = "ips" /\ up'.names = names
      BY <2>1, <2>4 DEF ReadDomains, UpStates
    <3>2. \A n \in names : \E r \in mayBlock : r.user \in {User, All} /\ r.target = n
      BY <2>1 DEF Concerns
    <3> HIDE DEF names
    <3>3. QED
      BY <2>1, <3>1, <3>2 DEF WasThere
  <2>5. CASE ReadIPs
    <3> DEFINE hit == \/ \E r \in rules : r.table = "ip" /\ Concerns(r) /\ r.target = up.dest
                      \/ up.name # None /\ \E n \in up.names : Covers(n, up.name)
    <3>1. up' = [up EXCEPT !.pc = "log", !.blocked = hit] /\ up.pc = "ips"
      BY <2>5 DEF ReadIPs
    <3>2. hit => Cause
      <4>1. ASSUME NEW r \in rules, Concerns(r), r.target = up.dest PROVE Cause
        BY <2>1, <4>1 DEF Cause, Concerns
      <4>2. ASSUME NEW n \in up.names, Covers(n, up.name) PROVE Cause
        <5>1. PICK r \in mayBlock : r.user \in {User, All} /\ r.target = n
          BY <3>1 DEF WasThere
        <5>2. QED
          BY <4>2, <5>1 DEF Cause, Covers
      <4>3. QED
        BY <4>1, <4>2
    <3> HIDE DEF hit
    <3>3. up'.pc = "log" /\ up'.name = up.name /\ up'.names = up.names
      BY <2>1, <3>1 DEF UpStates
    <3>4. up'.blocked => Cause
      BY <2>1, <3>1, <3>2 DEF UpStates
    <3>5. Cause => Cause'
      BY <2>1, <3>3 DEF Cause
    <3>6. \A n \in up.names : \E r \in mayBlock : r.user \in {User, All} /\ r.target = n
      BY <3>1 DEF WasThere
    <3>7. QED
      BY <2>1, <3>3, <3>4, <3>5, <3>6 DEF WasThere
  <2>6. CASE LogTraffic
    <3>1. /\ up' = [up EXCEPT !.pc = IF up.blocked THEN "drop" ELSE "translate"] /\ up.pc = "log"
      BY <2>6 DEF LogTraffic, UpGoto
    <3>2. up'.pc \in {"drop", "translate"} /\ up'.name = up.name /\ (up'.pc = "drop" => up.blocked)
      BY <2>1, <3>1 DEF UpStates
    <3>3. up'.pc = "drop" => Cause'
      BY <2>1, <3>1, <3>2 DEF WasThere, Cause
    <3>4. QED
      BY <2>1, <3>2, <3>3 DEF WasThere
  <2>7. QED
    BY <1>6, <2>2, <2>3, <2>4, <2>5, <2>6
<1>7. CASE UpEnds
  BY <1>7 DEF UpEnds, Idle, WasThere
<1>8. CASE Waits \/ Tick \/ Stop \/ Observe \/ Others \/ DownLimit \/ Deliver \/ UNCHANGED vars
  BY <1>2, <1>8 DEF Waits, Wait, Tick, Stop, Observe, Others, ObserveOther, DownLimit, Deliver, vars,
                    admin, ghosts
<1>9. ASSUME NEW n, NEW d, NEW answers, Inbound(n, d, answers) PROVE WasThere'
  BY <1>2, <1>9 DEF Inbound, admin, ghosts
<1> QED
  BY <1>3, <1>4, <1>5, <1>6, <1>7, <1>8, <1>9 DEF Next, Panel, Handler, Gateway

LEMMA FirewallInit == Init => FirewallInv
<1> SUFFICES ASSUME Init PROVE FirewallInv
  OBVIOUS
<1>1. TypesInv
  BY DEF Init, TypesInv, RulesTyped, NamesTyped, PacketsTyped, Idle, Quiet, UpStates, DownStates
<1>2. ToldIsCached /\ InForce /\ WasThere
  BY DEF Init, ToldIsCached, InForce, WasThere, Idle, Quiet
<1>3. QED
  BY <1>1, <1>2 DEF FirewallInv

\* The invariant of the firewall holds in every reachable state.
THEOREM FirewallInvariant == Spec => []FirewallInv
<1>1. FirewallInv /\ [Next]_vars => FirewallInv'
  BY TypesStep, ToldStep, InForceStep, WasThereStep DEF FirewallInv
<1>2. QED
  BY <1>1, FirewallInit, PTL DEF Spec

\* A packet does not leave when a rule forbade its destination from its arrival on, by
\* address or by the name the client was told (VPNServer.is_blocked), however panels,
\* the gateway thread and the clearing of the cache come between the four steps that decide.
THEOREM ForbiddenNeverLeaves == Spec => []ForbiddenStays
<1>1. FirewallInv => ForbiddenStays
  BY DEF FirewallInv, InForce, ForbiddenStays
<1>2. QED
  BY <1>1, FirewallInvariant, PTL

\* A packet is blocked for a rule there was at some time since it arrived
\* (VPNServer.is_blocked, Database.get_firewall_for_user).
THEOREM BlocksHaveCause == Spec => []BlockedForCause
<1>1. FirewallInv => BlockedForCause
  BY DEF FirewallInv, WasThere, Cause, BlockedForCause
<1>2. QED
  BY <1>1, FirewallInvariant, PTL

-----------------------------------------------------------------------------
\* Types, with the bucket.

TokensInv == bucket.tokens <= Capacity /\ bucket.last \in 0..now /\ now \in Nat

StopTyped == stopped \in BOOLEAN

LEMMA TokensStep == BucketInv /\ TypesInv /\ TokensInv /\ [Next]_vars => TokensInv'
<1> SUFFICES ASSUME BucketInv, TypesInv, TokensInv, [Next]_vars PROVE TokensInv'
  OBVIOUS
<1>0. up.size \in Nat /\ down.size \in Nat /\ Capacity \in Nat
  BY BucketConstants DEF TypesInv, PacketsTyped, UpStates, DownStates, Capacity
<1>1. Refilled(bucket, now).tokens <= Capacity /\ Refilled(bucket, now).last = now
      /\ Refilled(bucket, now) \in [tokens : Int, last : Int]
  <2>1. (now - bucket.last) * Rate \in Int
    BY BucketConstants DEF BucketInv
  <2>2. QED
    BY <1>0, <2>1 DEF Refilled, BucketInv
<1>2. ASSUME NEW n \in Nat, Consume(n) PROVE TokensInv'
  <2> DEFINE r == Refilled(bucket, now)
  <2>1. bucket' = [r EXCEPT !.tokens = @ - n] /\ UNCHANGED now
    BY <1>2 DEF Consume, Spent
  <2> HIDE DEF r
  <2>2. r.tokens <= Capacity /\ r.last = now /\ r \in [tokens : Int, last : Int]
    BY <1>1 DEF r
  <2>3. bucket'.tokens = r.tokens - n /\ bucket'.last = now
    BY <2>1, <2>2
  <2>4. QED
    BY <1>0, <2>1, <2>2, <2>3 DEF TokensInv, Capacity
<1>3. CASE UpLimit \/ DownLimit
  <2>1. Consume(up.size) \/ Consume(down.size) \/ UNCHANGED <<bucket, now>>
    BY <1>3 DEF UpLimit, DownLimit, GiveUp, limiter
  <2>2. QED
    BY <1>0, <1>2, <2>1 DEF TokensInv, Capacity
<1>4. CASE Waits
  <2>1. bucket' = Refilled(bucket, now) /\ UNCHANGED now
    BY <1>4 DEF Waits, Wait
  <2>2. QED
    BY <1>1, <2>1 DEF TokensInv, Capacity
<1>5. CASE Tick
  BY <1>5 DEF Tick, TokensInv, Capacity
<1>6. CASE UNCHANGED <<bucket, now>>
  BY <1>6 DEF TokensInv, Capacity
<1>7. CASE Panel \/ Others \/ Stop \/ UNCHANGED vars
  BY <1>6, <1>7 DEF Panel, AddRule, RemoveRule, Others, ObserveOther, Stop, vars, limiter
<1>8. CASE Handler
  BY <1>3, <1>6, <1>8 DEF Handler, Upload, Resolve, ReadDomains, ReadIPs, LogTraffic, UpEnds, limiter
<1>9. CASE Gateway
  BY <1>3, <1>6, <1>9 DEF Gateway, Inbound, Observe, Deliver, limiter
<1> QED
  BY <1>4, <1>5, <1>7, <1>8, <1>9 DEF Next

LEMMA StopStep == StopTyped /\ [Next]_vars => StopTyped'
BY DEF StopTyped, Next, Panel, AddRule, RemoveRule, Handler, Upload, UpLimit, Resolve, ReadDomains,
       ReadIPs, LogTraffic, UpEnds, Gateway, Inbound, Observe, DownLimit, Deliver, Waits, Wait,
       Tick, Others, ObserveOther, Stop, Consume, GiveUp, limiter, vars

\* Every variable has its type, and the rules in force are among those there were.
THEOREM TypeCorrect == Spec => []TypeOK
<1>1. Init => BucketInv /\ TokensInv
  BY BucketConstants DEF Init, BucketInv, TokensInv, Idle, Quiet, New, Capacity
<1>2. FirewallInv => mustBlock \subseteq mayBlock
  <2> SUFFICES ASSUME FirewallInv PROVE mustBlock \subseteq mayBlock
    OBVIOUS
  <2>1. up.pc = "idle" => mustBlock = {}
    BY DEF FirewallInv, InForce
  <2>2. mustBlock \subseteq rules /\ (up.pc # "idle" => rules \subseteq mayBlock)
    BY DEF FirewallInv, InForce, WasThere
  <2>3. QED
    BY <2>1, <2>2
<1>3. FirewallInv /\ TokensInv /\ StopTyped => TypeOK
  BY <1>2 DEF FirewallInv, TypesInv, RulesTyped, NamesTyped, PacketsTyped, UpStates, TokensInv,
              StopTyped, TypeOK
<1>4. BucketInv /\ FirewallInv /\ TokensInv /\ [Next]_vars => BucketInv' /\ TokensInv'
  BY BucketInvStep, TokensStep DEF FirewallInv
<1>5. Init => StopTyped
  BY DEF Init, StopTyped
<1>6. StopTyped /\ [Next]_vars => StopTyped'
  BY StopStep
<1>7. QED
  BY <1>1, <1>3, <1>4, <1>5, <1>6, FirewallInvariant, PTL DEF Spec

-----------------------------------------------------------------------------
\* The DNS cache.

Cached(c) == {a \in Addresses : c[a] # None}

AnswersBounded == Cardinality(down.answers) <= MaxAnswers

CacheInv == AnswersBounded /\ CacheBounded

\* Every set of addresses is finite, and so is its number.
LEMMA SomeAddresses ==
    ASSUME NEW S \in SUBSET Addresses
    PROVE  IsFiniteSet(S) /\ Cardinality(S) \in Nat
<1>1. IsFiniteSet(S)
  BY DataPathConstants, FS_Subset
<1>2. QED
  BY <1>1, FS_CardinalityType

\* What a response adds to the entries that are kept (DNSCache._ingest).
LEMMA IngestedSize ==
    ASSUME TypesInv, NEW d \in Names \union {None}, NEW answers \in SUBSET Addresses,
           Cardinality(answers) <= MaxAnswers, Ingest(d, answers)
    PROVE  CacheBounded'
<1> DEFINE old == Cached(cache)
           new == Cached(cache')
           more == answers
<1>1. old \in SUBSET Addresses /\ new \in SUBSET Addresses /\ more \in SUBSET Addresses
  BY DEF Cached
<1>2. Cardinality(old) \in Nat /\ Cardinality(new) \in Nat /\ Cardinality(more) \in Nat
  BY <1>1, SomeAddresses
<1>3. CacheSize(cache) = Cardinality(old) /\ CacheSize(cache') = Cardinality(new)
  BY DEF CacheSize, Cached
<1>4. cache' = Ingested(d, more)
  BY DEF Ingest
<1>5. Cardinality(more) <= MaxAnswers /\ MaxEntries \in Nat \ {0} /\ MaxAnswers \in Nat
  BY DataPathConstants
<1>6. CASE CacheSize(cache) >= MaxEntries
  <2>1. cache' = [a \in Addresses |-> IF a \in more THEN d ELSE [b \in Addresses |-> None][a]]
    BY <1>4, <1>6 DEF Ingested
  <2>2. new \subseteq more
    BY <2>1 DEF Cached
  <2>3. Cardinality(new) <= Cardinality(more)
    BY <1>1, <2>2, SomeAddresses, FS_Subset
  <2> HIDE DEF new, more
  <2>4. QED
    BY <1>2, <1>3, <1>5, <2>3 DEF CacheBounded
<1>7. CASE ~(CacheSize(cache) >= MaxEntries)
  <2>1. cache' = [a \in Addresses |-> IF a \in more THEN d ELSE cache[a]]
    BY <1>4, <1>7 DEF Ingested
  <2>2. new \subseteq old \union more
    BY <2>1 DEF Cached
  <2>3. old \union more \in SUBSET Addresses /\ old \cap more \in SUBSET Addresses
    BY <1>1
  <2>4. Cardinality(old \union more) = Cardinality(old) + Cardinality(more) - Cardinality(old \cap more)
    BY <1>1, SomeAddresses, FS_Union
  <2>5. Cardinality(old \union more) \in Nat /\ Cardinality(old \cap more) \in Nat
    BY <2>3, SomeAddresses
  <2>6. Cardinality(new) <= Cardinality(old \union more)
    BY <2>2, <2>3, SomeAddresses, FS_Subset
  <2> HIDE DEF old, new, more
  <2>7. QED
    BY <1>2, <1>3, <1>5, <1>7, <2>4, <2>5, <2>6 DEF CacheBounded
<1>8. QED
  BY <1>6, <1>7

LEMMA CacheStep == TypesInv /\ CacheInv /\ [Next]_vars => CacheInv'
<1> SUFFICES ASSUME TypesInv, CacheInv, [Next]_vars PROVE CacheInv'
  OBVIOUS
<1>1. CASE UNCHANGED cache /\ UNCHANGED down
  BY <1>1 DEF CacheInv, AnswersBounded, CacheBounded, CacheSize
<1>2. ASSUME UNCHANGED cache, Cardinality(down'.answers) <= MaxAnswers PROVE CacheInv'
  BY <1>2 DEF CacheInv, AnswersBounded, CacheBounded, CacheSize
<1>3. Cardinality({}) <= MaxAnswers
  BY FS_EmptySet, DataPathConstants
<1>4. ASSUME NEW n \in Sizes, Inbound(n, None, {}) PROVE CacheInv'
  BY <1>2, <1>3, <1>4 DEF Inbound
<1>5. ASSUME NEW n \in Sizes, NEW d \in Names, NEW answers \in Answers, Inbound(n, d, answers)
      PROVE  CacheInv'
  <2>1. UNCHANGED cache /\ down'.answers = answers
    BY <1>5 DEF Inbound
  <2>2. QED
    BY <1>2, <2>1, AnswersAreAddresses
<1>6. CASE Observe
  <2>1. down'.answers = down.answers /\ Ingest(down.name, down.answers)
    BY <1>6 DEF Observe, TypesInv, PacketsTyped, DownStates
  <2>2. down.name \in Names \union {None} /\ down.answers \in SUBSET Addresses
    BY DEF TypesInv, PacketsTyped, DownStates
  <2>3. QED
    BY <2>1, <2>2, IngestedSize DEF CacheInv, AnswersBounded
<1>7. CASE DownLimit
  <2>1. down'.answers = down.answers /\ UNCHANGED cache
    BY <1>7 DEF DownLimit, TypesInv, PacketsTyped, DownStates
  <2>2. QED
    BY <1>2, <2>1 DEF CacheInv, AnswersBounded
<1>8. CASE Deliver
  BY <1>2, <1>3, <1>8 DEF Deliver, Quiet
<1>9. CASE Panel \/ Waits \/ Tick \/ Stop \/ UNCHANGED vars
  BY <1>1, <1>9 DEF Panel, AddRule, RemoveRule, Waits, Wait, Tick, Stop, vars
<1>10. CASE Handler
  BY <1>1, <1>10 DEF Handler, Upload, UpLimit, Resolve, ReadDomains, ReadIPs, LogTraffic, UpEnds
<1>11. ASSUME NEW d \in Names, NEW answers \in Answers, ObserveOther(d, answers) PROVE CacheInv'
  <2>1. Ingest(d, answers) /\ UNCHANGED down
    BY <1>11 DEF ObserveOther
  <2>2. QED
    BY <2>1, AnswersAreAddresses, IngestedSize DEF CacheInv, AnswersBounded
<1> QED
  BY <1>4, <1>5, <1>6, <1>7, <1>8, <1>9, <1>10, <1>11 DEF Next, Gateway, Others

\* The cache exceeds its limit by no more than what one response can bring, for every
\* limit and every number of responses (DNSCache._ingest).
THEOREM CacheStaysBounded == Spec => []CacheBounded
<1>1. Init => CacheInv
  <2> SUFFICES ASSUME Init PROVE CacheInv
    OBVIOUS
  <2>1. Cardinality({}) = 0
    BY FS_EmptySet
  <2>2. {a \in Addresses : cache[a] # None} = {} /\ down.answers = {}
    BY DEF Init, Quiet
  <2>3. QED
    BY <2>1, <2>2, DataPathConstants DEF CacheInv, AnswersBounded, CacheBounded, CacheSize
<1>2. FirewallInv => TypesInv
  BY DEF FirewallInv
<1>3. CacheInv => CacheBounded
  BY DEF CacheInv
<1>4. QED
  BY <1>1, <1>2, <1>3, CacheStep, FirewallInvariant, PTL DEF Spec

=============================================================================
