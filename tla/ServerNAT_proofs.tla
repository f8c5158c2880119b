-------------------------- MODULE ServerNAT_proofs --------------------------
(***************************************************************************)
(* Theorems about ServerNAT for every number of threads, clients, flows    *)
(* and ports and every limit on a table, with their proofs.                *)
(***************************************************************************)
EXTENDS ServerNAT, SequenceTheorems, FiniteSetTheorems, TLAPS

\* A thread with the table of a client in hand; with a port in hand; entering a new flow;
\* going through a table to drop it.
Holding == {"evict", "forget", "allocate", "insert"}
InTransit == {"insert", "reverse"}
Leaving == {"dropping", "drop"}
Busy == Holding \cup {"touch", "reverse"} \cup Leaving
WithPort == {"forget", "insert", "reverse", "drop"}

ThreadStates == [pc : {"idle", "touch", "evict", "forget", "allocate", "insert",
                       "reverse", "unregister", "dropping", "drop"},
                 home : Clients \cup {None}, client : Clients \cup {None},
                 flow : Flows \cup {None}, port : Ports \cup {None},
                 nobodys : BOOLEAN, todo : SUBSET Flows, changed : BOOLEAN]

\* The entries of a table; no flow has two.
In(table) == {table[i] : i \in DOMAIN table}

OneEach(table) == \A i, j \in DOMAIN table : table[i].flow = table[j].flow => i = j

HasFlow(table, f) == \E e \in In(table) : e.flow = f

\* What a thread in state r knows of its locals and of the tables.
Knows(r, registered, tables) ==
    /\ r.pc \in Busy => r.client \in Clients
    /\ r.pc \in Busy \ Leaving => r.flow \in Flows
    /\ r.pc \in WithPort => r.port \in Ports
    /\ r.pc \in Holding /\ ~r.nobodys => r.client \in registered
    /\ r.pc \in Leaving => r.client \in registered
    /\ r.pc \in Leaving /\ ~r.changed => \A f \in r.todo : HasFlow(tables[r.client], f)

ThreadLocals == \A t \in Threads : Knows(thread[t], clients, fwd)

OneLeaver == \A t, u \in Threads : thread[t].pc \in Leaving /\ thread[u].pc \in Leaving => t = u

GatewayLocals == gateway.pc \in {"check", "touch"} =>
    gateway.client \in Clients /\ gateway.flow \in Flows

NobodyHasNothing == \A c \in Clients : c \notin clients => fwd[c] = << >>

FlowsOnce == \A c \in Clients : OneEach(fwd[c])

LocalInv == TypeOK /\ ThreadLocals /\ OneLeaver /\ GatewayLocals /\ NobodyHasNothing /\ FlowsOnce

\* Threads that saw room in the table of c, or made it, and have not used it.
Granted(c) == {t \in Threads : /\ thread[t].pc \in {"forget", "allocate", "insert"}
                               /\ thread[t].client = c
                               /\ ~thread[t].nobodys}

RoomGranted == \A c \in Clients :
    Len(fwd[c]) + Cardinality(Granted(c)) <= MaxPerClient + (Cardinality(Threads) - 1)

\* An entry that nobody is dropping, or has dropped.
Standing(state, c, e) == \A t \in Threads :
    state[t].pc \in Leaving /\ state[t].client = c => e.flow \in state[t].todo

\* Thread t has put the entry in the table of c and is about to put it in the reverse table.
Entering(t, c, e) ==
    /\ thread[t].pc = "reverse" /\ thread[t].client = c
    /\ thread[t].flow = e.flow /\ thread[t].port = e.port

\* The port of a standing entry leads to it, or is about to.
LiveMapped == \A c \in Clients : \A e \in In(fwd[c]) :
    e.port \notin raced /\ Standing(thread, c, e) =>
        rev[e.port] = <<c, e.flow>> \/ \E t \in Threads : Entering(t, c, e)

\* A port that is being entered leads nowhere, nobody else enters it, and its entry stands.
TransitExclusive == \A t \in Threads :
    thread[t].pc \in InTransit /\ thread[t].port \notin raced =>
        /\ rev[thread[t].port] = None
        /\ \A u \in Threads \ {t} : thread[u].pc \in InTransit => thread[u].port # thread[t].port
        /\ thread[t].pc = "reverse" =>
            /\ thread[t].client \in clients
            /\ [flow |-> thread[t].flow, port |-> thread[t].port] \in In(fwd[thread[t].client])
            /\ Standing(thread, thread[t].client, [flow |-> thread[t].flow, port |-> thread[t].port])

\* The port of an evicted entry leads to a flow its client no longer has there, and nobody
\* else is removing it.
EvictedMapped == \A t \in Threads :
    thread[t].pc = "forget" /\ thread[t].port \notin raced =>
        LET p == thread[t].port
        IN  /\ rev[p] # None
            /\ rev[p][1] = thread[t].client
            /\ [flow |-> rev[p][2], port |-> p] \notin In(fwd[thread[t].client])
            /\ \A u \in Threads \ {t} : thread[u].pc = "forget" => thread[u].port # p

\* The port that is being dropped leads to an entry that is there and no longer stands.
DroppedMapped == \A t \in Threads :
    thread[t].pc = "drop" /\ thread[t].port \notin raced =>
        LET p == thread[t].port
        IN  /\ rev[p] # None
            /\ rev[p][1] = thread[t].client
            /\ [flow |-> rev[p][2], port |-> p] \in In(fwd[thread[t].client])
            /\ rev[p][2] \notin thread[t].todo

\* Every port that leads to a client on its way out is still to be dropped, or evicted.
DropsAll == \A t \in Threads : thread[t].pc \in Leaving =>
    \A p \in Ports \ raced : rev[p] # None /\ rev[p][1] = thread[t].client =>
        \/ rev[p][2] \in thread[t].todo
        \/ thread[t].pc = "drop" /\ thread[t].port = p
        \/ \E u \in Threads : thread[u].pc = "forget" /\ thread[u].port = p

PortInv == /\ LiveMapped /\ TransitExclusive /\ EvictedMapped /\ DroppedMapped
           /\ NoStaleReverse /\ DropsAll

\* The inductive invariant.
IInv == LocalInv /\ RoomGranted /\ PortInv

-----------------------------------------------------------------------------
\* The table of one client as a sequence: what move_to_end, the insertion of an entry
\* and the eviction of the head do to its entries.

\* The entries are the same, in another order.
LEMMA MovedEntries ==
    ASSUME NEW table \in Seq(Entries), NEW f, \E e \in In(table) : e.flow = f
    PROVE  LET moved == MovedToEnd(table, f)
           IN  /\ moved \in Seq(Entries)
               /\ Len(moved) = Len(table)
               /\ In(moved) = In(table)
               /\ OneEach(table) => OneEach(moved)
<1> DEFINE n == Len(table)
           i == CHOOSE j \in DOMAIN table : table[j].flow = f
           front == SubSeq(table, 1, i - 1)
           back == SubSeq(table, i + 1, n)
           moved == Append(front \o back, table[i])
           from(k) == IF k < i THEN k ELSE IF k < n THEN k + 1 ELSE i
<1>1. MovedToEnd(table, f) = moved
  BY DEF MovedToEnd, At
<1>2. i \in 1 .. n /\ n \in Nat
  <2>1. \E j \in DOMAIN table : table[j].flow = f
    BY DEF In
  <2>2. i \in DOMAIN table
    BY <2>1
  <2>3. QED
    BY <2>2
<1> HIDE DEF i
<1>3. front \in Seq(Entries) /\ Len(front) = i - 1 /\ \A k \in 1 .. i - 1 : front[k] = table[k]
  BY <1>2
<1>4. back \in Seq(Entries) /\ Len(back) = n - i /\ \A k \in 1 .. n - i : back[k] = table[i + k]
  BY <1>2
<1> HIDE DEF front, back
<1>5. /\ front \o back \in Seq(Entries) /\ Len(front \o back) = n - 1
      /\ \A k \in 1 .. n - 1 : (front \o back)[k] = IF k <= i - 1 THEN front[k] ELSE back[k - (i - 1)]
  <2>1. /\ front \o back \in Seq(Entries) /\ Len(front \o back) = Len(front) + Len(back)
        /\ \A k \in 1 .. Len(front) + Len(back) :
            (front \o back)[k] = IF k <= Len(front) THEN front[k] ELSE back[k - Len(front)]
    BY <1>3, <1>4, ConcatProperties
  <2>2. Len(front) = i - 1 /\ Len(front) + Len(back) = n - 1
    BY <1>2, <1>3, <1>4
  <2>3. QED
    BY <2>1, <2>2
<1>6. \A k \in 1 .. n - 1 : (front \o back)[k] = table[from(k)]
  <2> SUFFICES ASSUME NEW k \in 1 .. n - 1 PROVE (front \o back)[k] = table[from(k)]
    OBVIOUS
  <2>1. ASSUME k < i PROVE (front \o back)[k] = table[from(k)]
    <3>1. k \in 1 .. i - 1 /\ k <= i - 1 /\ from(k) = k
      BY <1>2, <2>1
    <3>2. QED
      BY <1>3, <1>5, <3>1
  <2>2. ASSUME ~(k < i) PROVE (front \o back)[k] = table[from(k)]
    <3>1. k - (i - 1) \in 1 .. n - i /\ i + (k - (i - 1)) = k + 1
      BY <1>2, <2>2
    <3>2. back[k - (i - 1)] = table[k + 1]
      BY <1>4, <3>1
    <3>3. ~(k <= i - 1) /\ from(k) = k + 1
      BY <1>2, <2>2
    <3>4. QED
      BY <1>5, <3>2, <3>3
  <2>3. QED
    BY <2>1, <2>2
<1>7. table[i] \in Entries
  BY <1>2
<1>8. moved \in Seq(Entries) /\ Len(moved) = n
  BY <1>2, <1>5, <1>7
<1>9. \A k \in 1 .. n : moved[k] = table[from(k)]
  <2>1. \A k \in 1 .. n - 1 : moved[k] = (front \o back)[k]
    BY <1>2, <1>5, <1>7
  <2>2. moved[n] = table[i]
    BY <1>2, <1>5, <1>7
  <2>3. from(n) = i
    BY <1>2
  <2>4. \A k \in 1 .. n : k \in 1 .. n - 1 \/ k = n
    BY <1>2
  <2>5. QED
    BY <1>6, <2>1, <2>2, <2>3, <2>4
<1> HIDE DEF moved
<1>10. \A k \in 1 .. n : from(k) \in 1 .. n
  BY <1>2
<1>11. \A k, l \in 1 .. n : from(k) = from(l) => k = l
  BY <1>2
<1>12. \A m \in 1 .. n : \E k \in 1 .. n : from(k) = m
  <2> SUFFICES ASSUME NEW m \in 1 .. n PROVE \E k \in 1 .. n : from(k) = m
    OBVIOUS
  <2>1. CASE m < i
    BY <1>2, <2>1
  <2>2. CASE m = i
    BY <1>2, <2>2
  <2>3. CASE m > i
    <3>1. m - 1 \in 1 .. n /\ from(m - 1) = m
      BY <1>2, <2>3
    <3>2. QED
      BY <3>1
  <2>4. QED
    BY <1>2, <2>1, <2>2, <2>3
<1> HIDE DEF from
<1>13. DOMAIN table = 1 .. n /\ DOMAIN moved = 1 .. n
  BY <1>8
<1>14. In(moved) = In(table)
  <2>1. \A e \in In(moved) : e \in In(table)
    BY <1>9, <1>10, <1>13 DEF In
  <2>2. ASSUME NEW e \in In(table) PROVE e \in In(moved)
    <3>1. PICK m \in 1 .. n : e = table[m]
      BY <1>13 DEF In
    <3>2. PICK k \in 1 .. n : from(k) = m
      BY <1>12
    <3>3. e = moved[k]
      BY <1>9, <3>1, <3>2
    <3>4. QED
      BY <1>13, <3>3 DEF In
  <2>3. QED
    BY <2>1, <2>2
<1>15. OneEach(table) => OneEach(moved)
  BY <1>9, <1>10, <1>11, <1>13 DEF OneEach
<1>16. QED
  BY <1>1, <1>8, <1>14, <1>15

LEMMA AppendedEntries ==
    ASSUME NEW table \in Seq(Entries), NEW e \in Entries
    PROVE  /\ Append(table, e) \in Seq(Entries)
           /\ Len(Append(table, e)) = Len(table) + 1
           /\ In(Append(table, e)) = In(table) \cup {e}
           /\ (OneEach(table) /\ \A x \in In(table) : x.flow # e.flow) => OneEach(Append(table, e))
<1> DEFINE new == Append(table, e)
           n == Len(table)
<1>1. new \in Seq(Entries) /\ Len(new) = n + 1 /\ n \in Nat
  OBVIOUS
<1>2. /\ \A k \in 1 .. n : new[k] = table[k]
      /\ new[n + 1] = e
  OBVIOUS
<1>3. DOMAIN new = 1 .. n + 1 /\ DOMAIN table = 1 .. n
  OBVIOUS
<1> HIDE DEF new, n
<1>4. 1 .. n + 1 = (1 .. n) \cup {n + 1}
  BY <1>1
<1>5. In(new) = In(table) \cup {e}
  BY <1>2, <1>3, <1>4 DEF In
<1>6. ASSUME OneEach(table), \A x \in In(table) : x.flow # e.flow
      PROVE  OneEach(new)
  BY <1>2, <1>3, <1>4, <1>6 DEF OneEach, In
<1>7. QED
  BY <1>1, <1>5, <1>6 DEF new, n

LEMMA EvictedEntries ==
    ASSUME NEW table \in Seq(Entries), table # << >>
    PROVE  /\ Head(table) \in In(table) /\ Head(table) \in Entries
           /\ Tail(table) \in Seq(Entries)
           /\ Len(Tail(table)) = Len(table) - 1
           /\ In(table) = In(Tail(table)) \cup {Head(table)}
           /\ OneEach(table) =>
                OneEach(Tail(table)) /\ \A x \in In(Tail(table)) : x.flow # Head(table).flow
<1> DEFINE rest == Tail(table)
           n == Len(table)
<1>1. n \in Nat \ {0} /\ DOMAIN table = 1 .. n
  OBVIOUS
<1>2. rest \in Seq(Entries) /\ Len(rest) = n - 1 /\ DOMAIN rest = 1 .. n - 1
  OBVIOUS
<1>3. \A k \in 1 .. n - 1 : rest[k] = table[k + 1]
  OBVIOUS
<1>4. Head(table) = table[1] /\ table[1] \in Entries
  BY <1>1
<1> HIDE DEF rest, n
<1>5. 1 \in 1 .. n /\ \A k \in 1 .. n - 1 : k + 1 \in 1 .. n
  BY <1>1
<1>6. \A m \in 1 .. n : m = 1 \/ \E k \in 1 .. n - 1 : m = k + 1
  <2> SUFFICES ASSUME NEW m \in 1 .. n, m # 1 PROVE \E k \in 1 .. n - 1 : m = k + 1
    OBVIOUS
  <2>1. m - 1 \in 1 .. n - 1 /\ m = (m - 1) + 1
    BY <1>1
  <2>2. QED
    BY <2>1
<1>7. In(table) = In(rest) \cup {table[1]}
  <2>1. ASSUME NEW e \in In(table) PROVE e \in In(rest) \cup {table[1]}
    <3>1. PICK m \in 1 .. n : e = table[m]
      BY <1>1 DEF In
    <3>2. CASE m = 1
      BY <3>1, <3>2
    <3>3. ASSUME NEW k \in 1 .. n - 1, m = k + 1 PROVE e \in In(rest)
      BY <1>2, <1>3, <3>1, <3>3 DEF In
    <3>4. QED
      BY <1>6, <3>2, <3>3
  <2>2. \A e \in In(rest) : e \in In(table)
    BY <1>1, <1>2, <1>3, <1>5 DEF In
  <2>3. table[1] \in In(table)
    BY <1>1, <1>5 DEF In
  <2>4. QED
    BY <2>1, <2>2, <2>3
<1>8. ASSUME OneEach(table) PROVE OneEach(rest) /\ \A x \in In(rest) : x.flow # table[1].flow
  <2>1. \A k \in 1 .. n - 1 : k + 1 # 1
    BY <1>1
  <2>2. \A k, l \in 1 .. n - 1 : k + 1 = l + 1 => k = l
    BY <1>1
  <2>3. OneEach(rest)
    <3> SUFFICES ASSUME NEW k \in 1 .. n - 1, NEW l \in 1 .. n - 1, rest[k].flow = rest[l].flow
                 PROVE  k = l
      BY <1>2 DEF OneEach
    <3>1. table[k + 1].flow = table[l + 1].flow
      BY <1>3
    <3>2. k + 1 = l + 1
      BY <1>1, <1>5, <1>8, <3>1 DEF OneEach
    <3>3. QED
      BY <2>2, <3>2
  <2>4. \A k \in 1 .. n - 1 : rest[k].flow # table[1].flow
    BY <1>1, <1>3, <1>5, <1>8, <2>1 DEF OneEach
  <2>5. QED
    BY <1>2, <2>3, <2>4 DEF In
<1>9. QED
  BY <1>1, <1>2, <1>4, <1>7, <1>8 DEF rest, n

\* An entry of a table is the one at the place of its flow.
LEMMA EntryAt ==
    ASSUME NEW table \in Seq(Entries), OneEach(table), NEW e \in In(table)
    PROVE  At(table, e.flow) \in DOMAIN table /\ table[At(table, e.flow)] = e
<1>1. PICK i \in DOMAIN table : table[i] = e
  BY DEF In
<1>2. /\ At(table, e.flow) \in DOMAIN table
      /\ table[At(table, e.flow)].flow = e.flow
  BY <1>1 DEF At
<1>3. At(table, e.flow) = i
  BY <1>1, <1>2 DEF OneEach
<1>4. QED
  BY <1>1, <1>3

LEMMA EnteredEntries ==
    ASSUME NEW table \in Seq(Entries), OneEach(table), NEW f \in Flows, NEW p \in Ports
    PROVE  LET new == Entered(table, f, p)
           IN  /\ new \in Seq(Entries)
               /\ OneEach(new)
               /\ Len(new) = IF HasFlow(table, f) THEN Len(table) ELSE Len(table) + 1
               /\ In(new) = {e \in In(table) : e.flow # f} \cup {[flow |-> f, port |-> p]}
<1> DEFINE new == Entered(table, f, p)
           x == [flow |-> f, port |-> p]
           i == At(table, f)
<1>1. x \in Entries /\ x.flow = f
  BY DEF Entries
<1>2. (\E k \in DOMAIN table : table[k].flow = f) <=> HasFlow(table, f)
  BY DEF HasFlow, In
<1>3. CASE ~HasFlow(table, f)
  <2>1. new = Append(table, x)
    BY <1>2, <1>3 DEF Entered
  <2>2. \A e \in In(table) : e.flow # f
    BY <1>3 DEF HasFlow
  <2>3. {e \in In(table) : e.flow # f} = In(table)
    BY <2>2
  <2>4. QED
    BY <1>1, <1>3, <2>1, <2>2, <2>3, AppendedEntries
<1>4. CASE HasFlow(table, f)
  <2>1. i \in DOMAIN table /\ table[i].flow = f
    BY <1>2, <1>4 DEF At
  <2>2. new = [table EXCEPT ![i].port = p]
    BY <1>2, <1>4 DEF Entered
  <2>3. table[i] \in Entries /\ DOMAIN table = 1 .. Len(table) /\ Len(table) \in Nat
    BY <2>1
  <2>4. [table[i] EXCEPT !.port = p] = x
    BY <2>1, <2>3 DEF Entries
  <2> HIDE DEF i, x
  <2>5. new = [k \in 1 .. Len(table) |-> IF k = i THEN x ELSE table[k]]
    BY <2>2, <2>3, <2>4
  <2> HIDE DEF new
  <2>6. /\ new \in Seq(Entries) /\ Len(new) = Len(table) /\ DOMAIN new = DOMAIN table
        /\ new[i] = x /\ \A k \in DOMAIN table : k # i => new[k] = table[k]
    BY <1>1, <2>1, <2>3, <2>5
  <2>7. OneEach(new)
    BY <1>1, <2>1, <2>6 DEF OneEach
  <2>8. \A k \in DOMAIN table : table[k].flow = f <=> k = i
    BY <2>1 DEF OneEach
  <2>9. In(new) = {e \in In(table) : e.flow # f} \cup {x}
    <3>1. ASSUME NEW e \in In(new) PROVE e \in {y \in In(table) : y.flow # f} \cup {x}
      BY <2>6, <2>8 DEF In
    <3>2. ASSUME NEW e \in In(table), e.flow # f PROVE e \in In(new)
      BY <2>6, <2>8, <3>2 DEF In
    <3>3. x \in In(new)
      BY <2>1, <2>6 DEF In
    <3>4. QED
      BY <3>1, <3>2, <3>3
  <2>10. QED
    BY <1>4, <2>6, <2>7, <2>9 DEF new, x
<1>5. QED
  BY <1>3, <1>4

-----------------------------------------------------------------------------
\* Locals and tables.

LEMMA TablesAsSets ==
    /\ \A c \in Clients : EntriesOf(c) = In(fwd[c])
    /\ \A c \in Clients, f \in Flows : Has(c, f) <=> HasFlow(fwd[c], f)
BY DEF EntriesOf, In, Has, HasFlow

LEMMA InType == ASSUME NEW table \in Seq(Entries) PROVE In(table) \subseteq Entries
BY DEF In

LEMMA Locals ==
    ASSUME LocalInv
    PROVE  /\ thread \in [Threads -> ThreadStates] /\ fwd \in [Clients -> Seq(Entries)]
           /\ rev \in [Ports -> (Clients \X Flows) \cup {None}]
           /\ clients \subseteq Clients /\ raced \subseteq Ports
           /\ \A t \in Threads : thread[t] \in ThreadStates /\ Knows(thread[t], clients, fwd)
           /\ \A c \in Clients : fwd[c] \in Seq(Entries) /\ OneEach(fwd[c])
<1>1. thread \in [Threads -> ThreadStates] /\ fwd \in [Clients -> Seq(Entries)]
  BY DEF LocalInv, TypeOK, ThreadStates
<1>2. QED
  BY <1>1 DEF LocalInv, TypeOK, ThreadLocals, FlowsOnce

LEMMA Sessions ==
    /\ NoSession \in ThreadStates /\ NoSession.pc = "idle"
    /\ \A home \in Clients \cup {None} :
        /\ InSession(home) \in ThreadStates /\ InSession(home).pc = "idle"
        /\ [InSession(home) EXCEPT !.pc = "unregister"] \in ThreadStates
        /\ [InSession(home) EXCEPT !.pc = "unregister"].pc = "unregister"
BY DEF NoSession, InSession, ThreadStates

\* Between sessions, and in one without a packet, a thread need not know anything.
LEMMA NothingToKnow ==
    ASSUME NEW r, r.pc \in {"idle", "unregister"}, NEW cs, NEW tables
    PROVE  Knows(r, cs, tables)
BY DEF Knows, Busy, Holding, Leaving, WithPort

\* A step that leaves the tables alone.
LEMMA OnlyThread ==
    ASSUME LocalInv, NEW t \in Threads, NEW r \in ThreadStates,
           thread' = [thread EXCEPT ![t] = r], fwd' = fwd, gateway' = gateway,
           clients' \subseteq Clients, clients \subseteq clients',
           rev' \in [Ports -> (Clients \X Flows) \cup {None}], raced' \subseteq Ports,
           Knows(r, clients, fwd),
           r.pc \in Leaving => thread[t].pc \in Leaving \/ ~Locked
    PROVE  LocalInv'
<1>1. /\ thread' \in [Threads -> ThreadStates] /\ thread'[t] = r
      /\ \A u \in Threads \ {t} : thread'[u] = thread[u]
  BY Locals
<1>2. TypeOK'
  BY <1>1 DEF LocalInv, TypeOK, ThreadStates
<1>3. \A u \in Threads : Knows(thread'[u], clients, fwd)
  BY <1>1, Locals
<1>4. ThreadLocals'
  <2> SUFFICES ASSUME NEW u \in Threads PROVE Knows(thread'[u], clients', fwd')
    BY DEF ThreadLocals
  <2>1. Knows(thread'[u], clients, fwd)
    BY <1>3
  <2>2. QED
    BY <2>1 DEF Knows
<1>5. OneLeaver'
  BY <1>1 DEF LocalInv, OneLeaver, Locked, Leaving
<1>6. GatewayLocals' /\ NobodyHasNothing' /\ FlowsOnce'
  BY DEF LocalInv, GatewayLocals, NobodyHasNothing, FlowsOnce
<1>7. QED
  BY <1>2, <1>4, <1>5, <1>6 DEF LocalInv

\* A step that only tells a thread that its table changed.
Kept(r, s) ==
    /\ r.pc = s.pc /\ r.client = s.client /\ r.flow = s.flow /\ r.port = s.port
    /\ r.todo = s.todo /\ r.nobodys = s.nobodys
    /\ s.changed => r.changed

LEMMA DisturbedThreads ==
    ASSUME LocalInv, NEW c, NEW state \in [Threads -> ThreadStates]
    PROVE  /\ Disturbed(c, state) \in [Threads -> ThreadStates]
           /\ \A u \in Threads :
                /\ Kept(Disturbed(c, state)[u], state[u])
                /\ Dropping(u, c) /\ thread[u].todo # {} => Disturbed(c, state)[u].changed
<1> DEFINE d == Disturbed(c, state)
<1>1. ASSUME NEW r \in ThreadStates
      PROVE  /\ [r EXCEPT !.changed = TRUE] \in ThreadStates /\ Kept([r EXCEPT !.changed = TRUE], r)
             /\ [r EXCEPT !.changed = TRUE].changed /\ Kept(r, r)
  BY DEF ThreadStates, Kept
<1>2. \A u \in Threads : d[u] = IF Dropping(u, c) /\ thread[u].todo # {}
                                THEN [state[u] EXCEPT !.changed = TRUE] ELSE state[u]
  BY DEF Disturbed
<1>3. d = [u \in Threads |-> d[u]]
  BY DEF Disturbed
<1> HIDE DEF d
<1>4. \A u \in Threads : state[u] \in ThreadStates
  OBVIOUS
<1>5. \A u \in Threads : d[u] \in ThreadStates
  BY <1>1, <1>2, <1>4
<1>6. d \in [Threads -> ThreadStates]
  BY <1>3, <1>5
<1>7. ASSUME NEW u \in Threads
      PROVE  Kept(d[u], state[u]) /\ (Dropping(u, c) /\ thread[u].todo # {} => d[u].changed)
  BY <1>1, <1>2, <1>4
<1>8. QED
  BY <1>6, <1>7 DEF d

LEMMA StillKnows ==
    ASSUME LocalInv, NEW u \in Threads, NEW r, Kept(r, thread[u]),
           NEW c \in Clients, NEW table, fwd' = [fwd EXCEPT ![c] = table],
           \/ \A f \in Flows : HasFlow(fwd[c], f) => HasFlow(table, f)
           \/ Dropping(u, c) /\ thread[u].todo # {} => r.changed
    PROVE  Knows(r, clients, fwd')
<1>1. Knows(thread[u], clients, fwd) /\ thread[u].todo \subseteq Flows
  BY Locals DEF ThreadStates
<1>2. fwd'[c] = table /\ \A d \in Clients \ {c} : fwd'[d] = fwd[d]
  BY Locals
<1>3. ASSUME r.pc \in Leaving, ~r.changed, NEW f \in r.todo PROVE HasFlow(fwd'[r.client], f)
  <2>1. HasFlow(fwd[r.client], f) /\ r.client \in Clients /\ f \in Flows
    BY <1>1, <1>3 DEF Knows, Kept, Busy
  <2>2. CASE r.client # c
    BY <1>2, <2>1, <2>2
  <2>3. CASE r.client = c
    <3>1. Dropping(u, c) /\ thread[u].todo # {}
      BY <1>3, <2>3 DEF Dropping, Kept, Leaving
    <3>2. QED
      BY <1>2, <1>3, <2>1, <2>3, <3>1
  <2>4. QED
    BY <2>2, <2>3
<1>4. QED
  BY <1>1, <1>3 DEF Knows, Kept

\* A step on the table of one registered client.
LEMMA OneTable ==
    ASSUME LocalInv, NEW c \in clients, NEW table \in Seq(Entries), OneEach(table),
           fwd' = [fwd EXCEPT ![c] = table], clients' = clients,
           thread' \in [Threads -> ThreadStates],
           \A u \in Threads : Knows(thread'[u], clients, fwd'),
           \A u \in Threads : thread'[u].pc \in Leaving => thread[u].pc \in Leaving,
           UNCHANGED rev, raced' \subseteq Ports,
           gateway' = gateway \/ gateway' = GatewayIdle
    PROVE  LocalInv'
<1>1. /\ c \in Clients /\ fwd' \in [Clients -> Seq(Entries)] /\ fwd'[c] = table
      /\ \A d \in Clients \ {c} : fwd'[d] = fwd[d]
  BY Locals
<1>2. TypeOK'
  BY <1>1 DEF LocalInv, TypeOK, ThreadStates, GatewayIdle
<1>3. ThreadLocals'
  BY DEF ThreadLocals
<1>4. OneLeaver'
  BY DEF LocalInv, OneLeaver
<1>5. GatewayLocals'
  BY DEF LocalInv, GatewayLocals, GatewayIdle
<1>6. NobodyHasNothing' /\ FlowsOnce'
  BY <1>1 DEF LocalInv, NobodyHasNothing, FlowsOnce
<1>7. QED
  BY <1>2, <1>3, <1>4, <1>5, <1>6 DEF LocalInv

-----------------------------------------------------------------------------
\* The steps that no reverse entry, and no port in a thread's hands, is about.

Same(u) == /\ thread'[u].pc = thread[u].pc /\ thread'[u].client = thread[u].client
           /\ thread'[u].flow = thread[u].flow /\ thread'[u].port = thread[u].port
           /\ thread'[u].todo = thread[u].todo /\ thread'[u].nobodys = thread[u].nobodys

Ported == WithPort \cup Leaving

Quiet == \/ \E t \in Threads :
                \/ \E c \in Clients : RegisterClient(t, c)
                \/ \E c \in Clients, f \in Flows : TranslateKnown(t, c, f) \/ TranslateNew(t, c, f)
                \/ Touch(t) \/ TouchFails(t) \/ EvictFails(t) \/ AllocateFails(t)
                \/ UnregisterUnknown(t)
         \/ \E p \in Ports : GatewayLookup(p)
         \/ GatewayCheck \/ GatewayTouch \/ GatewayDies

Calm ==
    /\ clients \subseteq clients' /\ UNCHANGED <<rev, raced>>
    /\ \A c \in Clients : In(fwd'[c]) = In(fwd[c]) /\ Len(fwd'[c]) = Len(fwd[c])
    /\ \A u \in Threads :
        \/ Same(u)
        \/ /\ thread[u].pc \notin Ported /\ thread'[u].pc \notin Ported
           /\ thread'[u].pc = "allocate" => Len(fwd[thread'[u].client]) < MaxPerClient

\* One thread turns to something else.
LEMMA CalmThread ==
    ASSUME LocalInv, NEW t \in Threads, NEW r \in ThreadStates,
           thread' = [thread EXCEPT ![t] = r], fwd' = fwd, gateway' = gateway,
           clients' \subseteq Clients, clients \subseteq clients', UNCHANGED <<rev, raced>>,
           Knows(r, clients, fwd), thread[t].pc \notin Ported, r.pc \notin Ported,
           r.pc = "allocate" => Len(fwd[r.client]) < MaxPerClient
    PROVE  LocalInv' /\ Calm
<1>1. LocalInv'
  BY OnlyThread, Locals DEF Ported
<1>2. thread'[t] = r /\ \A u \in Threads \ {t} : thread'[u] = thread[u]
  BY Locals
<1>3. Calm
  BY <1>2 DEF Calm, Same
<1>4. QED
  BY <1>1, <1>3

LEMMA FailedThread ==
    ASSUME LocalInv, NEW t \in Threads, Fail(t), thread[t].pc \notin Ported,
           UNCHANGED <<clients, fwd, rev, gateway, raced>>
    PROVE  LocalInv' /\ Calm
<1> DEFINE r == [InSession(thread[t].home) EXCEPT !.pc = "unregister"]
<1>1. thread[t].home \in Clients \cup {None}
  BY Locals DEF ThreadStates
<1>2. r \in ThreadStates /\ r.pc = "unregister"
  BY <1>1, Sessions
<1>3. thread' = [thread EXCEPT ![t] = r]
  BY DEF Fail
<1> HIDE DEF r
<1>4. Knows(r, clients, fwd) /\ r.pc \notin Ported
  BY <1>2, NothingToKnow DEF Ported, WithPort, Leaving
<1>5. QED
  BY <1>2, <1>3, <1>4, CalmThread, Locals

\* A table is put in another order.
LEMMA CalmTable ==
    ASSUME LocalInv, NEW c \in clients, NEW f \in Flows, HasFlow(fwd[c], f),
           NEW state \in [Threads -> ThreadStates],
           \A u \in Threads : Knows(state[u], clients, fwd),
           \A u \in Threads : state[u] = thread[u]
                              \/ (thread[u].pc \notin Ported /\ state[u].pc \notin Ported
                                                           /\ state[u].pc # "allocate"),
           fwd' = [fwd EXCEPT ![c] = MovedToEnd(fwd[c], f)],
           \/ thread' = state
           \/ thread' = Disturbed(c, state),
           UNCHANGED <<clients, rev, raced>>,
           gateway' = gateway \/ gateway' = GatewayIdle
    PROVE  LocalInv' /\ Calm
<1> DEFINE table == MovedToEnd(fwd[c], f)
<1>1. c \in Clients /\ fwd[c] \in Seq(Entries) /\ OneEach(fwd[c])
  BY Locals
<1>2. /\ table \in Seq(Entries) /\ Len(table) = Len(fwd[c]) /\ In(table) = In(fwd[c])
      /\ OneEach(table)
  BY <1>1, MovedEntries DEF HasFlow
<1>3. fwd'[c] = table /\ \A d \in Clients \ {c} : fwd'[d] = fwd[d]
  BY <1>1, Locals
<1>4. /\ thread' \in [Threads -> ThreadStates]
      /\ \A u \in Threads : Kept(thread'[u], state[u])
  <2>1. CASE thread' = state
    BY <2>1 DEF Kept
  <2>2. CASE thread' = Disturbed(c, state)
    BY <2>2, DisturbedThreads
  <2>3. QED
    BY <2>1, <2>2
<1> HIDE DEF table
<1>5. ASSUME NEW u \in Threads PROVE Knows(thread'[u], clients, fwd')
  <2>1. Knows(state[u], clients, fwd) /\ Kept(thread'[u], state[u])
    BY <1>4
  <2>2. \A g : \A d \in Clients : HasFlow(fwd[d], g) => HasFlow(fwd'[d], g)
    BY <1>2, <1>3 DEF HasFlow
  <2>3. QED
    BY <2>1, <2>2 DEF Knows, Kept, Busy, Leaving
<1>6. \A u \in Threads : thread'[u].pc \in Leaving => thread[u].pc \in Leaving
  BY <1>4 DEF Kept, Ported
<1>7. LocalInv'
  BY <1>2, <1>4, <1>5, <1>6, OneTable, Locals DEF table
<1>8. Calm
  <2>1. \A d \in Clients : In(fwd'[d]) = In(fwd[d]) /\ Len(fwd'[d]) = Len(fwd[d])
    BY <1>2, <1>3
  <2>2. \A u \in Threads : \/ Same(u)
                           \/ /\ thread[u].pc \notin Ported /\ thread'[u].pc \notin Ported
                              /\ thread'[u].pc # "allocate"
    BY <1>4 DEF Same, Kept
  <2>3. QED
    BY <2>1, <2>2 DEF Calm
<1>9. QED
  BY <1>7, <1>8

LEMMA CalmGateway ==
    ASSUME LocalInv, UNCHANGED <<clients, fwd, rev, thread, raced>>,
           gateway' \in [pc : {"idle", "check", "touch", "dead"},
                         client : Clients \cup {None}, flow : Flows \cup {None}],
           GatewayLocals'
    PROVE  LocalInv' /\ Calm
<1>1. LocalInv'
  BY DEF LocalInv, TypeOK, ThreadLocals, OneLeaver, NobodyHasNothing, FlowsOnce
<1>2. QED
  BY <1>1 DEF Calm, Same

LEMMA QuietStep == ASSUME LocalInv, Quiet PROVE LocalInv' /\ Calm
<1> USE DEF Ported, WithPort, Leaving
<1>0. \A t \in Threads : thread[t] = thread[t] /\ thread[t] \in ThreadStates /\ Knows(thread[t], clients, fwd)
  BY Locals
<1>1. ASSUME NEW t \in Threads, NEW c \in Clients, RegisterClient(t, c) PROVE LocalInv' /\ Calm
  <2>1. InSession(c) \in ThreadStates /\ InSession(c).pc = "idle"
    BY Sessions
  <2>2. c \notin clients => fwd[c] = << >>
    BY DEF LocalInv, NobodyHasNothing
  <2>3. fwd' = fwd
    BY <1>1, <2>2, Locals DEF RegisterClient
  <2>4. Knows(InSession(c), clients, fwd)
    BY <2>1, NothingToKnow
  <2>5. /\ thread' = [thread EXCEPT ![t] = InSession(c)] /\ thread[t].pc = "idle"
        /\ clients' = clients \cup {c} /\ UNCHANGED <<rev, gateway, raced>>
    BY <1>1 DEF RegisterClient
  <2>6. QED
    BY <2>1, <2>3, <2>4, <2>5, CalmThread, Locals
<1>2. ASSUME NEW t \in Threads, NEW c \in Clients, NEW f \in Flows, TranslateKnown(t, c, f)
      PROVE  LocalInv' /\ Calm
  <2> DEFINE r == [thread[t] EXCEPT !.pc = "touch", !.client = c, !.flow = f]
  <2>1. r \in ThreadStates /\ r.pc = "touch" /\ r.client = c /\ r.flow = f
    BY <1>0 DEF ThreadStates
  <2>2. /\ thread' = [thread EXCEPT ![t] = r] /\ thread[t].pc = "idle"
        /\ UNCHANGED <<clients, fwd, rev, gateway, raced>>
    BY <1>2 DEF TranslateKnown
  <2> HIDE DEF r
  <2>3. Knows(r, clients, fwd)
    BY <2>1 DEF Knows, Busy, Holding
  <2>4. QED
    BY <2>1, <2>2, <2>3, CalmThread, Locals
<1>3. ASSUME NEW t \in Threads, NEW c \in Clients, NEW f \in Flows, TranslateNew(t, c, f)
      PROVE  LocalInv' /\ Calm
  <2> DEFINE place == IF Len(fwd[c]) >= MaxPerClient THEN "evict" ELSE "allocate"
             r == [thread[t] EXCEPT !.client = c, !.flow = f, !.pc = place]
  <2>1. r \in ThreadStates /\ r.pc \in {"evict", "allocate"} /\ r.client = c /\ r.flow = f
    BY <1>0 DEF ThreadStates
  <2>2. /\ thread' = [thread EXCEPT ![t] = r] /\ thread[t].pc = "idle" /\ c \in clients
        /\ UNCHANGED <<clients, fwd, rev, gateway, raced>>
    BY <1>3 DEF TranslateNew
  <2>5. r.pc = "allocate" => Len(fwd[r.client]) < MaxPerClient
    <3>1. Len(fwd[c]) \in Nat
      BY Locals
    <3>2. r.pc = place
      BY <1>0 DEF ThreadStates
    <3>3. QED
      BY <2>1, <3>1, <3>2, NATConstants
  <2> HIDE DEF r
  <2>3. Knows(r, clients, fwd)
    BY <2>1, <2>2 DEF Knows, Busy, Holding
  <2>4. QED
    BY <2>1, <2>2, <2>3, <2>5, CalmThread, Locals
<1>4. ASSUME NEW t \in Threads, Touch(t) PROVE LocalInv' /\ Calm
  <2> DEFINE c == thread[t].client
             f == thread[t].flow
             r == InSession(thread[t].home)
             state == [thread EXCEPT ![t] = r]
  <2>1. thread[t].pc = "touch" /\ c \in Clients /\ f \in Flows /\ HasFlow(fwd[c], f)
    BY <1>0, <1>4, TablesAsSets DEF Touch, Knows, Busy
  <2>2. c \in clients
    <3>1. fwd[c] # << >>
      BY <2>1 DEF HasFlow, In
    <3>2. QED
      BY <2>1, <3>1 DEF LocalInv, NobodyHasNothing
  <2>3. r \in ThreadStates /\ r.pc = "idle"
    BY <1>0, Sessions DEF ThreadStates
  <2>4. fwd' = [fwd EXCEPT ![c] = MovedToEnd(fwd[c], f)]
    BY <1>4 DEF Touch
  <2>5. (thread' = state \/ thread' = Disturbed(c, state)) /\ UNCHANGED <<clients, rev, gateway, raced>>
    BY <1>4 DEF Touch
  <2> HIDE DEF r
  <2>6. /\ state \in [Threads -> ThreadStates] /\ state[t] = r
        /\ \A u \in Threads \ {t} : state[u] = thread[u]
    BY <2>3, Locals
  <2> HIDE DEF c, f, state
  <2>7. \A u \in Threads : Knows(state[u], clients, fwd)
    BY <1>0, <2>3, <2>6, NothingToKnow
  <2>8. \A u \in Threads : state[u] = thread[u] \/ (thread[u].pc \notin Ported /\ state[u].pc \notin Ported
                                                                           /\ state[u].pc # "allocate")
    BY <2>1, <2>3, <2>6
  <2>9. QED
    BY <2>1, <2>2, <2>4, <2>5, <2>6, <2>7, <2>8, CalmTable
<1>5. ASSUME NEW t \in Threads, TouchFails(t) \/ EvictFails(t) \/ AllocateFails(t)
      PROVE  LocalInv' /\ Calm
  <2>1. /\ Fail(t) /\ thread[t].pc \in {"touch", "evict", "allocate"}
        /\ UNCHANGED <<clients, fwd, rev, gateway, raced>>
    BY <1>5 DEF TouchFails, EvictFails, AllocateFails
  <2>2. QED
    BY <2>1, FailedThread
<1>6. ASSUME NEW t \in Threads, UnregisterUnknown(t) PROVE LocalInv' /\ Calm
  <2>1. /\ thread' = [thread EXCEPT ![t] = NoSession] /\ thread[t].pc \in {"idle", "unregister"}
        /\ UNCHANGED <<clients, fwd, rev, gateway, raced>>
    BY <1>6 DEF UnregisterUnknown
  <2>2. Knows(NoSession, clients, fwd)
    BY Sessions, NothingToKnow
  <2>3. QED
    BY <2>1, <2>2, Sessions, CalmThread, Locals
<1>7. ASSUME NEW p \in Ports, GatewayLookup(p) PROVE LocalInv' /\ Calm
  <2>1. rev[p] \in Clients \X Flows
    BY <1>7, Locals DEF GatewayLookup
  <2>2. QED
    BY <1>7, <2>1, CalmGateway DEF GatewayLookup, GatewayLocals
<1>8. ASSUME GatewayCheck \/ GatewayDies PROVE LocalInv' /\ Calm
  <2>1. /\ gateway \in [pc : {"idle", "check", "touch", "dead"},
                        client : Clients \cup {None}, flow : Flows \cup {None}]
        /\ GatewayLocals
    BY DEF LocalInv, TypeOK
  <2>2. QED
    BY <1>8, <2>1, CalmGateway DEF GatewayCheck, GatewayDies, GatewayIdle, GatewayLocals
<1>9. ASSUME GatewayTouch PROVE LocalInv' /\ Calm
  <2> DEFINE c == gateway.client
             f == gateway.flow
  <2>1. c \in Clients /\ f \in Flows /\ HasFlow(fwd[c], f)
    BY <1>9, TablesAsSets DEF GatewayTouch, LocalInv, GatewayLocals
  <2>2. c \in clients
    <3>1. fwd[c] # << >>
      BY <2>1 DEF HasFlow, In
    <3>2. QED
      BY <2>1, <3>1 DEF LocalInv, NobodyHasNothing
  <2>3. /\ fwd' = [fwd EXCEPT ![c] = MovedToEnd(fwd[c], f)]
        /\ thread' = thread \/ thread' = Disturbed(c, thread)
        /\ UNCHANGED <<clients, rev, raced>> /\ gateway' = GatewayIdle
    BY <1>9 DEF GatewayTouch
  <2> HIDE DEF c, f
  <2>4. QED
    BY <1>0, <2>1, <2>2, <2>3, CalmTable, Locals
<1>10. QED
  BY <1>1, <1>2, <1>3, <1>4, <1>5, <1>6, <1>7, <1>8, <1>9 DEF Quiet

-----------------------------------------------------------------------------
\* What the other steps change, each with the invariant of locals and tables.

Others(t) == \A u \in Threads \ {t} : Same(u)

LEMMA OthersSame ==
    ASSUME LocalInv, NEW t \in Threads, NEW r, thread' = [thread EXCEPT ![t] = r]
    PROVE  thread'[t] = r /\ Others(t)
BY Locals DEF Others, Same

LEMMA EvictForwardEffect ==
    ASSUME LocalInv, NEW t \in Threads, EvictForward(t)
    PROVE  \E e \in Entries :
           LET c == thread[t].client
           IN  /\ LocalInv'
               /\ c \in clients /\ thread[t].pc = "evict" /\ e \in In(fwd[c])
               /\ In(fwd'[c]) = In(fwd[c]) \ {e} /\ Len(fwd'[c]) = Len(fwd[c]) - 1
               /\ \A d \in Clients \ {c} : fwd'[d] = fwd[d]
               /\ thread'[t].pc = "forget" /\ thread'[t].client = c /\ thread'[t].port = e.port
               /\ Others(t) /\ UNCHANGED <<clients, rev>>
               /\ raced' = IF BeingDropped(c) \/ HalfEntered(e.port) THEN raced \cup {e.port} ELSE raced
<1> DEFINE c == thread[t].client
           e == Head(fwd[c])
           r == [thread[t] EXCEPT !.port = e.port, !.pc = "forget"]
           state == [thread EXCEPT ![t] = r]
<1>1. /\ thread[t].pc = "evict" /\ thread[t] \in ThreadStates /\ c \in clients /\ c \in Clients
      /\ thread[t].flow \in Flows /\ fwd[c] # << >> /\ fwd[c] \in Seq(Entries) /\ OneEach(fwd[c])
  BY Locals DEF EvictForward, Knows, Busy, Leaving, Holding
<1>2. /\ e \in In(fwd[c]) /\ e \in Entries /\ Tail(fwd[c]) \in Seq(Entries)
      /\ Len(Tail(fwd[c])) = Len(fwd[c]) - 1
      /\ In(fwd[c]) = In(Tail(fwd[c])) \cup {e}
      /\ OneEach(Tail(fwd[c])) /\ \A x \in In(Tail(fwd[c])) : x.flow # e.flow
  BY <1>1, EvictedEntries
<1>3. /\ fwd' = [fwd EXCEPT ![c] = Tail(fwd[c])] /\ UNCHANGED <<clients, rev, gateway>>
      /\ thread' = Disturbed(c, state)
      /\ raced' = IF BeingDropped(c) \/ HalfEntered(e.port) THEN raced \cup {e.port} ELSE raced
  BY DEF EvictForward, Meets
<1> HIDE DEF e
<1>4. e.port \in Ports
  BY <1>2 DEF Entries
<1>5. /\ r \in ThreadStates /\ r.pc = "forget" /\ r.client = c /\ r.port = e.port
      /\ r.flow = thread[t].flow
  BY <1>1, <1>4 DEF ThreadStates
<1> HIDE DEF r
<1>6. /\ state \in [Threads -> ThreadStates] /\ state[t] = r
      /\ \A u \in Threads \ {t} : state[u] = thread[u]
  BY <1>5, Locals
<1> HIDE DEF state
<1>7. /\ thread' \in [Threads -> ThreadStates]
      /\ \A u \in Threads : /\ Kept(thread'[u], state[u])
                            /\ Dropping(u, c) /\ thread[u].todo # {} => thread'[u].changed
  BY <1>3, <1>6, DisturbedThreads
<1>8. Kept(thread'[t], r) /\ Others(t)
  BY <1>6, <1>7 DEF Others, Same, Kept
<1>9. \A u \in Threads \ {t} : Knows(thread'[u], clients, fwd')
  BY <1>1, <1>3, <1>6, <1>7, StillKnows
<1>10. Knows(thread'[t], clients, fwd')
  BY <1>1, <1>4, <1>5, <1>8 DEF Knows, Kept, Busy, Holding, WithPort, Leaving
<1>11. \A u \in Threads : thread'[u].pc \in Leaving => thread[u].pc \in Leaving
  BY <1>5, <1>8 DEF Others, Same, Kept, Leaving
<1>12. raced' \subseteq Ports
  BY <1>3, <1>4, Locals
<1>13. LocalInv'
  BY <1>1, <1>2, <1>3, <1>7, <1>9, <1>10, <1>11, <1>12, OneTable
<1>14. fwd'[c] = Tail(fwd[c]) /\ \A d \in Clients \ {c} : fwd'[d] = fwd[d]
  BY <1>1, <1>3, Locals
<1>15. In(fwd'[c]) = In(fwd[c]) \ {e}
  BY <1>2, <1>14
<1>16. QED
  BY <1>1, <1>2, <1>3, <1>5, <1>8, <1>13, <1>14, <1>15 DEF Kept

LEMMA EvictReverseEffect ==
    ASSUME LocalInv, NEW t \in Threads, EvictReverse(t)
    PROVE  LET p == thread[t].port
           IN  /\ LocalInv' /\ thread[t].pc = "forget" /\ p \in Ports
               /\ rev'[p] = None /\ \A q \in Ports \ {p} : rev'[q] = rev[q]
               /\ thread'[t].pc = "allocate" /\ thread'[t].client = thread[t].client
               /\ thread'[t].nobodys = thread[t].nobodys
               /\ Others(t) /\ UNCHANGED <<clients, fwd, raced>>
<1> DEFINE p == thread[t].port
           r == [thread[t] EXCEPT !.port = None, !.pc = "allocate"]
<1>1. /\ thread[t].pc = "forget" /\ thread[t] \in ThreadStates /\ Knows(thread[t], clients, fwd)
      /\ p \in Ports
  BY Locals DEF EvictReverse, Knows, WithPort
<1>2. /\ r \in ThreadStates /\ r.pc = "allocate" /\ r.client = thread[t].client
      /\ r.flow = thread[t].flow /\ r.nobodys = thread[t].nobodys
  BY <1>1 DEF ThreadStates
<1>3. /\ thread' = [thread EXCEPT ![t] = r] /\ rev' = [rev EXCEPT ![p] = None]
      /\ UNCHANGED <<clients, fwd, gateway, raced>>
  BY DEF EvictReverse
<1> HIDE DEF r
<1>4. Knows(r, clients, fwd) /\ r.pc \notin Leaving
  BY <1>1, <1>2 DEF Knows, Busy, Holding, WithPort, Leaving
<1>5. /\ rev' \in [Ports -> (Clients \X Flows) \cup {None}]
      /\ rev'[p] = None /\ \A q \in Ports \ {p} : rev'[q] = rev[q]
  BY <1>1, <1>3, Locals
<1>6. LocalInv'
  BY <1>2, <1>3, <1>4, <1>5, OnlyThread, Locals
<1>7. QED
  BY <1>1, <1>2, <1>3, <1>5, <1>6, OthersSame

LEMMA AllocateEffect ==
    ASSUME LocalInv, NEW t \in Threads, NEW p \in Ports, Allocate(t, p)
    PROVE  /\ LocalInv' /\ thread[t].pc = "allocate" /\ rev[p] = None
           /\ thread'[t].pc = "insert" /\ thread'[t].client = thread[t].client
           /\ thread'[t].port = p /\ thread'[t].nobodys = thread[t].nobodys
           /\ Others(t) /\ UNCHANGED <<clients, fwd, rev>>
           /\ raced' = IF Chosen(p) THEN raced \cup {p} ELSE raced
<1> DEFINE r == [thread[t] EXCEPT !.port = p, !.pc = "insert"]
<1>1. thread[t].pc = "allocate" /\ thread[t] \in ThreadStates /\ Knows(thread[t], clients, fwd)
  BY Locals DEF Allocate
<1>2. /\ r \in ThreadStates /\ r.pc = "insert" /\ r.client = thread[t].client /\ r.port = p
      /\ r.flow = thread[t].flow /\ r.nobodys = thread[t].nobodys
  BY <1>1 DEF ThreadStates
<1>3. /\ thread' = [thread EXCEPT ![t] = r] /\ rev[p] = None
      /\ UNCHANGED <<clients, fwd, rev, gateway>>
      /\ raced' = IF Chosen(p) THEN raced \cup {p} ELSE raced
  BY DEF Allocate, Meets
<1> HIDE DEF r
<1>4. Knows(r, clients, fwd) /\ r.pc \notin Leaving
  BY <1>1, <1>2 DEF Knows, Busy, Holding, WithPort, Leaving
<1>5. raced' \subseteq Ports
  BY <1>3, Locals
<1>6. LocalInv'
  BY <1>2, <1>3, <1>4, <1>5, OnlyThread, Locals
<1>7. QED
  BY <1>1, <1>2, <1>3, <1>6, OthersSame

LEMMA InsertForwardEffect ==
    ASSUME LocalInv, NEW t \in Threads, InsertForward(t)
    PROVE  LET c == thread[t].client
               f == thread[t].flow
               p == thread[t].port
           IN  /\ LocalInv' /\ thread[t].pc = "insert" /\ ~thread[t].nobodys
               /\ c \in clients /\ f \in Flows /\ p \in Ports
               /\ In(fwd'[c]) = {e \in In(fwd[c]) : e.flow # f} \cup {[flow |-> f, port |-> p]}
               /\ Len(fwd'[c]) = (IF HasFlow(fwd[c], f) THEN Len(fwd[c]) ELSE Len(fwd[c]) + 1)
               /\ \A d \in Clients \ {c} : fwd'[d] = fwd[d]
               /\ thread'[t].pc = "reverse" /\ thread'[t].client = c
               /\ thread'[t].flow = f /\ thread'[t].port = p
               /\ Others(t) /\ UNCHANGED <<clients, rev>>
               /\ raced \subseteq raced'
               /\ \A e \in In(fwd[c]) : e.flow = f => e.port \in raced'
               /\ BeingDropped(c) => p \in raced'
<1> DEFINE c == thread[t].client
           f == thread[t].flow
           p == thread[t].port
           table == Entered(fwd[c], f, p)
           r == [thread[t] EXCEPT !.pc = "reverse"]
           state == [thread EXCEPT ![t] = r]
           old == {e.port : e \in {x \in EntriesOf(c) : x.flow = f}}
<1>1. /\ thread[t].pc = "insert" /\ ~thread[t].nobodys /\ thread[t] \in ThreadStates
      /\ c \in clients /\ c \in Clients /\ f \in Flows /\ p \in Ports
      /\ fwd[c] \in Seq(Entries) /\ OneEach(fwd[c])
  BY Locals DEF InsertForward, Knows, Busy, Leaving, Holding, WithPort
<1>2. /\ table \in Seq(Entries) /\ OneEach(table)
      /\ Len(table) = (IF HasFlow(fwd[c], f) THEN Len(fwd[c]) ELSE Len(fwd[c]) + 1)
      /\ In(table) = {e \in In(fwd[c]) : e.flow # f} \cup {[flow |-> f, port |-> p]}
  BY <1>1, EnteredEntries
<1>3. /\ fwd' = [fwd EXCEPT ![c] = table] /\ UNCHANGED <<clients, rev, gateway>>
      /\ thread' = (IF Has(c, f) THEN state ELSE Disturbed(c, state))
      /\ raced' = raced \cup old \cup (IF BeingDropped(c) THEN {p} ELSE {})
  BY DEF InsertForward
<1> HIDE DEF table
<1>4. /\ r \in ThreadStates /\ r.pc = "reverse" /\ r.client = c /\ r.port = p /\ r.flow = f
      /\ r.nobodys = thread[t].nobodys
  BY <1>1 DEF ThreadStates
<1> HIDE DEF r
<1>5. /\ state \in [Threads -> ThreadStates] /\ state[t] = r
      /\ \A u \in Threads \ {t} : state[u] = thread[u]
  BY <1>4, Locals
<1> HIDE DEF state
<1>6. /\ thread' \in [Threads -> ThreadStates]
      /\ \A u \in Threads : Kept(thread'[u], state[u])
  <2>1. CASE thread' = state
    BY <1>5, <2>1 DEF Kept
  <2>2. CASE thread' = Disturbed(c, state)
    BY <1>5, <2>2, DisturbedThreads
  <2>3. QED
    BY <1>3, <2>1, <2>2
<1>7. Kept(thread'[t], r) /\ Others(t)
  BY <1>5, <1>6 DEF Others, Same, Kept
<1>8. \A u \in Threads \ {t} : Knows(thread'[u], clients, fwd')
  <2>1. \A g \in Flows : HasFlow(fwd[c], g) => HasFlow(table, g)
    BY <1>2 DEF HasFlow
  <2>2. QED
    BY <1>1, <1>3, <1>5, <1>6, <2>1, StillKnows
<1>9. Knows(thread'[t], clients, fwd')
  BY <1>1, <1>4, <1>7 DEF Knows, Kept, Busy, Holding, WithPort, Leaving
<1>10. \A u \in Threads : thread'[u].pc \in Leaving => thread[u].pc \in Leaving
  BY <1>4, <1>7 DEF Others, Same, Kept, Leaving
<1>11. old = {e.port : e \in {x \in In(fwd[c]) : x.flow = f}} /\ old \subseteq Ports
  <2>1. EntriesOf(c) = In(fwd[c])
    BY <1>1, TablesAsSets
  <2>2. \A x \in In(fwd[c]) : x.port \in Ports
    BY <1>1, InType DEF Entries
  <2>3. QED
    BY <2>1, <2>2
<1>12. raced' \subseteq Ports
  BY <1>1, <1>3, <1>11, Locals
<1>13. LocalInv'
  BY <1>1, <1>2, <1>3, <1>6, <1>8, <1>9, <1>10, <1>12, OneTable
<1>14. fwd'[c] = table /\ \A d \in Clients \ {c} : fwd'[d] = fwd[d]
  BY <1>1, <1>3, Locals
<1>15. /\ raced \subseteq raced' /\ \A e \in In(fwd[c]) : e.flow = f => e.port \in raced'
       /\ BeingDropped(c) => p \in raced'
  BY <1>3, <1>11
<1>16. QED
  BY <1>1, <1>2, <1>3, <1>4, <1>7, <1>13, <1>14, <1>15 DEF Kept

LEMMA InsertNobodysEffect ==
    ASSUME LocalInv, NEW t \in Threads, InsertNobodys(t)
    PROVE  LET p == thread[t].port
           IN  /\ LocalInv' /\ thread[t].pc = "insert" /\ p \in Ports
               /\ thread'[t].pc = "reverse" /\ thread'[t].port = p
               /\ Others(t) /\ UNCHANGED <<clients, fwd, rev>>
               /\ raced' = raced \cup {p}
<1> DEFINE p == thread[t].port
           r == [thread[t] EXCEPT !.pc = "reverse"]
<1>1. /\ thread[t].pc = "insert" /\ thread[t] \in ThreadStates /\ Knows(thread[t], clients, fwd)
      /\ p \in Ports
  BY Locals DEF InsertNobodys, Knows, WithPort
<1>2. /\ r \in ThreadStates /\ r.pc = "reverse" /\ r.client = thread[t].client /\ r.port = p
      /\ r.flow = thread[t].flow /\ r.nobodys = thread[t].nobodys
  BY <1>1 DEF ThreadStates
<1>3. /\ thread' = [thread EXCEPT ![t] = r] /\ raced' = raced \cup {p}
      /\ UNCHANGED <<clients, fwd, rev, gateway>>
  BY DEF InsertNobodys, Meets
<1> HIDE DEF r
<1>4. Knows(r, clients, fwd) /\ r.pc \notin Leaving
  BY <1>1, <1>2 DEF Knows, Busy, Holding, WithPort, Leaving
<1>5. raced' \subseteq Ports
  BY <1>1, <1>3, Locals
<1>6. LocalInv'
  BY <1>2, <1>3, <1>4, <1>5, OnlyThread, Locals
<1>7. QED
  BY <1>1, <1>2, <1>3, <1>6, OthersSame

LEMMA InsertReverseEffect ==
    ASSUME LocalInv, NEW t \in Threads, InsertReverse(t)
    PROVE  LET p == thread[t].port
               v == <<thread[t].client, thread[t].flow>>
           IN  /\ LocalInv' /\ thread[t].pc = "reverse" /\ p \in Ports
               /\ thread[t].client \in Clients /\ thread[t].flow \in Flows
               /\ rev'[p] = v /\ \A q \in Ports \ {p} : rev'[q] = rev[q]
               /\ thread'[t].pc = "idle"
               /\ Others(t) /\ UNCHANGED <<clients, fwd, raced>>
<1> DEFINE p == thread[t].port
           v == <<thread[t].client, thread[t].flow>>
           r == InSession(thread[t].home)
<1>1. /\ thread[t].pc = "reverse" /\ thread[t] \in ThreadStates
      /\ p \in Ports /\ thread[t].client \in Clients /\ thread[t].flow \in Flows
  BY Locals DEF InsertReverse, Knows, WithPort, Busy, Leaving
<1>2. r \in ThreadStates /\ r.pc = "idle"
  BY <1>1, Sessions DEF ThreadStates
<1>3. /\ thread' = [thread EXCEPT ![t] = r] /\ rev' = [rev EXCEPT ![p] = v]
      /\ UNCHANGED <<clients, fwd, gateway, raced>>
  BY DEF InsertReverse
<1> HIDE DEF r
<1>4. Knows(r, clients, fwd) /\ r.pc \notin Leaving
  BY <1>2, NothingToKnow DEF Leaving
<1>5. v \in Clients \X Flows
  BY <1>1
<1> HIDE DEF v
<1>6. /\ rev' \in [Ports -> (Clients \X Flows) \cup {None}]
      /\ rev'[p] = v /\ \A q \in Ports \ {p} : rev'[q] = rev[q]
  BY <1>1, <1>3, <1>5, Locals
<1>7. LocalInv'
  BY <1>2, <1>3, <1>4, <1>6, OnlyThread, Locals
<1>8. QED
  BY <1>1, <1>2, <1>3, <1>6, <1>7, OthersSame DEF v

\* unregister_client.

LEMMA UnregisterClientEffect ==
    ASSUME LocalInv, NEW t \in Threads, UnregisterClient(t)
    PROVE  \E c \in clients :
               /\ LocalInv' /\ thread[t].pc \in {"idle", "unregister"}
               /\ \A u \in Threads : thread[u].pc \notin Leaving
               /\ thread'[t].pc = "dropping" /\ thread'[t].client = c
               /\ thread'[t].todo = {e.flow : e \in In(fwd[c])}
               /\ Others(t) /\ UNCHANGED <<clients, fwd, rev, raced>>
<1> DEFINE c == thread[t].home
           flows == {e.flow : e \in EntriesOf(c)}
           r == [InSession(c) EXCEPT !.pc = "dropping", !.client = c, !.todo = flows]
<1>1. thread[t].pc \in {"idle", "unregister"} /\ c \in clients /\ c \in Clients /\ ~Locked
  BY Locals DEF UnregisterClient
<1>2. /\ thread' = [thread EXCEPT ![t] = r]
      /\ UNCHANGED <<clients, fwd, rev, gateway, raced>>
  BY DEF UnregisterClient
<1>3. flows = {e.flow : e \in In(fwd[c])} /\ flows \subseteq Flows
  <2>1. EntriesOf(c) = In(fwd[c])
    BY <1>1, TablesAsSets
  <2>2. \A x \in In(fwd[c]) : x.flow \in Flows
    BY <1>1, InType, Locals DEF Entries
  <2>3. QED
    BY <2>1, <2>2
<1> HIDE DEF flows
<1>4. r \in ThreadStates /\ r.pc = "dropping" /\ r.client = c /\ r.todo = flows
  BY <1>1, <1>3 DEF ThreadStates, InSession, NoSession
<1> HIDE DEF r, c
<1>5. Knows(r, clients, fwd)
  <2>1. \A f \in flows : HasFlow(fwd[c], f)
    BY <1>3 DEF HasFlow
  <2>2. QED
    BY <1>1, <1>4, <2>1 DEF Knows, Busy, Holding, WithPort, Leaving
<1>6. \A u \in Threads : thread[u].pc \notin Leaving
  BY <1>1 DEF Locked, Leaving
<1>7. LocalInv'
  BY <1>1, <1>2, <1>4, <1>5, OnlyThread, Locals
<1>8. QED
  BY <1>1, <1>2, <1>3, <1>4, <1>6, <1>7, OthersSame

LEMMA DropNextEffect ==
    ASSUME LocalInv, NEW t \in Threads, NEW f \in Flows, DropNext(t, f)
    PROVE  \E e \in Entries :
           LET c == thread[t].client
           IN  /\ LocalInv' /\ thread[t].pc = "dropping" /\ c \in clients /\ f \in thread[t].todo
               /\ e \in In(fwd[c]) /\ e.flow = f
               /\ thread'[t].pc = "drop" /\ thread'[t].client = c /\ thread'[t].port = e.port
               /\ thread'[t].todo = thread[t].todo \ {f}
               /\ Others(t) /\ UNCHANGED <<clients, fwd, rev>>
               /\ raced' = IF HalfEntered(e.port) THEN raced \cup {e.port} ELSE raced
<1> DEFINE c == thread[t].client
<1>1. /\ thread[t].pc = "dropping" /\ ~thread[t].changed /\ thread[t] \in ThreadStates
      /\ f \in thread[t].todo /\ Knows(thread[t], clients, fwd)
  BY Locals DEF DropNext
<1>2. c \in clients /\ c \in Clients /\ HasFlow(fwd[c], f)
  BY <1>1 DEF Knows, Leaving, Busy
<1>3. PICK e \in In(fwd[c]) : e.flow = f
  BY <1>2 DEF HasFlow
<1>4. fwd[c] \in Seq(Entries) /\ OneEach(fwd[c]) /\ e \in Entries
  BY <1>2, InType, Locals
<1>5. fwd[c][At(fwd[c], f)] = e
  BY <1>3, <1>4, EntryAt
<1> DEFINE p == e.port
           r == [thread[t] EXCEPT !.pc = "drop", !.port = p, !.todo = thread[t].todo \ {f}]
<1>6. /\ thread' = [thread EXCEPT ![t] = r] /\ UNCHANGED <<clients, fwd, rev, gateway>>
      /\ raced' = IF HalfEntered(p) THEN raced \cup {p} ELSE raced
  BY <1>5 DEF DropNext, Meets
<1>7. p \in Ports
  BY <1>4 DEF Entries
<1> HIDE DEF p
<1>8. /\ r \in ThreadStates /\ r.pc = "drop" /\ r.client = c /\ r.port = p
      /\ r.todo = thread[t].todo \ {f}
  BY <1>1, <1>7 DEF ThreadStates
<1>9. r.changed = thread[t].changed
  BY <1>1 DEF ThreadStates
<1> HIDE DEF r
<1>10. Knows(r, clients, fwd)
  BY <1>1, <1>2, <1>7, <1>8, <1>9 DEF Knows, Busy, Holding, WithPort, Leaving
<1>11. raced' \subseteq Ports
  BY <1>6, <1>7, Locals
<1>12. LocalInv'
  BY <1>1, <1>6, <1>8, <1>10, <1>11, OnlyThread, Locals DEF Leaving
<1>13. QED
  BY <1>1, <1>2, <1>3, <1>4, <1>6, <1>8, <1>12, OthersSame DEF p

LEMMA DropReverseEffect ==
    ASSUME LocalInv, NEW t \in Threads, DropReverse(t)
    PROVE  LET p == thread[t].port
           IN  /\ LocalInv' /\ thread[t].pc = "drop" /\ p \in Ports
               /\ rev'[p] = None /\ \A q \in Ports \ {p} : rev'[q] = rev[q]
               /\ thread'[t].pc = "dropping" /\ thread'[t].client = thread[t].client
               /\ thread'[t].todo = thread[t].todo
               /\ Others(t) /\ UNCHANGED <<clients, fwd, raced>>
<1> DEFINE p == thread[t].port
           r == [thread[t] EXCEPT !.pc = "dropping", !.port = None]
<1>1. /\ thread[t].pc = "drop" /\ thread[t] \in ThreadStates /\ Knows(thread[t], clients, fwd)
      /\ p \in Ports
  BY Locals DEF DropReverse, Knows, WithPort
<1>2. /\ r \in ThreadStates /\ r.pc = "dropping" /\ r.client = thread[t].client
      /\ r.todo = thread[t].todo /\ r.changed = thread[t].changed
  BY <1>1 DEF ThreadStates
<1>3. /\ thread' = [thread EXCEPT ![t] = r] /\ rev' = [rev EXCEPT ![p] = None]
      /\ UNCHANGED <<clients, fwd, gateway, raced>>
  BY DEF DropReverse
<1> HIDE DEF r
<1>4. Knows(r, clients, fwd)
  BY <1>1, <1>2 DEF Knows, Busy, Holding, WithPort, Leaving
<1>5. /\ rev' \in [Ports -> (Clients \X Flows) \cup {None}]
      /\ rev'[p] = None /\ \A q \in Ports \ {p} : rev'[q] = rev[q]
  BY <1>1, <1>3, Locals
<1>6. LocalInv'
  BY <1>1, <1>2, <1>3, <1>4, <1>5, OnlyThread, Locals DEF Leaving
<1>7. QED
  BY <1>1, <1>2, <1>3, <1>5, <1>6, OthersSame

LEMMA DropFailsEffect ==
    ASSUME LocalInv, NEW t \in Threads, DropFails(t)
    PROVE  LET c == thread[t].client
           IN  /\ LocalInv' /\ thread[t].pc = "dropping" /\ c \in Clients
               /\ thread'[t].pc = "idle"
               /\ Others(t) /\ UNCHANGED <<clients, fwd, rev>>
               /\ raced \subseteq raced'
               /\ \A e \in In(fwd[c]) : e.flow \notin thread[t].todo => e.port \in raced'
<1> DEFINE c == thread[t].client
           gone == {e.port : e \in {x \in EntriesOf(c) : x.flow \notin thread[t].todo}}
<1>1. thread[t].pc = "dropping" /\ c \in Clients
  BY Locals DEF DropFails, Knows, Busy, Leaving
<1>2. /\ thread' = [thread EXCEPT ![t] = NoSession] /\ raced' = raced \cup gone
      /\ UNCHANGED <<clients, fwd, rev, gateway>>
  BY DEF DropFails
<1>3. EntriesOf(c) = In(fwd[c])
  BY <1>1, TablesAsSets
<1>4. \A x \in In(fwd[c]) : x.port \in Ports
  BY <1>1, InType, Locals DEF Entries
<1>5. raced' \subseteq Ports
  BY <1>2, <1>3, <1>4, Locals
<1>6. \A e \in In(fwd[c]) : e.flow \notin thread[t].todo => e.port \in raced'
  BY <1>2, <1>3
<1>7. Knows(NoSession, clients, fwd) /\ NoSession.pc \notin Leaving
  BY Sessions, NothingToKnow DEF Leaving
<1>8. LocalInv'
  BY <1>2, <1>5, <1>7, Sessions, OnlyThread, Locals
<1>9. QED
  BY <1>1, <1>2, <1>6, <1>8, Sessions, OthersSame

\* A thread whose table is dropped under it.
LEMMA DropClientEffect ==
    ASSUME LocalInv, NEW t \in Threads, DropClient(t)
    PROVE  LET c == thread[t].client
           IN  /\ LocalInv' /\ thread[t].pc = "dropping" /\ c \in clients
               /\ thread[t].todo = {} /\ clients' = clients \ {c}
               /\ fwd'[c] = << >> /\ \A d \in Clients \ {c} : fwd'[d] = fwd[d]
               /\ thread'[t].pc = "idle" /\ UNCHANGED <<rev, raced>>
               /\ \A u \in Threads \ {t} :
                    \/ thread[u].client # c /\ Same(u)
                    \/ thread[u].client = c /\ thread[u].pc = "touch" /\ thread'[u].pc = "idle"
                    \/ /\ thread[u].client = c /\ thread'[u].nobodys
                       /\ thread'[u].pc = thread[u].pc /\ thread'[u].client = thread[u].client
                       /\ thread'[u].flow = thread[u].flow /\ thread'[u].port = thread[u].port
                       /\ thread'[u].todo = thread[u].todo
<1> DEFINE c == thread[t].client
<1>1. thread[t].pc = "dropping" /\ c \in Clients /\ c \in clients /\ thread[t].todo = {}
  BY Locals DEF DropClient, Knows, Busy, Leaving
<1>2. /\ clients' = clients \ {c} /\ fwd' = [fwd EXCEPT ![c] = << >>] /\ UNCHANGED <<rev, raced>>
      /\ gateway' = gateway \/ gateway' = GatewayIdle
  BY DEF DropClient
<1>3. /\ thread' = [u \in Threads |-> thread'[u]] /\ thread'[t] = NoSession
      /\ \A u \in Threads \ {t} :
            thread'[u] = IF thread[u].client # c THEN thread[u]
                         ELSE IF thread[u].pc = "touch" THEN InSession(thread[u].home)
                         ELSE [thread[u] EXCEPT !.nobodys = TRUE]
  BY DEF DropClient
<1> HIDE DEF c
<1>4. << >> \in Seq(Entries) /\ OneEach(<< >>)
  BY DEF OneEach
<1>5. /\ fwd' \in [Clients -> Seq(Entries)] /\ fwd'[c] = << >>
      /\ \A d \in Clients \ {c} : fwd'[d] = fwd[d]
  BY <1>1, <1>2, <1>4, Locals
<1>6. ASSUME NEW u \in Threads \ {t}
      PROVE  /\ thread'[u] \in ThreadStates
             /\ \/ thread[u].client # c /\ thread'[u] = thread[u]
                \/ thread[u].client = c /\ thread[u].pc = "touch" /\ thread'[u].pc = "idle"
                \/ /\ thread[u].client = c /\ thread'[u].nobodys
                   /\ thread'[u].pc = thread[u].pc /\ thread'[u].client = thread[u].client
                   /\ thread'[u].flow = thread[u].flow /\ thread'[u].port = thread[u].port
                   /\ thread'[u].todo = thread[u].todo
  <2>1. thread[u] \in ThreadStates /\ thread[u].home \in Clients \cup {None}
    BY Locals DEF ThreadStates
  <2>2. CASE thread[u].client # c
    BY <1>3, <2>1, <2>2
  <2>3. CASE thread[u].client = c /\ thread[u].pc = "touch"
    BY <1>3, <2>1, <2>3, Sessions
  <2>4. CASE thread[u].client = c /\ thread[u].pc # "touch"
    <3> DEFINE r == [thread[u] EXCEPT !.nobodys = TRUE]
    <3>1. thread'[u] = r
      BY <1>3, <2>4
    <3>2. /\ r \in ThreadStates /\ r.nobodys /\ r.pc = thread[u].pc /\ r.client = thread[u].client
          /\ r.flow = thread[u].flow /\ r.port = thread[u].port /\ r.todo = thread[u].todo
      BY <2>1 DEF ThreadStates
    <3>3. QED
      BY <2>4, <3>1, <3>2
  <2>5. QED
    BY <2>2, <2>3, <2>4
<1>7. thread' \in [Threads -> ThreadStates]
  BY <1>3, <1>6, Sessions
<1>8. \A u \in Threads \ {t} : thread[u].pc \notin Leaving
  BY <1>1 DEF LocalInv, OneLeaver, Leaving
<1>9. ASSUME NEW u \in Threads PROVE Knows(thread'[u], clients', fwd') /\ thread'[u].pc \notin Leaving
  <2>1. CASE u = t
    BY <1>3, <2>1, Sessions, NothingToKnow DEF Leaving
  <2>2. CASE u # t
    <3>1. Knows(thread[u], clients, fwd) /\ thread[u].pc \notin Leaving
      BY <1>8, <2>2, Locals
    <3>2. CASE thread[u].client # c /\ thread'[u] = thread[u]
      BY <1>2, <3>1, <3>2 DEF Knows
    <3>3. CASE thread'[u].pc = "idle"
      BY <3>3, NothingToKnow DEF Leaving
    <3>4. CASE /\ thread'[u].nobodys
               /\ thread'[u].pc = thread[u].pc /\ thread'[u].client = thread[u].client
               /\ thread'[u].flow = thread[u].flow /\ thread'[u].port = thread[u].port
      BY <3>1, <3>4 DEF Knows
    <3>5. QED
      BY <1>6, <2>2, <3>2, <3>3, <3>4
  <2>3. QED
    BY <2>1, <2>2
<1>10. TypeOK'
  BY <1>2, <1>5, <1>7, Locals DEF LocalInv, TypeOK, ThreadStates, GatewayIdle
<1>11. ThreadLocals' /\ OneLeaver'
  BY <1>9 DEF ThreadLocals, OneLeaver
<1>12. GatewayLocals'
  BY <1>2 DEF LocalInv, GatewayLocals, GatewayIdle
<1>13. NobodyHasNothing' /\ FlowsOnce'
  BY <1>2, <1>4, <1>5 DEF LocalInv, NobodyHasNothing, FlowsOnce
<1>14. LocalInv'
  BY <1>10, <1>11, <1>12, <1>13 DEF LocalInv
<1>15. \A u \in Threads \ {t} : thread'[u] = thread[u] => Same(u)
  BY DEF Same
<1>16. QED
  BY <1>1, <1>2, <1>3, <1>5, <1>6, <1>14, <1>15, Sessions DEF c

-----------------------------------------------------------------------------
\* How far a table grows.

LEMMA GrantedFinite == ASSUME NEW c PROVE /\ IsFiniteSet(Granted(c)) /\ Granted(c) \subseteq Threads
                                          /\ Cardinality(Granted(c)) \in Nat
                                          /\ Cardinality(Granted(c)) <= Cardinality(Threads)
                                          /\ Cardinality(Threads) \in Nat \ {0}
<1>1. Granted(c) \subseteq Threads
  BY DEF Granted
<1>2. IsFiniteSet(Threads) /\ Threads # {}
  BY NATConstants
<1>3. Cardinality(Threads) \in Nat /\ Cardinality(Threads) # 0
  BY <1>2, FS_CardinalityType, FS_EmptySet
<1>4. QED
  BY <1>1, <1>2, <1>3, FS_Subset, FS_CardinalityType

\* The same for a later state.
LEMMA GrantedLater == ASSUME NEW c PROVE /\ IsFiniteSet(Granted(c)') /\ Granted(c)' \subseteq Threads
                                         /\ Cardinality(Granted(c)') \in Nat
                                         /\ Cardinality(Granted(c)') <= Cardinality(Threads)
<1>1. Granted(c)' \subseteq Threads
  BY DEF Granted
<1>2. QED
  BY <1>1, NATConstants, FS_Subset, FS_CardinalityType

RoomFor(c) == Len(fwd[c]) + Cardinality(Granted(c)) <= MaxPerClient + (Cardinality(Threads) - 1)

LEMMA RoomKept ==
    ASSUME LocalInv, LocalInv', NEW c \in Clients, RoomFor(c),
           Len(fwd'[c]) <= Len(fwd[c]), Granted(c)' \subseteq Granted(c)
    PROVE  RoomFor(c)'
<1>1. Cardinality(Granted(c)') <= Cardinality(Granted(c))
  BY GrantedFinite, FS_Subset
<1>2. Len(fwd[c]) \in Nat /\ Len(fwd'[c]) \in Nat
  <2>1. fwd[c] \in Seq(Entries)
    BY Locals
  <2>2. fwd'[c] \in Seq(Entries)
    BY DEF LocalInv, TypeOK
  <2>3. QED
    BY <2>1, <2>2
<1>3. QED
  BY <1>1, <1>2, GrantedFinite, GrantedLater, NATConstants DEF RoomFor

LEMMA CalmRoom == ASSUME LocalInv, LocalInv', RoomGranted, Calm PROVE RoomGranted'
<1> SUFFICES ASSUME NEW c \in Clients PROVE RoomFor(c)'
  BY DEF RoomGranted, RoomFor
<1>1. RoomFor(c)
  BY DEF RoomGranted, RoomFor
<1>2. Len(fwd'[c]) = Len(fwd[c]) /\ Len(fwd[c]) \in Nat
  BY Locals DEF Calm
<1>3. CASE Len(fwd[c]) < MaxPerClient
  BY <1>2, <1>3, GrantedFinite, GrantedLater, NATConstants, SMTT(30) DEF RoomFor
<1>4. CASE ~(Len(fwd[c]) < MaxPerClient)
  <2>1. Granted(c)' \subseteq Granted(c)
    <3> SUFFICES ASSUME NEW u \in Threads, u \in Granted(c)' PROVE u \in Granted(c)
      BY DEF Granted
    <3>1. thread'[u].pc \in {"forget", "allocate", "insert"} /\ thread'[u].client = c /\ ~thread'[u].nobodys
      BY DEF Granted
    <3>2. Same(u)
      BY <1>4, <3>1 DEF Calm, Ported, WithPort
    <3>3. QED
      BY <3>1, <3>2 DEF Granted, Same
  <2>2. QED
    BY <1>1, <1>2, <2>1, RoomKept
<1>5. QED
  BY <1>3, <1>4

LEMMA EvictForwardRoom ==
    ASSUME LocalInv, RoomGranted, NEW t \in Threads, EvictForward(t) PROVE RoomGranted'
<1> DEFINE c == thread[t].client
<1>1. /\ LocalInv' /\ thread[t].pc = "evict" /\ Len(fwd'[c]) = Len(fwd[c]) - 1
      /\ \A d \in Clients \ {c} : fwd'[d] = fwd[d]
      /\ thread'[t].client = c /\ Others(t)
  BY EvictForwardEffect
<1> SUFFICES ASSUME NEW d \in Clients PROVE RoomFor(d)'
  BY DEF RoomGranted, RoomFor
<1>2. RoomFor(d)
  BY DEF RoomGranted, RoomFor
<1>3. \A u \in Threads \ {t} : u \in Granted(d)' => u \in Granted(d)
  BY <1>1 DEF Granted, Others, Same
<1>4. CASE d # c
  <2>1. t \notin Granted(d)'
    BY <1>1, <1>4 DEF Granted
  <2>2. Granted(d)' \subseteq Granted(d)
    BY <1>3, <2>1, GrantedLater
  <2>3. Len(fwd'[d]) <= Len(fwd[d])
    BY <1>1, <1>4, Locals
  <2>4. QED
    BY <1>1, <1>2, <2>2, <2>3, RoomKept
<1>5. CASE d = c
  <2>1. Granted(d)' \subseteq Granted(d) \cup {t}
    BY <1>3, GrantedLater
  <2>2. IsFiniteSet(Granted(d) \cup {t}) /\ Cardinality(Granted(d) \cup {t}) <= Cardinality(Granted(d)) + 1
    BY GrantedFinite, FS_AddElement, SMTT(30)
  <2>3. Cardinality(Granted(d)') <= Cardinality(Granted(d) \cup {t})
    BY <2>1, <2>2, FS_Subset
  <2>4. Cardinality(Granted(d) \cup {t}) \in Nat
    BY <2>2, FS_CardinalityType
  <2>5. Len(fwd[d]) \in Nat /\ Len(fwd'[d]) = Len(fwd[d]) - 1
    BY <1>1, <1>5, Locals
  <2> HIDE DEF c
  <2>6. QED
    BY <1>2, <2>2, <2>3, <2>4, <2>5, GrantedFinite, GrantedLater, NATConstants, SMTT(30) DEF RoomFor
<1>6. QED
  BY <1>4, <1>5

LEMMA InsertForwardRoom ==
    ASSUME LocalInv, RoomGranted, NEW t \in Threads, InsertForward(t) PROVE RoomGranted'
<1> DEFINE c == thread[t].client
<1>1. /\ LocalInv' /\ thread[t].pc = "insert" /\ ~thread[t].nobodys /\ thread'[t].pc = "reverse"
      /\ \A d \in Clients \ {c} : fwd'[d] = fwd[d]
      /\ Others(t)
      /\ Len(fwd'[c]) = Len(fwd[c]) \/ Len(fwd'[c]) = Len(fwd[c]) + 1
  BY InsertForwardEffect
<1> SUFFICES ASSUME NEW d \in Clients PROVE RoomFor(d)'
  BY DEF RoomGranted, RoomFor
<1>2. RoomFor(d)
  BY DEF RoomGranted, RoomFor
<1>3. \A u \in Threads \ {t} : u \in Granted(d)' => u \in Granted(d)
  BY <1>1 DEF Granted, Others, Same
<1>4. t \notin Granted(d)'
  BY <1>1 DEF Granted
<1>5. Granted(d)' \subseteq Granted(d) \ {t}
  BY <1>3, <1>4, GrantedLater
<1>6. CASE d # c
  <2>1. Len(fwd'[d]) <= Len(fwd[d])
    BY <1>1, <1>6, Locals
  <2>2. QED
    BY <1>1, <1>2, <1>5, <2>1, RoomKept
<1>7. CASE d = c
  <2>1. t \in Granted(d)
    BY <1>1, <1>7 DEF Granted
  <2>2. IsFiniteSet(Granted(d) \ {t}) /\ Cardinality(Granted(d) \ {t}) = Cardinality(Granted(d)) - 1
    BY <2>1, GrantedFinite, FS_RemoveElement
  <2>3. Cardinality(Granted(d)') <= Cardinality(Granted(d) \ {t})
    BY <1>5, <2>2, FS_Subset
  <2>4. Len(fwd[d]) \in Nat /\ (Len(fwd'[d]) = Len(fwd[d]) \/ Len(fwd'[d]) = Len(fwd[d]) + 1)
    BY <1>1, <1>7, Locals
  <2> HIDE DEF c
  <2>5. QED
    BY <1>2, <2>2, <2>3, <2>4, GrantedFinite, GrantedLater, NATConstants, SMTT(30) DEF RoomFor
<1>8. QED
  BY <1>6, <1>7

\* No other step gives a thread room.
LEMMA OtherRoom ==
    ASSUME LocalInv, LocalInv', RoomGranted, NEW t \in Threads, Others(t), fwd' = fwd,
           \/ thread'[t].pc \notin {"forget", "allocate", "insert"}
           \/ /\ thread[t].pc \in {"forget", "allocate", "insert"}
              /\ thread'[t].client = thread[t].client /\ thread'[t].nobodys = thread[t].nobodys
    PROVE  RoomGranted'
<1> SUFFICES ASSUME NEW c \in Clients PROVE RoomFor(c)'
  BY DEF RoomGranted, RoomFor
<1>1. RoomFor(c)
  BY DEF RoomGranted, RoomFor
<1>2. Granted(c)' \subseteq Granted(c)
  BY DEF Granted, Others, Same
<1>3. Len(fwd'[c]) <= Len(fwd[c])
  BY Locals
<1>4. QED
  BY <1>1, <1>2, <1>3, RoomKept

LEMMA DropClientRoom ==
    ASSUME LocalInv, RoomGranted, NEW t \in Threads, DropClient(t) PROVE RoomGranted'
<1> DEFINE c == thread[t].client
<1>1. /\ LocalInv' /\ thread'[t].pc = "idle" /\ fwd'[c] = << >>
      /\ \A d \in Clients \ {c} : fwd'[d] = fwd[d]
      /\ \A u \in Threads \ {t} : \/ Same(u)
                                  \/ thread'[u].pc = "idle"
                                  \/ thread'[u].nobodys
  BY DropClientEffect
<1> SUFFICES ASSUME NEW d \in Clients PROVE RoomFor(d)'
  BY DEF RoomGranted, RoomFor
<1>2. RoomFor(d)
  BY DEF RoomGranted, RoomFor
<1>3. Granted(d)' \subseteq Granted(d)
  BY <1>1 DEF Granted, Same
<1>4. Len(fwd'[d]) <= Len(fwd[d])
  <2>1. Len(fwd[d]) \in Nat
    BY Locals
  <2>2. fwd'[d] = fwd[d] \/ Len(fwd'[d]) = 0
    BY <1>1
  <2>3. QED
    BY <2>1, <2>2
<1>5. QED
  BY <1>1, <1>2, <1>3, <1>4, RoomKept

-----------------------------------------------------------------------------
\* What the ports lead to.

LEMMA EntryFacts ==
    ASSUME LocalInv
    PROVE  /\ \A c \in Clients : \A e \in In(fwd[c]) :
                /\ e \in Entries /\ e.flow \in Flows /\ e.port \in Ports
                /\ e = [flow |-> e.flow, port |-> e.port]
           /\ \A c \in Clients : \A e, x \in In(fwd[c]) : e.flow = x.flow => e = x
           /\ \A p \in Ports : rev[p] # None =>
                /\ rev[p][1] \in Clients /\ rev[p][2] \in Flows /\ rev[p] = <<rev[p][1], rev[p][2]>>
           /\ \A c \in Clients, f \in Flows : <<c, f>> # None /\ <<c, f>>[1] = c /\ <<c, f>>[2] = f
<1>1. \A c \in Clients : \A e \in In(fwd[c]) : e \in Entries
  BY Locals, InType
<1>2. \A e \in Entries : e.flow \in Flows /\ e.port \in Ports /\ e = [flow |-> e.flow, port |-> e.port]
  BY DEF Entries
<1>3. \A c \in Clients : \A e, x \in In(fwd[c]) : e.flow = x.flow => e = x
  BY Locals DEF In, OneEach
<1>4. ASSUME NEW p \in Ports, rev[p] # None
      PROVE  rev[p][1] \in Clients /\ rev[p][2] \in Flows /\ rev[p] = <<rev[p][1], rev[p][2]>>
  <2>1. rev[p] \in Clients \X Flows
    BY <1>4, Locals
  <2>2. QED
    BY <2>1
<1>5. \A c \in Clients, f \in Flows : <<c, f>> # None /\ <<c, f>>[1] = c /\ <<c, f>>[2] = f
  BY NATConstants
<1>6. QED
  BY <1>1, <1>2, <1>3, <1>4, <1>5

\* NoStaleReverse, of the tables as sets.
NoStale == \A p \in Ports : p \notin raced /\ rev[p] # None =>
    \/ rev[p][1] \in clients /\ [flow |-> rev[p][2], port |-> p] \in In(fwd[rev[p][1]])
    \/ \E t \in Threads : thread[t].pc = "forget" /\ thread[t].port = p

LEMMA StaleAsSets == ASSUME LocalInv PROVE NoStaleReverse <=> NoStale
<1>1. \A p \in Ports : rev[p] # None => EntriesOf(rev[p][1]) = In(fwd[rev[p][1]])
  BY EntryFacts, TablesAsSets
<1>2. QED
  BY <1>1 DEF NoStaleReverse, NoStale

LEMMA StaleLater == ASSUME LocalInv' PROVE NoStale' => NoStaleReverse'
<1>1. ASSUME NEW p \in Ports, rev'[p] # None
      PROVE  /\ rev'[p][1] \in Clients
             /\ {fwd'[rev'[p][1]][i] : i \in DOMAIN fwd'[rev'[p][1]]} = In(fwd'[rev'[p][1]])
  <2>1. rev'[p] \in Clients \X Flows
    BY <1>1 DEF LocalInv, TypeOK
  <2>2. QED
    BY <2>1 DEF In
<1>2. QED
  BY <1>1 DEF NoStaleReverse, NoStale, EntriesOf

LEMMA CalmPorts == ASSUME LocalInv, LocalInv', PortInv, Calm PROVE PortInv'
<1>1. NoStale
  BY StaleAsSets DEF PortInv
<1>2. /\ clients \subseteq clients' /\ UNCHANGED <<rev, raced>>
      /\ \A c \in Clients : In(fwd'[c]) = In(fwd[c])
      /\ \A u \in Threads : Same(u) \/ (thread[u].pc \notin Ported /\ thread'[u].pc \notin Ported)
  BY DEF Calm
<1>3. \A u \in Threads : thread[u].pc \in Busy => thread[u].client \in Clients
  BY Locals DEF Knows
<1>4. \A c, e : Standing(thread, c, e) <=> Standing(thread', c, e)
  BY <1>2 DEF Standing, Same, Ported
<1>5. \A c, e : \A u \in Threads : Entering(u, c, e) => Entering(u, c, e)'
  BY <1>2 DEF Entering, Same, Ported, WithPort
<1>6. LiveMapped'
  BY <1>2, <1>4, <1>5 DEF PortInv, LiveMapped
<1>7. TransitExclusive'
  <2> SUFFICES ASSUME NEW t \in Threads, thread'[t].pc \in InTransit, thread'[t].port \notin raced'
               PROVE  /\ rev'[thread'[t].port] = None
                      /\ \A u \in Threads \ {t} : thread'[u].pc \in InTransit => thread'[u].port # thread'[t].port
                      /\ thread'[t].pc = "reverse" =>
                          /\ thread'[t].client \in clients'
                          /\ [flow |-> thread'[t].flow, port |-> thread'[t].port] \in In(fwd'[thread'[t].client])
                          /\ Standing(thread', thread'[t].client, [flow |-> thread'[t].flow, port |-> thread'[t].port])
    BY DEF TransitExclusive
  <2>1. Same(t) /\ thread[t].pc \in InTransit /\ thread[t].port \notin raced /\ thread[t].client \in Clients
    BY <1>2, <1>3 DEF Same, InTransit, Ported, WithPort, Busy, Holding
  <2>2. \A u \in Threads \ {t} : thread'[u].pc \in InTransit => Same(u)
    BY <1>2 DEF InTransit, Ported, WithPort
  <2>3. QED
    BY <1>2, <1>4, <2>1, <2>2 DEF PortInv, TransitExclusive, Same
<1>8. EvictedMapped'
  <2> SUFFICES ASSUME NEW t \in Threads, thread'[t].pc = "forget", thread'[t].port \notin raced'
               PROVE  /\ rev'[thread'[t].port] # None
                      /\ rev'[thread'[t].port][1] = thread'[t].client
                      /\ [flow |-> rev'[thread'[t].port][2], port |-> thread'[t].port] \notin In(fwd'[thread'[t].client])
                      /\ \A u \in Threads \ {t} : thread'[u].pc = "forget" => thread'[u].port # thread'[t].port
    BY DEF EvictedMapped
  <2>1. Same(t) /\ thread[t].pc = "forget" /\ thread[t].port \notin raced /\ thread[t].client \in Clients
    BY <1>2, <1>3 DEF Same, Ported, WithPort, Busy, Holding
  <2>2. \A u \in Threads \ {t} : thread'[u].pc = "forget" => Same(u)
    BY <1>2 DEF Ported, WithPort
  <2>3. QED
    BY <1>2, <2>1, <2>2 DEF PortInv, EvictedMapped, Same
<1>9. DroppedMapped'
  <2> SUFFICES ASSUME NEW t \in Threads, thread'[t].pc = "drop", thread'[t].port \notin raced'
               PROVE  /\ rev'[thread'[t].port] # None
                      /\ rev'[thread'[t].port][1] = thread'[t].client
                      /\ [flow |-> rev'[thread'[t].port][2], port |-> thread'[t].port] \in In(fwd'[thread'[t].client])
                      /\ rev'[thread'[t].port][2] \notin thread'[t].todo
    BY DEF DroppedMapped
  <2>1. Same(t) /\ thread[t].pc = "drop" /\ thread[t].port \notin raced /\ thread[t].client \in Clients
    BY <1>2, <1>3 DEF Same, Ported, WithPort, Busy, Leaving
  <2>2. QED
    BY <1>2, <2>1 DEF PortInv, DroppedMapped, Same
<1>10. \A u \in Threads : thread[u].pc = "forget" => Same(u)
  BY <1>2 DEF Ported, WithPort
<1>11. NoStale'
  BY <1>1, <1>2, <1>10, EntryFacts DEF NoStale, Same
<1>12. DropsAll'
  <2> SUFFICES ASSUME NEW t \in Threads, thread'[t].pc \in Leaving, NEW p \in Ports \ raced,
                      rev[p] # None, rev[p][1] = thread'[t].client
               PROVE  \/ rev[p][2] \in thread'[t].todo
                      \/ thread'[t].pc = "drop" /\ thread'[t].port = p
                      \/ \E u \in Threads : thread'[u].pc = "forget" /\ thread'[u].port = p
    BY <1>2 DEF DropsAll
  <2>1. Same(t)
    BY <1>2 DEF Ported
  <2>2. \/ rev[p][2] \in thread[t].todo
        \/ thread[t].pc = "drop" /\ thread[t].port = p
        \/ \E u \in Threads : thread[u].pc = "forget" /\ thread[u].port = p
    BY <2>1 DEF PortInv, DropsAll, Same
  <2>3. QED
    BY <1>10, <2>1, <2>2 DEF Same
<1>13. QED
  BY <1>6, <1>7, <1>8, <1>9, <1>11, <1>12, StaleLater DEF PortInv

\* The evicted port leads to the evicted flow, so no entry loses its port with it.
LEMMA EvictReversePorts ==
    ASSUME LocalInv, PortInv, NEW t \in Threads, EvictReverse(t) PROVE PortInv'
<1> DEFINE p == thread[t].port
<1>1. /\ LocalInv' /\ thread[t].pc = "forget" /\ p \in Ports
      /\ rev'[p] = None /\ \A q \in Ports \ {p} : rev'[q] = rev[q]
      /\ thread'[t].pc = "allocate"
      /\ Others(t) /\ UNCHANGED <<clients, fwd, raced>>
  BY EvictReverseEffect
<1>2. p \notin raced =>
        /\ rev[p] # None /\ rev[p] = <<rev[p][1], rev[p][2]>>
        /\ rev[p][1] = thread[t].client
        /\ [flow |-> rev[p][2], port |-> p] \notin In(fwd[thread[t].client])
        /\ \A u \in Threads \ {t} : thread[u].pc = "forget" => thread[u].port # p
  BY <1>1, EntryFacts DEF PortInv, EvictedMapped
<1>3. \A u \in Threads : thread[u].pc \in WithPort => thread[u].port \in Ports
  BY Locals DEF Knows
<1> HIDE DEF p
<1>4. /\ \A c, e : Standing(thread', c, e) <=> Standing(thread, c, e)
      /\ \A c, e : \A u \in Threads : Entering(u, c, e) <=> Entering(u, c, e)'
  BY <1>1 DEF Standing, Entering, Others, Same, Leaving
<1>5. LiveMapped'
  <2> SUFFICES ASSUME NEW c \in Clients, NEW e \in In(fwd[c]), e.port \notin raced, Standing(thread, c, e)
               PROVE  rev'[e.port] = <<c, e.flow>> \/ \E u \in Threads : Entering(u, c, e)'
    BY <1>1, <1>4 DEF LiveMapped
  <2>1. rev[e.port] = <<c, e.flow>> \/ \E u \in Threads : Entering(u, c, e)
    BY DEF PortInv, LiveMapped
  <2>2. e = [flow |-> e.flow, port |-> e.port] /\ e.flow \in Flows /\ e.port \in Ports
    BY EntryFacts
  <2>3. CASE e.port # p
    BY <1>1, <1>4, <2>1, <2>2, <2>3
  <2>4. ASSUME e.port = p, rev[e.port] = <<c, e.flow>> PROVE FALSE
    BY <1>2, <2>2, <2>4, EntryFacts
  <2>5. QED
    BY <1>4, <2>1, <2>3, <2>4
<1>6. TransitExclusive'
  BY <1>1, <1>3, <1>4 DEF PortInv, TransitExclusive, Others, Same, InTransit, WithPort
<1>7. EvictedMapped'
  BY <1>1, <1>2, <1>3, SMTT(30) DEF PortInv, EvictedMapped, Others, Same, WithPort
<1>8. DroppedMapped'
  BY <1>1, <1>2, <1>3, SMTT(30) DEF PortInv, DroppedMapped, Others, Same, WithPort
<1>9. ASSUME NEW q \in Ports, q # p, NEW u \in Threads, thread[u].pc = "forget", thread[u].port = q
      PROVE  thread'[u].pc = "forget" /\ thread'[u].port = q
  <2>1. u # t
    BY <1>9 DEF p
  <2>2. QED
    BY <1>1, <1>9, <2>1 DEF Others, Same
<1>10. NoStale'
  BY <1>1, <1>9, StaleAsSets DEF PortInv, NoStale
<1>11. DropsAll'
  <2> SUFFICES ASSUME NEW u \in Threads, thread'[u].pc \in Leaving, NEW q \in Ports \ raced,
                      rev'[q] # None, rev'[q][1] = thread'[u].client
               PROVE  \/ rev'[q][2] \in thread'[u].todo
                      \/ thread'[u].pc = "drop" /\ thread'[u].port = q
                      \/ \E w \in Threads : thread'[w].pc = "forget" /\ thread'[w].port = q
    BY <1>1 DEF DropsAll
  <2>1. Same(u) /\ q # p /\ rev'[q] = rev[q]
    BY <1>1 DEF Others, Leaving
  <2>2. \/ rev[q][2] \in thread[u].todo
        \/ thread[u].pc = "drop" /\ thread[u].port = q
        \/ \E w \in Threads : thread[w].pc = "forget" /\ thread[w].port = q
    BY <2>1 DEF PortInv, DropsAll, Same
  <2>3. QED
    BY <1>9, <2>1, <2>2 DEF Same
<1>12. QED
  BY <1>1, <1>5, <1>6, <1>7, <1>8, <1>10, <1>11, StaleLater DEF PortInv

\* Nobody else has chosen the port, or it is one where two threads met.
LEMMA AllocatePorts ==
    ASSUME LocalInv, PortInv, NEW t \in Threads, NEW p \in Ports, Allocate(t, p) PROVE PortInv'
<1>1. /\ LocalInv' /\ thread[t].pc = "allocate" /\ rev[p] = None
      /\ thread'[t].pc = "insert" /\ thread'[t].port = p
      /\ Others(t) /\ UNCHANGED <<clients, fwd, rev>>
      /\ raced' = IF Chosen(p) THEN raced \cup {p} ELSE raced
  BY AllocateEffect
<1>2. raced \subseteq raced' /\ (Chosen(p) => p \in raced')
  BY <1>1
<1>3. Chosen(p) <=> \E u \in Threads : thread[u].pc \in InTransit /\ thread[u].port = p
  BY DEF Chosen, InTransit
<1>4. /\ \A c, e : Standing(thread', c, e) <=> Standing(thread, c, e)
      /\ \A c, e : \A u \in Threads : Entering(u, c, e) <=> Entering(u, c, e)'
  BY <1>1 DEF Standing, Entering, Others, Same, Leaving
<1>5. LiveMapped'
  BY <1>1, <1>2, <1>4 DEF PortInv, LiveMapped
<1>6. TransitExclusive'
  BY <1>1, <1>2, <1>3, <1>4 DEF PortInv, TransitExclusive, Others, Same, InTransit
<1>7. EvictedMapped'
  BY <1>1, <1>2 DEF PortInv, EvictedMapped, Others, Same
<1>8. DroppedMapped'
  BY <1>1, <1>2 DEF PortInv, DroppedMapped, Others, Same
<1>9. NoStale'
  BY <1>1, <1>2, StaleAsSets DEF PortInv, NoStale, Others, Same
<1>10. DropsAll'
  BY <1>1, <1>2 DEF PortInv, DropsAll, Others, Same, Leaving
<1>11. QED
  BY <1>1, <1>5, <1>6, <1>7, <1>8, <1>9, <1>10, StaleLater DEF PortInv

\* The port of a table that is nobody's is one where two threads met.
LEMMA InsertNobodysPorts ==
    ASSUME LocalInv, PortInv, NEW t \in Threads, InsertNobodys(t) PROVE PortInv'
<1> DEFINE p == thread[t].port
<1>1. /\ LocalInv' /\ thread[t].pc = "insert"
      /\ thread'[t].pc = "reverse" /\ thread'[t].port = p /\ p \in raced' /\ raced \subseteq raced'
      /\ Others(t) /\ UNCHANGED <<clients, fwd, rev>>
  BY InsertNobodysEffect
<1> HIDE DEF p
<1>4. /\ \A c, e : Standing(thread', c, e) <=> Standing(thread, c, e)
      /\ \A c, e : \A u \in Threads : Entering(u, c, e) => Entering(u, c, e)'
  BY <1>1 DEF Standing, Entering, Others, Same, Leaving
<1>5. LiveMapped'
  BY <1>1, <1>4 DEF PortInv, LiveMapped
<1>6. TransitExclusive'
  BY <1>1, <1>4 DEF PortInv, TransitExclusive, Others, Same, InTransit
<1>7. EvictedMapped'
  BY <1>1 DEF PortInv, EvictedMapped, Others, Same
<1>8. DroppedMapped'
  BY <1>1 DEF PortInv, DroppedMapped, Others, Same
<1>9. NoStale'
  BY <1>1, StaleAsSets DEF PortInv, NoStale, Others, Same
<1>10. DropsAll'
  BY <1>1 DEF PortInv, DropsAll, Others, Same, Leaving
<1>11. QED
  BY <1>1, <1>5, <1>6, <1>7, <1>8, <1>9, <1>10, StaleLater DEF PortInv

\* The port that is entered was nobody's, or is one where two threads met.
LEMMA InsertReversePorts ==
    ASSUME LocalInv, PortInv, NEW t \in Threads, InsertReverse(t) PROVE PortInv'
<1> DEFINE p == thread[t].port
           c == thread[t].client
           f == thread[t].flow
<1>1. /\ LocalInv' /\ thread[t].pc = "reverse" /\ p \in Ports /\ c \in Clients /\ f \in Flows
      /\ rev'[p] = <<c, f>> /\ \A q \in Ports \ {p} : rev'[q] = rev[q]
      /\ thread'[t].pc = "idle"
      /\ Others(t) /\ UNCHANGED <<clients, fwd, raced>>
  BY InsertReverseEffect
<1>2. p \notin raced =>
        /\ rev[p] = None
        /\ \A u \in Threads \ {t} : thread[u].pc \in InTransit => thread[u].port # p
        /\ c \in clients /\ [flow |-> f, port |-> p] \in In(fwd[c])
        /\ Standing(thread, c, [flow |-> f, port |-> p])
  BY <1>1 DEF PortInv, TransitExclusive, InTransit
<1>3. \A u \in Threads : thread[u].pc \in WithPort => thread[u].port \in Ports
  BY Locals DEF Knows
<1>4. /\ <<c, f>>[1] = c /\ <<c, f>>[2] = f
      /\ \A e : Entering(t, c, e) => e.port = p /\ e.flow = f
      /\ \A d, e : Entering(t, d, e) => d = c /\ e.port = p /\ e.flow = f
  BY DEF Entering
<1> HIDE DEF p, c, f
<1>5. /\ \A d, e : Standing(thread', d, e) <=> Standing(thread, d, e)
      /\ \A d, e : \A u \in Threads \ {t} : Entering(u, d, e) <=> Entering(u, d, e)'
  BY <1>1 DEF Standing, Entering, Others, Same, Leaving
<1>6. LiveMapped'
  <2> SUFFICES ASSUME NEW d \in Clients, NEW e \in In(fwd[d]), e.port \notin raced, Standing(thread, d, e)
               PROVE  rev'[e.port] = <<d, e.flow>> \/ \E u \in Threads : Entering(u, d, e)'
    BY <1>1, <1>5 DEF LiveMapped
  <2>1. rev[e.port] = <<d, e.flow>> \/ \E u \in Threads : Entering(u, d, e)
    BY DEF PortInv, LiveMapped
  <2>2. e.flow \in Flows /\ e.port \in Ports /\ <<d, e.flow>> # None
    BY EntryFacts
  <2>3. CASE e.port # p
    BY <1>1, <1>4, <1>5, <2>1, <2>2, <2>3
  <2>4. CASE e.port = p
    <3>1. PICK u \in Threads : Entering(u, d, e)
      BY <1>2, <2>1, <2>2, <2>4
    <3>2. u = t
      BY <1>2, <2>4, <3>1 DEF Entering, InTransit
    <3>3. QED
      BY <1>1, <1>4, <2>4, <3>1, <3>2
  <2>5. QED
    BY <2>3, <2>4
<1>7. TransitExclusive'
  BY <1>1, <1>2, <1>3, <1>5 DEF PortInv, TransitExclusive, Others, Same, InTransit, WithPort
<1>13. ASSUME NEW u \in Threads, thread'[u].pc \in {"forget", "drop"}, thread'[u].port \notin raced
       PROVE  Same(u) /\ rev'[thread[u].port] = rev[thread[u].port]
  <2>1. u # t /\ Same(u)
    BY <1>1, <1>13 DEF Others
  <2>2. thread[u].port \in Ports
    BY <1>3, <1>13, <2>1 DEF Same, WithPort
  <2>3. rev[thread[u].port] # None
    BY <1>13, <2>1 DEF PortInv, EvictedMapped, DroppedMapped, Same
  <2>4. thread[u].port # p
    BY <1>2, <1>13, <2>1, <2>3 DEF Same
  <2>5. QED
    BY <1>1, <2>1, <2>2, <2>4
<1>8. EvictedMapped'
  <2>1. \A u \in Threads : thread'[u].pc = "forget" => Same(u)
    BY <1>1 DEF Others
  <2>2. QED
    BY <1>1, <1>13, <2>1, SMTT(30) DEF PortInv, EvictedMapped, Same
<1>9. DroppedMapped'
  BY <1>1, <1>13 DEF PortInv, DroppedMapped, Same
<1>10. NoStale'
  BY <1>1, <1>2, <1>4, StaleAsSets DEF PortInv, NoStale, Others, Same
<1>11. DropsAll'
  <2> SUFFICES ASSUME NEW u \in Threads, thread'[u].pc \in Leaving, NEW q \in Ports \ raced,
                      rev'[q] # None, rev'[q][1] = thread'[u].client
               PROVE  \/ rev'[q][2] \in thread'[u].todo
                      \/ thread'[u].pc = "drop" /\ thread'[u].port = q
                      \/ \E w \in Threads : thread'[w].pc = "forget" /\ thread'[w].port = q
    BY <1>1 DEF DropsAll
  <2>1. u # t /\ Same(u)
    BY <1>1 DEF Others, Leaving
  <2>2. CASE q = p
    <3>1. f \in thread[u].todo
      BY <1>1, <1>2, <1>4, <2>1, <2>2 DEF Standing, Same
    <3>2. QED
      BY <1>1, <1>4, <2>1, <2>2, <3>1 DEF Same
  <2>3. CASE q # p
    BY <1>1, <2>1, <2>3 DEF PortInv, DropsAll, Others, Same
  <2>4. QED
    BY <2>2, <2>3
<1>12. QED
  BY <1>1, <1>6, <1>7, <1>8, <1>9, <1>10, <1>11, StaleLater DEF PortInv

\* An evicted entry was mapped, unless two threads met at its port.
LEMMA EvictForwardPorts ==
    ASSUME LocalInv, PortInv, NEW t \in Threads, EvictForward(t) PROVE PortInv'
<1> DEFINE c == thread[t].client
<1>1. PICK e \in Entries :
        /\ LocalInv' /\ c \in clients /\ thread[t].pc = "evict" /\ e \in In(fwd[c])
        /\ In(fwd'[c]) = In(fwd[c]) \ {e}
        /\ \A d \in Clients \ {c} : fwd'[d] = fwd[d]
        /\ thread'[t].pc = "forget" /\ thread'[t].client = c /\ thread'[t].port = e.port
        /\ Others(t) /\ UNCHANGED <<clients, rev>>
        /\ raced' = IF BeingDropped(c) \/ HalfEntered(e.port) THEN raced \cup {e.port} ELSE raced
  BY EvictForwardEffect
<1> HIDE DEF c
<1> DEFINE p == e.port
<1>2. /\ raced \subseteq raced' /\ c \in Clients /\ e = [flow |-> e.flow, port |-> p]
      /\ e.flow \in Flows /\ p \in Ports
      /\ \A d \in Clients : In(fwd'[d]) \subseteq In(fwd[d])
      /\ \A d \in Clients : \A x \in In(fwd[d]) : x \in In(fwd'[d]) \/ (d = c /\ x = e)
  BY <1>1, Locals, EntryFacts
<1>3. ASSUME p \notin raced'
      PROVE  /\ p \notin raced /\ rev[p] = <<c, e.flow>> /\ rev[p] # None
             /\ rev[p][1] = c /\ rev[p][2] = e.flow
             /\ \A u \in Threads : ~(thread[u].pc \in Leaving /\ thread[u].client = c)
             /\ \A u \in Threads : ~(thread[u].pc = "reverse" /\ thread[u].port = p)
             /\ \A u \in Threads : ~(thread[u].pc = "forget" /\ thread[u].port = p)
  <2>1. p \notin raced /\ ~BeingDropped(c) /\ ~HalfEntered(p)
    BY <1>1, <1>3
  <2>2. /\ \A u \in Threads : ~(thread[u].pc \in Leaving /\ thread[u].client = c)
        /\ \A u \in Threads : ~(thread[u].pc = "reverse" /\ thread[u].port = p)
    BY <2>1 DEF BeingDropped, Dropping, HalfEntered, Leaving
  <2>3. rev[p] = <<c, e.flow>>
    BY <1>1, <1>2, <2>1, <2>2, SMTT(30) DEF PortInv, LiveMapped, Standing, Entering
  <2>4. rev[p] # None /\ rev[p][1] = c /\ rev[p][2] = e.flow
    BY <1>2, <2>3, EntryFacts
  <2>5. ASSUME NEW u \in Threads, thread[u].pc = "forget", thread[u].port = p PROVE FALSE
    <3>1. thread[u].client = c /\ [flow |-> e.flow, port |-> p] \notin In(fwd[c])
      BY <2>1, <2>4, <2>5 DEF PortInv, EvictedMapped
    <3>2. QED
      BY <1>1, <1>2, <3>1
  <2>6. QED
    BY <2>1, <2>2, <2>3, <2>4, <2>5
<1>4. /\ \A d, x : Standing(thread', d, x) <=> Standing(thread, d, x)
      /\ \A d, x : \A u \in Threads : Entering(u, d, x) <=> Entering(u, d, x)'
  BY <1>1 DEF Standing, Entering, Others, Same, Leaving
<1>5. \A u \in Threads : thread[u].pc \in Busy => thread[u].client \in Clients
  BY Locals DEF Knows
<1>6. LiveMapped'
  BY <1>1, <1>2, <1>4 DEF PortInv, LiveMapped
<1>7. TransitExclusive'
  <2> SUFFICES ASSUME NEW u \in Threads, thread'[u].pc \in InTransit, thread'[u].port \notin raced'
               PROVE  /\ rev'[thread'[u].port] = None
                      /\ \A w \in Threads \ {u} : thread'[w].pc \in InTransit => thread'[w].port # thread'[u].port
                      /\ thread'[u].pc = "reverse" =>
                          /\ thread'[u].client \in clients'
                          /\ [flow |-> thread'[u].flow, port |-> thread'[u].port] \in In(fwd'[thread'[u].client])
                          /\ Standing(thread', thread'[u].client, [flow |-> thread'[u].flow, port |-> thread'[u].port])
    BY DEF TransitExclusive
  <2>1. u # t /\ Same(u)
    BY <1>1 DEF Others, InTransit
  <2>2. thread[u].pc \in InTransit /\ thread[u].port \notin raced /\ thread[u].client \in Clients
    BY <1>2, <1>5, <2>1 DEF Same, InTransit, Busy, Holding
  <2>3. /\ rev[thread[u].port] = None
        /\ \A w \in Threads \ {u} : thread[w].pc \in InTransit => thread[w].port # thread[u].port
        /\ thread[u].pc = "reverse" =>
            /\ thread[u].client \in clients
            /\ [flow |-> thread[u].flow, port |-> thread[u].port] \in In(fwd[thread[u].client])
            /\ Standing(thread, thread[u].client, [flow |-> thread[u].flow, port |-> thread[u].port])
    BY <2>2 DEF PortInv, TransitExclusive
  <2>4. \A w \in Threads : thread'[w].pc \in InTransit => Same(w)
    BY <1>1 DEF Others, InTransit
  <2>5. thread[u].pc = "reverse" => [flow |-> thread[u].flow, port |-> thread[u].port] # e
    <3>1. thread[u].pc = "reverse" /\ thread[u].port = p => p \in raced'
      BY <1>3
    <3>2. [flow |-> thread[u].flow, port |-> thread[u].port].port = thread[u].port
      OBVIOUS
    <3>3. QED
      BY <2>1, <3>1, <3>2 DEF Same
  <2> HIDE DEF p
  <2>6. QED
    BY <1>1, <1>2, <1>4, <2>1, <2>2, <2>3, <2>4, <2>5 DEF Same
<1>8. EvictedMapped'
  <2> SUFFICES ASSUME NEW u \in Threads, thread'[u].pc = "forget", thread'[u].port \notin raced'
               PROVE  /\ rev'[thread'[u].port] # None
                      /\ rev'[thread'[u].port][1] = thread'[u].client
                      /\ [flow |-> rev'[thread'[u].port][2], port |-> thread'[u].port] \notin In(fwd'[thread'[u].client])
                      /\ \A w \in Threads \ {u} : thread'[w].pc = "forget" => thread'[w].port # thread'[u].port
    BY DEF EvictedMapped
  <2>1. CASE u = t
    BY <1>1, <1>2, <1>3, <2>1 DEF Others, Same
  <2>2. CASE u # t
    <3>1. Same(u) /\ thread[u].pc = "forget" /\ thread[u].port \notin raced /\ thread[u].client \in Clients
      BY <1>1, <1>2, <1>5, <2>2 DEF Others, Same, Busy, Holding
    <3>2. thread[u].port # p
      BY <1>3, <3>1 DEF Same
    <3>3. QED
      BY <1>1, <1>2, <2>2, <3>1, <3>2 DEF PortInv, EvictedMapped, Others, Same
  <2>3. QED
    BY <2>1, <2>2
<1>9. DroppedMapped'
  <2> SUFFICES ASSUME NEW u \in Threads, thread'[u].pc = "drop", thread'[u].port \notin raced'
               PROVE  /\ rev'[thread'[u].port] # None
                      /\ rev'[thread'[u].port][1] = thread'[u].client
                      /\ [flow |-> rev'[thread'[u].port][2], port |-> thread'[u].port] \in In(fwd'[thread'[u].client])
                      /\ rev'[thread'[u].port][2] \notin thread'[u].todo
    BY DEF DroppedMapped
  <2>1. Same(u) /\ thread[u].pc = "drop" /\ thread[u].port \notin raced /\ thread[u].client \in Clients
    BY <1>1, <1>2, <1>5 DEF Others, Same, Busy, Leaving
  <2>2. [flow |-> rev[thread[u].port][2], port |-> thread[u].port] # e
    <3>1. thread[u].port # p \/ thread[u].client # c
      BY <1>3, <2>1 DEF Same, Leaving
    <3>2. thread[u].port = p => thread[u].client = c
      <4> SUFFICES ASSUME thread[u].port = p PROVE thread[u].client = c
        OBVIOUS
      <4>1. p \notin raced'
        BY <2>1 DEF Same
      <4>2. rev[p][1] = c
        BY <1>3, <4>1
      <4>3. QED
        BY <2>1, <4>2 DEF PortInv, DroppedMapped
    <3>3. QED
      BY <3>1, <3>2
  <2>3. QED
    BY <1>1, <1>2, <2>1, <2>2 DEF PortInv, DroppedMapped, Same
<1>10. \A u \in Threads : thread[u].pc = "forget" => Same(u)
  BY <1>1 DEF Others
<1>11. NoStale'
  <2> SUFFICES ASSUME NEW q \in Ports, q \notin raced', rev[q] # None
               PROVE  \/ rev[q][1] \in clients /\ [flow |-> rev[q][2], port |-> q] \in In(fwd'[rev[q][1]])
                      \/ \E u \in Threads : thread'[u].pc = "forget" /\ thread'[u].port = q
    BY <1>1 DEF NoStale
  <2>1. \/ rev[q][1] \in clients /\ [flow |-> rev[q][2], port |-> q] \in In(fwd[rev[q][1]])
        \/ \E u \in Threads : thread[u].pc = "forget" /\ thread[u].port = q
    BY <1>2, StaleAsSets DEF PortInv, NoStale
  <2>2. CASE \E u \in Threads : thread[u].pc = "forget" /\ thread[u].port = q
    BY <1>10, <2>2 DEF Same
  <2>3. CASE rev[q][1] \in clients /\ [flow |-> rev[q][2], port |-> q] \in In(fwd[rev[q][1]])
    <3>1. rev[q][1] \in Clients
      BY EntryFacts
    <3>2. [flow |-> rev[q][2], port |-> q] = e => q = p
      OBVIOUS
    <3>3. QED
      BY <1>1, <1>2, <2>3, <3>1, <3>2
  <2>4. QED
    BY <2>1, <2>2, <2>3
<1>12. DropsAll'
  BY <1>1, <1>2, <1>10 DEF PortInv, DropsAll, Others, Same, Leaving
<1>13. QED
  BY <1>1, <1>6, <1>7, <1>8, <1>9, <1>11, <1>12, StaleLater DEF PortInv

\* The new entry has its port to itself, and an entry in whose place it comes is one where
\* two threads met.
LEMMA InsertForwardPorts ==
    ASSUME LocalInv, PortInv, NEW t \in Threads, InsertForward(t) PROVE PortInv'
<1> DEFINE c == thread[t].client
           f == thread[t].flow
           p == thread[t].port
           n == [flow |-> f, port |-> p]
<1>1. /\ LocalInv' /\ thread[t].pc = "insert"
      /\ c \in clients /\ f \in Flows /\ p \in Ports
      /\ In(fwd'[c]) = {e \in In(fwd[c]) : e.flow # f} \cup {n}
      /\ \A d \in Clients \ {c} : fwd'[d] = fwd[d]
      /\ thread'[t].pc = "reverse" /\ thread'[t].client = c
      /\ thread'[t].flow = f /\ thread'[t].port = p
      /\ Others(t) /\ UNCHANGED <<clients, rev>>
      /\ raced \subseteq raced'
      /\ \A e \in In(fwd[c]) : e.flow = f => e.port \in raced'
      /\ BeingDropped(c) => p \in raced'
  BY InsertForwardEffect
<1>2. p \notin raced =>
        /\ rev[p] = None
        /\ \A u \in Threads \ {t} : thread[u].pc \in InTransit => thread[u].port # p
  BY <1>1 DEF PortInv, TransitExclusive, InTransit
<1>3. n.flow = f /\ n.port = p
  OBVIOUS
<1> HIDE DEF c, f, p, n
<1>4. /\ c \in Clients
      /\ \A d \in Clients : \A x \in In(fwd[d]) : x \in In(fwd'[d]) \/ x.port \in raced'
      /\ \A d \in Clients : \A x \in In(fwd'[d]) : x \in In(fwd[d]) \/ (d = c /\ x = n)
  BY <1>1, Locals
<1>5. /\ \A d, x : Standing(thread', d, x) <=> Standing(thread, d, x)
      /\ \A d, x : \A u \in Threads : Entering(u, d, x) => Entering(u, d, x)'
      /\ \A d, x : d = c /\ x = n => Entering(t, d, x)'
  BY <1>1, <1>3 DEF Standing, Entering, Others, Same, Leaving
<1>6. p \notin raced' => Standing(thread, c, n)
  BY <1>1 DEF BeingDropped, Dropping, Standing, Leaving
<1>7. \A u \in Threads : thread[u].pc \in Busy => thread[u].client \in Clients
  BY Locals DEF Knows
<1>8. LiveMapped'
  <2> SUFFICES ASSUME NEW d \in Clients, NEW e \in In(fwd'[d]), e.port \notin raced', Standing(thread, d, e)
               PROVE  rev[e.port] = <<d, e.flow>> \/ \E u \in Threads : Entering(u, d, e)'
    BY <1>1, <1>5 DEF LiveMapped
  <2>1. CASE e \in In(fwd[d])
    BY <1>1, <1>5, <2>1 DEF PortInv, LiveMapped
  <2>2. CASE d = c /\ e = n
    BY <1>5, <2>2
  <2>3. QED
    BY <1>4, <2>1, <2>2
<1>9. TransitExclusive'
  <2> SUFFICES ASSUME NEW u \in Threads, thread'[u].pc \in InTransit, thread'[u].port \notin raced'
               PROVE  /\ rev'[thread'[u].port] = None
                      /\ \A w \in Threads \ {u} : thread'[w].pc \in InTransit => thread'[w].port # thread'[u].port
                      /\ thread'[u].pc = "reverse" =>
                          /\ thread'[u].client \in clients'
                          /\ [flow |-> thread'[u].flow, port |-> thread'[u].port] \in In(fwd'[thread'[u].client])
                          /\ Standing(thread', thread'[u].client, [flow |-> thread'[u].flow, port |-> thread'[u].port])
    BY DEF TransitExclusive
  <2>1. \A w \in Threads : thread'[w].pc \in InTransit => thread[w].pc \in InTransit /\ thread[w].port = thread'[w].port
    BY <1>1 DEF Others, Same, InTransit, p
  <2>2. thread[u].pc \in InTransit /\ thread[u].port = thread'[u].port /\ thread[u].port \notin raced
    BY <1>1, <2>1
  <2>3. /\ rev[thread[u].port] = None
        /\ \A w \in Threads \ {u} : thread[w].pc \in InTransit => thread[w].port # thread[u].port
    BY <2>2 DEF PortInv, TransitExclusive
  <2>4. CASE u = t
    BY <1>1, <1>5, <1>6, <2>1, <2>2, <2>3, <2>4 DEF n
  <2>5. CASE u # t
    <3>1. Same(u) /\ thread[u].client \in Clients
      BY <1>1, <1>7, <2>2, <2>5 DEF Others, InTransit, Busy, Holding
    <3>2. thread[u].pc = "reverse" =>
            /\ thread[u].client \in clients
            /\ [flow |-> thread[u].flow, port |-> thread[u].port] \in In(fwd[thread[u].client])
            /\ Standing(thread, thread[u].client, [flow |-> thread[u].flow, port |-> thread[u].port])
      BY <2>2 DEF PortInv, TransitExclusive
    <3>3. [flow |-> thread[u].flow, port |-> thread[u].port].port \notin raced'
      BY <2>2
    <3>4. QED
      BY <1>1, <1>4, <1>5, <2>1, <2>2, <2>3, <3>1, <3>2, <3>3 DEF Same
  <2>6. QED
    BY <2>4, <2>5
<1>10. \A u \in Threads : thread'[u].pc \in {"forget", "drop"} \/ thread[u].pc \in {"forget", "drop"} =>
         /\ Same(u) /\ thread[u].client \in Clients
         /\ thread[u].port \notin raced => thread[u].port # p
  <2> SUFFICES ASSUME NEW u \in Threads, thread'[u].pc \in {"forget", "drop"} \/ thread[u].pc \in {"forget", "drop"}
               PROVE  /\ Same(u) /\ thread[u].client \in Clients
                      /\ thread[u].port \notin raced => thread[u].port # p
    OBVIOUS
  <2>1. Same(u) /\ thread[u].client \in Clients
    BY <1>1, <1>7 DEF Others, Same, Busy, Holding, Leaving
  <2>2. thread[u].port \notin raced => rev[thread[u].port] # None
    BY <2>1 DEF Same, PortInv, EvictedMapped, DroppedMapped
  <2>3. QED
    BY <1>2, <2>1, <2>2
<1>11. EvictedMapped'
  <2> SUFFICES ASSUME NEW u \in Threads, thread'[u].pc = "forget", thread'[u].port \notin raced'
               PROVE  /\ rev'[thread'[u].port] # None
                      /\ rev'[thread'[u].port][1] = thread'[u].client
                      /\ [flow |-> rev'[thread'[u].port][2], port |-> thread'[u].port] \notin In(fwd'[thread'[u].client])
                      /\ \A w \in Threads \ {u} : thread'[w].pc = "forget" => thread'[w].port # thread'[u].port
    BY DEF EvictedMapped
  <2>1. Same(u) /\ thread[u].pc = "forget" /\ thread[u].port \notin raced /\ thread[u].port # p /\ thread[u].client \in Clients
    BY <1>1, <1>10 DEF Same
  <2>2. [flow |-> rev[thread[u].port][2], port |-> thread[u].port] # n
    BY <2>1 DEF n
  <2>3. QED
    BY <1>1, <1>4, <1>10, <2>1, <2>2 DEF PortInv, EvictedMapped, Same
<1>12. DroppedMapped'
  <2> SUFFICES ASSUME NEW u \in Threads, thread'[u].pc = "drop", thread'[u].port \notin raced'
               PROVE  /\ rev'[thread'[u].port] # None
                      /\ rev'[thread'[u].port][1] = thread'[u].client
                      /\ [flow |-> rev'[thread'[u].port][2], port |-> thread'[u].port] \in In(fwd'[thread'[u].client])
                      /\ rev'[thread'[u].port][2] \notin thread'[u].todo
    BY DEF DroppedMapped
  <2>1. Same(u) /\ thread[u].pc = "drop" /\ thread[u].port \notin raced' /\ thread[u].port \notin raced /\ thread[u].client \in Clients
    BY <1>1, <1>10 DEF Same
  <2>2. [flow |-> rev[thread[u].port][2], port |-> thread[u].port].port \notin raced'
    BY <2>1
  <2>3. QED
    BY <1>1, <1>4, <2>1, <2>2 DEF PortInv, DroppedMapped, Same
<1>13. NoStale'
  <2> SUFFICES ASSUME NEW q \in Ports, q \notin raced', rev[q] # None
               PROVE  \/ rev[q][1] \in clients /\ [flow |-> rev[q][2], port |-> q] \in In(fwd'[rev[q][1]])
                      \/ \E u \in Threads : thread'[u].pc = "forget" /\ thread'[u].port = q
    BY <1>1 DEF NoStale
  <2>1. \/ rev[q][1] \in clients /\ [flow |-> rev[q][2], port |-> q] \in In(fwd[rev[q][1]])
        \/ \E u \in Threads : thread[u].pc = "forget" /\ thread[u].port = q
    BY <1>1, StaleAsSets DEF PortInv, NoStale
  <2>2. rev[q][1] \in Clients /\ [flow |-> rev[q][2], port |-> q].port \notin raced'
    BY EntryFacts
  <2>3. QED
    BY <1>4, <1>10, <2>1, <2>2 DEF Same
<1>14. DropsAll'
  <2>1. \A u \in Threads : thread'[u].pc \in Leaving => Same(u)
    BY <1>1 DEF Others, Leaving
  <2>2. QED
    BY <1>1, <1>10, <2>1 DEF PortInv, DropsAll, Same
<1>15. QED
  BY <1>1, <1>8, <1>9, <1>11, <1>12, <1>13, <1>14, StaleLater DEF PortInv

\* Every entry of the client stands when its thread begins to drop them.
LEMMA UnregisterClientPorts ==
    ASSUME LocalInv, PortInv, NEW t \in Threads, UnregisterClient(t) PROVE PortInv'
<1>1. PICK c \in clients :
        /\ LocalInv' /\ thread[t].pc \in {"idle", "unregister"}
        /\ \A u \in Threads : thread[u].pc \notin Leaving
        /\ thread'[t].pc = "dropping" /\ thread'[t].client = c
        /\ thread'[t].todo = {e.flow : e \in In(fwd[c])}
        /\ Others(t) /\ UNCHANGED <<clients, fwd, rev, raced>>
  BY UnregisterClientEffect
<1>2. \A u \in Threads \ {t} : Same(u) /\ thread'[u].pc \notin Leaving
  BY <1>1 DEF Others, Same
<1>3. \A d, e : e \in In(fwd[d]) => Standing(thread', d, e) /\ Standing(thread, d, e)
  BY <1>1, <1>2 DEF Standing
<1>4. \A d, e : \A u \in Threads : Entering(u, d, e) => Entering(u, d, e)'
  BY <1>1 DEF Entering, Others, Same
<1>5. LiveMapped'
  BY <1>1, <1>3, <1>4 DEF PortInv, LiveMapped
<1>6. TransitExclusive'
  BY <1>1, <1>2, <1>3 DEF PortInv, TransitExclusive, Same, InTransit
<1>7. EvictedMapped'
  BY <1>1, <1>2 DEF PortInv, EvictedMapped, Same
<1>8. DroppedMapped'
  BY <1>1, <1>2 DEF DroppedMapped, Leaving
<1>9. \A u \in Threads : thread[u].pc = "forget" => Same(u)
  BY <1>1, <1>2
<1>10. NoStale'
  BY <1>1, <1>9, StaleAsSets DEF PortInv, NoStale, Same
<1>11. DropsAll'
  <2> SUFFICES ASSUME NEW u \in Threads, thread'[u].pc \in Leaving, NEW p \in Ports \ raced,
                      rev[p] # None, rev[p][1] = thread'[u].client
               PROVE  \/ rev[p][2] \in thread'[u].todo
                      \/ \E w \in Threads : thread'[w].pc = "forget" /\ thread'[w].port = p
    BY <1>1 DEF DropsAll
  <2>1. u = t /\ rev[p][1] = c
    BY <1>1, <1>2
  <2>2. \/ [flow |-> rev[p][2], port |-> p] \in In(fwd[c])
        \/ \E w \in Threads : thread[w].pc = "forget" /\ thread[w].port = p
    BY <2>1, StaleAsSets DEF PortInv, NoStale
  <2>3. ASSUME [flow |-> rev[p][2], port |-> p] \in In(fwd[c]) PROVE rev[p][2] \in thread'[t].todo
    <3>1. [flow |-> rev[p][2], port |-> p].flow = rev[p][2]
      OBVIOUS
    <3>2. QED
      BY <1>1, <2>3, <3>1
  <2>4. QED
    BY <1>9, <2>1, <2>2, <2>3 DEF Same
<1>12. QED
  BY <1>1, <1>5, <1>6, <1>7, <1>8, <1>10, <1>11, StaleLater DEF PortInv

\* The entry that is dropped next was mapped, unless two threads met at its port.
LEMMA DropNextPorts ==
    ASSUME LocalInv, PortInv, NEW t \in Threads, NEW f \in Flows, DropNext(t, f) PROVE PortInv'
<1> DEFINE c == thread[t].client
<1>1. PICK e \in Entries :
        /\ LocalInv' /\ thread[t].pc = "dropping" /\ c \in clients /\ f \in thread[t].todo
        /\ e \in In(fwd[c]) /\ e.flow = f
        /\ thread'[t].pc = "drop" /\ thread'[t].client = c /\ thread'[t].port = e.port
        /\ thread'[t].todo = thread[t].todo \ {f}
        /\ Others(t) /\ UNCHANGED <<clients, fwd, rev>>
        /\ raced' = IF HalfEntered(e.port) THEN raced \cup {e.port} ELSE raced
  BY DropNextEffect
<1>2. thread[t].client = c
  OBVIOUS
<1> HIDE DEF c
<1> DEFINE p == e.port
<1>3. /\ raced \subseteq raced' /\ c \in Clients /\ e = [flow |-> f, port |-> p]
      /\ p \in Ports
      /\ \A x \in In(fwd[c]) : x.flow = f => x = e
  BY <1>1, Locals, EntryFacts
<1>4. ASSUME NEW d, NEW x, Standing(thread', d, x) PROVE Standing(thread, d, x)
  BY <1>1, <1>2, <1>4 DEF Standing, Others, Same, Leaving
<1>5. ASSUME NEW d, NEW x, Standing(thread, d, x), d # c \/ x.flow # f PROVE Standing(thread', d, x)
  BY <1>1, <1>2, <1>5 DEF Standing, Others, Same, Leaving
<1>6. \A d, x : \A u \in Threads : Entering(u, d, x) => Entering(u, d, x)'
  BY <1>1 DEF Entering, Others, Same
<1>7. Standing(thread, c, e)
  <2> SUFFICES ASSUME NEW u \in Threads, thread[u].pc \in Leaving, thread[u].client = c
               PROVE  e.flow \in thread[u].todo
    BY DEF Standing
  <2>1. u = t
    BY <1>1 DEF LocalInv, OneLeaver, Leaving
  <2>2. QED
    BY <1>1, <2>1
<1>8. ASSUME p \notin raced'
      PROVE  /\ p \notin raced /\ rev[p] = <<c, f>> /\ rev[p] # None
             /\ rev[p][1] = c /\ rev[p][2] = f
             /\ \A u \in Threads : ~(thread[u].pc = "reverse" /\ thread[u].port = p)
  <2>1. p \notin raced /\ ~HalfEntered(p)
    BY <1>1, <1>8
  <2>2. \A u \in Threads : ~(thread[u].pc = "reverse" /\ thread[u].port = p)
    BY <2>1 DEF HalfEntered
  <2>3. rev[p] = <<c, f>>
    BY <1>1, <1>3, <1>7, <2>1, <2>2 DEF PortInv, LiveMapped, Entering
  <2>4. QED
    BY <1>3, <2>1, <2>2, <2>3, EntryFacts
<1>9. LiveMapped'
  BY <1>1, <1>3, <1>4, <1>6 DEF PortInv, LiveMapped
<1>10. TransitExclusive'
  <2> SUFFICES ASSUME NEW u \in Threads, thread'[u].pc \in InTransit, thread'[u].port \notin raced'
               PROVE  /\ rev'[thread'[u].port] = None
                      /\ \A w \in Threads \ {u} : thread'[w].pc \in InTransit => thread'[w].port # thread'[u].port
                      /\ thread'[u].pc = "reverse" =>
                          /\ thread'[u].client \in clients'
                          /\ [flow |-> thread'[u].flow, port |-> thread'[u].port] \in In(fwd'[thread'[u].client])
                          /\ Standing(thread', thread'[u].client, [flow |-> thread'[u].flow, port |-> thread'[u].port])
    BY DEF TransitExclusive
  <2>1. u # t /\ Same(u) /\ \A w \in Threads : thread'[w].pc \in InTransit => Same(w)
    BY <1>1 DEF Others, InTransit
  <2> DEFINE x == [flow |-> thread[u].flow, port |-> thread[u].port]
  <2>2. /\ rev[thread[u].port] = None
        /\ \A w \in Threads \ {u} : thread[w].pc \in InTransit => thread[w].port # thread[u].port
        /\ thread[u].pc = "reverse" =>
            thread[u].client \in clients /\ x \in In(fwd[thread[u].client]) /\ Standing(thread, thread[u].client, x)
    BY <1>3, <2>1 DEF PortInv, TransitExclusive, Same
  <2>3. x.port = thread[u].port
    OBVIOUS
  <2>4. thread[u].pc = "reverse" => x # e
    <3>1. thread[u].pc = "reverse" /\ thread[u].port = p => p \in raced'
      BY <1>8
    <3>2. QED
      BY <2>1, <2>3, <3>1 DEF Same
  <2>5. x = [flow |-> thread'[u].flow, port |-> thread'[u].port]
    BY <2>1 DEF Same
  <2> HIDE DEF x, p
  <2>6. thread[u].pc = "reverse" => thread[u].client # c \/ x.flow # f
    BY <1>3, <2>2, <2>4
  <2>7. thread[u].pc = "reverse" => Standing(thread', thread[u].client, x)
    BY <1>5, <2>2, <2>6
  <2>8. QED
    BY <1>1, <2>1, <2>2, <2>5, <2>7 DEF Same
<1>11. EvictedMapped'
  BY <1>1, <1>3 DEF PortInv, EvictedMapped, Others, Same
<1>12. DroppedMapped'
  <2> SUFFICES ASSUME NEW u \in Threads, thread'[u].pc = "drop", thread'[u].port \notin raced'
               PROVE  /\ rev'[thread'[u].port] # None
                      /\ rev'[thread'[u].port][1] = thread'[u].client
                      /\ [flow |-> rev'[thread'[u].port][2], port |-> thread'[u].port] \in In(fwd'[thread'[u].client])
                      /\ rev'[thread'[u].port][2] \notin thread'[u].todo
    BY DEF DroppedMapped
  <2>1. u = t
    BY <1>1 DEF LocalInv, OneLeaver, Leaving, Others, Same
  <2>2. thread'[u].port = p /\ p \notin raced'
    BY <1>1, <2>1
  <2>3. QED
    BY <1>1, <1>3, <1>8, <2>1, <2>2
<1>13. \A u \in Threads : thread[u].pc = "forget" => Same(u)
  BY <1>1 DEF Others
<1>14. NoStale'
  BY <1>1, <1>3, <1>13, StaleAsSets DEF PortInv, NoStale, Same
<1>15. DropsAll'
  <2> SUFFICES ASSUME NEW u \in Threads, thread'[u].pc \in Leaving, NEW q \in Ports \ raced',
                      rev[q] # None, rev[q][1] = thread'[u].client
               PROVE  \/ rev[q][2] \in thread'[u].todo
                      \/ thread'[u].pc = "drop" /\ thread'[u].port = q
                      \/ \E w \in Threads : thread'[w].pc = "forget" /\ thread'[w].port = q
    BY <1>1 DEF DropsAll
  <2>1. u = t
    BY <1>1 DEF LocalInv, OneLeaver, Leaving, Others, Same
  <2>2. \/ rev[q][2] \in thread[t].todo
        \/ \E w \in Threads : thread[w].pc = "forget" /\ thread[w].port = q
    BY <1>1, <1>2, <1>3, <2>1 DEF PortInv, DropsAll, Leaving
  <2>3. CASE rev[q][2] # f
    BY <1>1, <1>13, <2>1, <2>2, <2>3 DEF Same
  <2>4. CASE rev[q][2] = f
    <3>1. \/ [flow |-> f, port |-> q] \in In(fwd[c])
          \/ \E w \in Threads : thread[w].pc = "forget" /\ thread[w].port = q
      BY <1>1, <1>3, <2>1, <2>4, StaleAsSets DEF PortInv, NoStale
    <3>2. [flow |-> f, port |-> q].flow = f /\ [flow |-> f, port |-> q].port = q
      OBVIOUS
    <3>3. [flow |-> f, port |-> q] \in In(fwd[c]) => q = p
      BY <1>3, <3>2
    <3>4. QED
      BY <1>1, <1>13, <2>1, <3>1, <3>3 DEF Same
  <2>5. QED
    BY <2>3, <2>4
<1>16. QED
  BY <1>1, <1>9, <1>10, <1>11, <1>12, <1>14, <1>15, StaleLater DEF PortInv

\* The port that is dropped leads to an entry that no longer stands.
LEMMA DropReversePorts ==
    ASSUME LocalInv, PortInv, NEW t \in Threads, DropReverse(t) PROVE PortInv'
<1> DEFINE p == thread[t].port
           c == thread[t].client
<1>1. /\ LocalInv' /\ thread[t].pc = "drop" /\ p \in Ports
      /\ rev'[p] = None /\ \A q \in Ports \ {p} : rev'[q] = rev[q]
      /\ thread'[t].pc = "dropping" /\ thread'[t].client = c
      /\ thread'[t].todo = thread[t].todo
      /\ Others(t) /\ UNCHANGED <<clients, fwd, raced>>
  BY DropReverseEffect
<1>2. p \notin raced =>
        /\ rev[p] # None /\ rev[p] = <<rev[p][1], rev[p][2]>> /\ rev[p][1] = c
        /\ [flow |-> rev[p][2], port |-> p] \in In(fwd[c])
        /\ rev[p][2] \notin thread[t].todo
  BY <1>1, EntryFacts DEF PortInv, DroppedMapped
<1>3. \A u \in Threads : thread[u].pc \in WithPort => thread[u].port \in Ports
  BY Locals DEF Knows
<1>4. thread[t].client = c /\ thread[t].port = p
  OBVIOUS
<1> HIDE DEF p, c
<1>5. /\ \A d, e : Standing(thread', d, e) <=> Standing(thread, d, e)
      /\ \A d, e : \A u \in Threads : Entering(u, d, e) <=> Entering(u, d, e)'
  BY <1>1, <1>4 DEF Standing, Entering, Others, Same, Leaving
<1>6. LiveMapped'
  <2> SUFFICES ASSUME NEW d \in Clients, NEW e \in In(fwd[d]), e.port \notin raced, Standing(thread, d, e)
               PROVE  rev'[e.port] = <<d, e.flow>> \/ \E u \in Threads : Entering(u, d, e)'
    BY <1>1, <1>5 DEF LiveMapped
  <2>1. rev[e.port] = <<d, e.flow>> \/ \E u \in Threads : Entering(u, d, e)
    BY DEF PortInv, LiveMapped
  <2>2. e.flow \in Flows /\ e.port \in Ports
    BY EntryFacts
  <2>3. CASE e.port # p
    BY <1>1, <1>5, <2>1, <2>2, <2>3
  <2>4. ASSUME e.port = p, rev[e.port] = <<d, e.flow>> PROVE FALSE
    <3>1. d = c /\ e.flow \notin thread[t].todo
      BY <1>2, <2>2, <2>4, EntryFacts
    <3>2. e.flow \in thread[t].todo
      BY <1>1, <1>4, <3>1 DEF Standing, Leaving
    <3>3. QED
      BY <3>1, <3>2
  <2>5. QED
    BY <1>5, <2>1, <2>3, <2>4
<1>7. ASSUME NEW u \in Threads, thread'[u].pc \in InTransit, thread'[u].port \notin raced
      PROVE  Same(u) /\ rev'[thread[u].port] = None
  <2>1. Same(u) /\ thread[u].port \in Ports
    BY <1>1, <1>3, <1>7 DEF Others, Same, InTransit, WithPort
  <2>2. rev[thread[u].port] = None
    BY <1>7, <2>1 DEF PortInv, TransitExclusive, Same
  <2>3. QED
    BY <1>1, <2>1, <2>2
<1>8. TransitExclusive'
  <2>1. \A u \in Threads : thread'[u].pc \in InTransit => Same(u)
    BY <1>1 DEF Others, InTransit
  <2>2. QED
    BY <1>1, <1>5, <1>7, <2>1 DEF PortInv, TransitExclusive, Same, InTransit
<1>9. ASSUME NEW u \in Threads, thread[u].pc = "forget", thread[u].port \notin raced
      PROVE  thread[u].port # p /\ rev'[thread[u].port] = rev[thread[u].port]
  <2>1. thread[u].port \in Ports
    BY <1>3, <1>9 DEF WithPort
  <2>2. /\ rev[thread[u].port][1] = thread[u].client
        /\ [flow |-> rev[thread[u].port][2], port |-> thread[u].port] \notin In(fwd[thread[u].client])
    BY <1>9 DEF PortInv, EvictedMapped
  <2>3. thread[u].port # p
    BY <1>2, <1>9, <2>2
  <2>4. QED
    BY <1>1, <2>1, <2>3
<1>10. \A u \in Threads : thread'[u].pc = "forget" \/ thread[u].pc = "forget" => Same(u)
  BY <1>1 DEF Others
<1>11. EvictedMapped'
  BY <1>1, <1>9, <1>10 DEF PortInv, EvictedMapped, Same
<1>12. DroppedMapped'
  <2>1. \A u \in Threads : thread'[u].pc # "drop"
    BY <1>1 DEF LocalInv, OneLeaver, Leaving, Others, Same
  <2>2. QED
    BY <2>1 DEF DroppedMapped
<1>13. NoStale'
  BY <1>1, <1>10, StaleAsSets DEF PortInv, NoStale, Same
<1>14. DropsAll'
  <2> SUFFICES ASSUME NEW u \in Threads, thread'[u].pc \in Leaving, NEW q \in Ports \ raced,
                      rev'[q] # None, rev'[q][1] = thread'[u].client
               PROVE  \/ rev'[q][2] \in thread'[u].todo
                      \/ \E w \in Threads : thread'[w].pc = "forget" /\ thread'[w].port = q
    BY <1>1 DEF DropsAll
  <2>1. u = t
    BY <1>1 DEF LocalInv, OneLeaver, Leaving, Others, Same
  <2>2. q # p /\ rev'[q] = rev[q]
    BY <1>1
  <2>3. \/ rev[q][2] \in thread[t].todo
        \/ \E w \in Threads : thread[w].pc = "forget" /\ thread[w].port = q
    BY <1>1, <1>4, <2>1, <2>2 DEF PortInv, DropsAll, Leaving
  <2>4. QED
    BY <1>1, <1>10, <2>1, <2>2, <2>3 DEF Same
<1>15. QED
  BY <1>1, <1>6, <1>8, <1>11, <1>12, <1>13, <1>14, StaleLater DEF PortInv

\* What was dropped before the iteration failed is where two threads met.
LEMMA DropFailsPorts ==
    ASSUME LocalInv, PortInv, NEW t \in Threads, DropFails(t) PROVE PortInv'
<1> DEFINE c == thread[t].client
<1>1. /\ LocalInv' /\ thread[t].pc = "dropping" /\ c \in Clients
      /\ thread'[t].pc = "idle"
      /\ Others(t) /\ UNCHANGED <<clients, fwd, rev>>
      /\ raced \subseteq raced'
      /\ \A e \in In(fwd[c]) : e.flow \notin thread[t].todo => e.port \in raced'
  BY DropFailsEffect
<1>2. \A u \in Threads : thread'[u].pc \notin Leaving
  BY <1>1 DEF LocalInv, OneLeaver, Leaving, Others, Same
<1>3. \A d \in Clients : \A e \in In(fwd[d]) :
        /\ Standing(thread', d, e)
        /\ Standing(thread, d, e) \/ e.port \in raced'
  BY <1>1, <1>2 DEF Standing, LocalInv, OneLeaver, Leaving
<1>4. \A d, x : \A u \in Threads : Entering(u, d, x) => Entering(u, d, x)'
  BY <1>1 DEF Entering, Others, Same
<1>5. \A u \in Threads : thread[u].pc \in Busy => thread[u].client \in Clients
  BY Locals DEF Knows
<1> HIDE DEF c
<1>6. LiveMapped'
  BY <1>1, <1>3, <1>4 DEF PortInv, LiveMapped
<1>7. TransitExclusive'
  BY <1>1, <1>3, <1>5 DEF PortInv, TransitExclusive, Others, Same, InTransit, Busy
<1>8. EvictedMapped'
  BY <1>1 DEF PortInv, EvictedMapped, Others, Same
<1>9. DroppedMapped' /\ DropsAll'
  BY <1>2 DEF DroppedMapped, DropsAll, Leaving
<1>10. \A u \in Threads : thread[u].pc = "forget" => Same(u)
  BY <1>1 DEF Others
<1>11. NoStale'
  BY <1>1, <1>10, StaleAsSets DEF PortInv, NoStale, Same
<1>12. QED
  BY <1>1, <1>6, <1>7, <1>8, <1>9, <1>11, StaleLater DEF PortInv

\* Nothing leads to a client whose entries are all dropped.
LEMMA DropClientPorts ==
    ASSUME LocalInv, PortInv, NEW t \in Threads, DropClient(t) PROVE PortInv'
<1> DEFINE c == thread[t].client
           Alike(u) == /\ thread'[u].pc = thread[u].pc /\ thread'[u].client = thread[u].client
                       /\ thread'[u].flow = thread[u].flow /\ thread'[u].port = thread[u].port
                       /\ thread'[u].todo = thread[u].todo
<1>1. /\ LocalInv' /\ thread[t].pc = "dropping" /\ c \in clients
      /\ thread[t].todo = {} /\ clients' = clients \ {c}
      /\ fwd'[c] = << >> /\ \A d \in Clients \ {c} : fwd'[d] = fwd[d]
      /\ thread'[t].pc = "idle" /\ UNCHANGED <<rev, raced>>
      /\ \A u \in Threads \ {t} : Alike(u) \/ (thread[u].pc = "touch" /\ thread'[u].pc = "idle")
  BY DropClientEffect DEF Same
<1>2. c \in Clients /\ In(fwd'[c]) = {} /\ (\A d \in Clients : In(fwd'[d]) \subseteq In(fwd[d]))
  <2>1. In(<< >>) = {}
    BY DEF In
  <2>2. QED
    BY <1>1, <2>1, Locals
<1>3. \A u \in Threads : thread'[u].pc \notin Leaving
  BY <1>1 DEF LocalInv, OneLeaver, Leaving
<1>4. thread[t].client = c
  OBVIOUS
<1> HIDE DEF c
<1>5. \A d, e : d # c => (Standing(thread', d, e) /\ Standing(thread, d, e))
  BY <1>1, <1>3, <1>4 DEF Standing, LocalInv, OneLeaver, Leaving
<1>6. \A d, x : \A u \in Threads : Entering(u, d, x) => Entering(u, d, x)'
  BY <1>1 DEF Entering
<1>7. \A u \in Threads : thread[u].pc \in Busy => thread[u].client \in Clients
  BY Locals DEF Knows
<1>8. LiveMapped'
  <2> SUFFICES ASSUME NEW d \in Clients, NEW e \in In(fwd'[d]), e.port \notin raced
               PROVE  rev[e.port] = <<d, e.flow>> \/ \E u \in Threads : Entering(u, d, e)'
    BY <1>1 DEF LiveMapped
  <2>1. d # c /\ e \in In(fwd[d])
    BY <1>2
  <2>2. QED
    BY <1>5, <1>6, <2>1 DEF PortInv, LiveMapped
<1>9. TransitExclusive'
  <2> SUFFICES ASSUME NEW u \in Threads, thread'[u].pc \in InTransit, thread'[u].port \notin raced
               PROVE  /\ rev[thread'[u].port] = None
                      /\ \A w \in Threads \ {u} : thread'[w].pc \in InTransit => thread'[w].port # thread'[u].port
                      /\ thread'[u].pc = "reverse" =>
                          /\ thread'[u].client \in clients'
                          /\ [flow |-> thread'[u].flow, port |-> thread'[u].port] \in In(fwd'[thread'[u].client])
                          /\ Standing(thread', thread'[u].client, [flow |-> thread'[u].flow, port |-> thread'[u].port])
    BY <1>1 DEF TransitExclusive
  <2>1. Alike(u) /\ \A w \in Threads : thread'[w].pc \in InTransit => Alike(w)
    BY <1>1 DEF InTransit
  <2>2. /\ rev[thread[u].port] = None
        /\ \A w \in Threads \ {u} : thread[w].pc \in InTransit => thread[w].port # thread[u].port
        /\ thread[u].pc = "reverse" =>
            /\ thread[u].client \in clients
            /\ [flow |-> thread[u].flow, port |-> thread[u].port] \in In(fwd[thread[u].client])
            /\ Standing(thread, thread[u].client, [flow |-> thread[u].flow, port |-> thread[u].port])
    BY <2>1 DEF PortInv, TransitExclusive
  <2>3. thread[u].pc = "reverse" => thread[u].client # c /\ thread[u].client \in Clients
    BY <1>1, <1>4, <1>7, <2>2 DEF Standing, Leaving, Busy
  <2>4. QED
    BY <1>1, <1>5, <2>1, <2>2, <2>3
<1>10. \A u \in Threads : thread'[u].pc = "forget" \/ thread[u].pc = "forget" => Alike(u)
  BY <1>1
<1>11. EvictedMapped'
  BY <1>1, <1>2, <1>7, <1>10 DEF PortInv, EvictedMapped, Busy, Holding
<1>12. DroppedMapped' /\ DropsAll'
  BY <1>3 DEF DroppedMapped, DropsAll, Leaving
<1>13. NoStale'
  <2> SUFFICES ASSUME NEW q \in Ports, q \notin raced, rev[q] # None
               PROVE  \/ rev[q][1] \in clients' /\ [flow |-> rev[q][2], port |-> q] \in In(fwd'[rev[q][1]])
                      \/ \E u \in Threads : thread'[u].pc = "forget" /\ thread'[u].port = q
    BY <1>1 DEF NoStale
  <2>1. \/ rev[q][1] \in clients /\ [flow |-> rev[q][2], port |-> q] \in In(fwd[rev[q][1]])
        \/ \E u \in Threads : thread[u].pc = "forget" /\ thread[u].port = q
    BY StaleAsSets DEF PortInv, NoStale
  <2>2. rev[q][1] = c => \E u \in Threads : thread[u].pc = "forget" /\ thread[u].port = q
    BY <1>1, <1>4 DEF PortInv, DropsAll, Leaving
  <2>3. rev[q][1] \in Clients
    BY EntryFacts
  <2>4. QED
    BY <1>1, <1>10, <2>1, <2>2, <2>3
<1>14. QED
  BY <1>1, <1>8, <1>9, <1>11, <1>12, <1>13, StaleLater DEF PortInv

-----------------------------------------------------------------------------
\* The invariant holds in the initial state and every step keeps it.

LEMMA InitInv == ASSUME Init PROVE IInv
<1> USE DEF Init
<1>1. TypeOK
  <2>1. << >> \in Seq(Entries)
    OBVIOUS
  <2>2. NoSession \in ThreadStates
    BY Sessions
  <2>3. GatewayIdle \in [pc : {"idle", "check", "touch", "dead"},
                         client : Clients \cup {None}, flow : Flows \cup {None}]
    BY DEF GatewayIdle
  <2>4. QED
    BY <2>1, <2>2, <2>3 DEF TypeOK, ThreadStates
<1>2. \A t \in Threads : thread[t].pc = "idle" /\ Knows(thread[t], clients, fwd)
  BY Sessions, NothingToKnow
<1>3. \A c \in Clients : fwd[c] = << >> /\ In(fwd[c]) = {} /\ OneEach(fwd[c]) /\ Len(fwd[c]) = 0
  BY DEF In, OneEach
<1>4. LocalInv
  BY <1>1, <1>2, <1>3 DEF LocalInv, ThreadLocals, OneLeaver, Leaving, GatewayLocals, GatewayIdle,
                          NobodyHasNothing, FlowsOnce
<1>5. RoomGranted
  <2> SUFFICES ASSUME NEW c \in Clients PROVE RoomFor(c)
    BY DEF RoomGranted, RoomFor
  <2>1. Granted(c) = {}
    BY <1>2 DEF Granted
  <2>2. Cardinality(Granted(c)) = 0
    BY <2>1, FS_EmptySet
  <2>3. QED
    BY <1>3, <2>2, GrantedFinite, NATConstants DEF RoomFor
<1>6. PortInv
  <2>1. LiveMapped
    BY <1>3 DEF LiveMapped
  <2>2. TransitExclusive /\ EvictedMapped /\ DroppedMapped /\ DropsAll
    BY <1>2 DEF TransitExclusive, EvictedMapped, DroppedMapped, DropsAll, InTransit, Leaving
  <2>3. NoStaleReverse
    BY DEF NoStaleReverse
  <2>4. QED
    BY <2>1, <2>2, <2>3 DEF PortInv
<1>7. QED
  BY <1>4, <1>5, <1>6 DEF IInv

LEMMA StepInv == ASSUME IInv, Next PROVE IInv'
<1>0. LocalInv /\ RoomGranted /\ PortInv
  BY DEF IInv
<1> DEFINE Kept3 == LocalInv' /\ RoomGranted' /\ PortInv'
<1>1. ASSUME Quiet PROVE Kept3
  <2>1. LocalInv' /\ Calm
    BY <1>0, <1>1, QuietStep
  <2>2. QED
    BY <1>0, <2>1, CalmRoom, CalmPorts
<1>2. ASSUME NEW t \in Threads, EvictForward(t) PROVE Kept3
  <2>1. LocalInv'
    BY <1>0, <1>2, EvictForwardEffect
  <2>2. QED
    BY <1>0, <1>2, <2>1, EvictForwardRoom, EvictForwardPorts
<1>3. ASSUME NEW t \in Threads, EvictReverse(t) PROVE Kept3
  <2>1. /\ LocalInv' /\ Others(t) /\ fwd' = fwd /\ thread[t].pc = "forget"
        /\ thread'[t].client = thread[t].client /\ thread'[t].nobodys = thread[t].nobodys
    BY <1>0, <1>3, EvictReverseEffect
  <2>2. RoomGranted'
    BY <1>0, <2>1, OtherRoom
  <2>3. QED
    BY <1>0, <1>3, <2>1, <2>2, EvictReversePorts
<1>4. ASSUME NEW t \in Threads, NEW p \in Ports, Allocate(t, p) PROVE Kept3
  <2>1. /\ LocalInv' /\ Others(t) /\ fwd' = fwd /\ thread[t].pc = "allocate"
        /\ thread'[t].client = thread[t].client /\ thread'[t].nobodys = thread[t].nobodys
    BY <1>0, <1>4, AllocateEffect
  <2>2. RoomGranted'
    BY <1>0, <2>1, OtherRoom
  <2>3. QED
    BY <1>0, <1>4, <2>1, <2>2, AllocatePorts
<1>5. ASSUME NEW t \in Threads, InsertForward(t) PROVE Kept3
  <2>1. LocalInv'
    BY <1>0, <1>5, InsertForwardEffect
  <2>2. QED
    BY <1>0, <1>5, <2>1, InsertForwardRoom, InsertForwardPorts
<1>6. ASSUME NEW t \in Threads, InsertNobodys(t) PROVE Kept3
  <2>1. LocalInv' /\ Others(t) /\ fwd' = fwd /\ thread'[t].pc = "reverse"
    BY <1>0, <1>6, InsertNobodysEffect
  <2>2. RoomGranted'
    BY <1>0, <2>1, OtherRoom
  <2>3. QED
    BY <1>0, <1>6, <2>1, <2>2, InsertNobodysPorts
<1>7. ASSUME NEW t \in Threads, InsertReverse(t) PROVE Kept3
  <2>1. LocalInv' /\ Others(t) /\ fwd' = fwd /\ thread'[t].pc = "idle"
    BY <1>0, <1>7, InsertReverseEffect
  <2>2. RoomGranted'
    BY <1>0, <2>1, OtherRoom
  <2>3. QED
    BY <1>0, <1>7, <2>1, <2>2, InsertReversePorts
<1>8. ASSUME NEW t \in Threads, UnregisterClient(t) PROVE Kept3
  <2>1. LocalInv' /\ Others(t) /\ fwd' = fwd /\ thread'[t].pc = "dropping"
    BY <1>0, <1>8, UnregisterClientEffect
  <2>2. RoomGranted'
    BY <1>0, <2>1, OtherRoom
  <2>3. QED
    BY <1>0, <1>8, <2>1, <2>2, UnregisterClientPorts
<1>9. ASSUME NEW t \in Threads, NEW f \in Flows, DropNext(t, f) PROVE Kept3
  <2>1. LocalInv' /\ Others(t) /\ fwd' = fwd /\ thread'[t].pc = "drop"
    BY <1>0, <1>9, DropNextEffect
  <2>2. RoomGranted'
    BY <1>0, <2>1, OtherRoom
  <2>3. QED
    BY <1>0, <1>9, <2>1, <2>2, DropNextPorts
<1>10. ASSUME NEW t \in Threads, DropReverse(t) PROVE Kept3
  <2>1. LocalInv' /\ Others(t) /\ fwd' = fwd /\ thread'[t].pc = "dropping"
    BY <1>0, <1>10, DropReverseEffect
  <2>2. RoomGranted'
    BY <1>0, <2>1, OtherRoom
  <2>3. QED
    BY <1>0, <1>10, <2>1, <2>2, DropReversePorts
<1>11. ASSUME NEW t \in Threads, DropFails(t) PROVE Kept3
  <2>1. LocalInv' /\ Others(t) /\ fwd' = fwd /\ thread'[t].pc = "idle"
    BY <1>0, <1>11, DropFailsEffect
  <2>2. RoomGranted'
    BY <1>0, <2>1, OtherRoom
  <2>3. QED
    BY <1>0, <1>11, <2>1, <2>2, DropFailsPorts
<1>12. ASSUME NEW t \in Threads, DropClient(t) PROVE Kept3
  <2>1. LocalInv'
    BY <1>0, <1>12, DropClientEffect
  <2>2. QED
    BY <1>0, <1>12, <2>1, DropClientRoom, DropClientPorts
<1>13. Kept3
  <2>1. \/ Quiet
        \/ \E t \in Threads :
             \/ EvictForward(t) \/ EvictReverse(t) \/ \E p \in Ports : Allocate(t, p)
             \/ InsertForward(t) \/ InsertNobodys(t) \/ InsertReverse(t) \/ UnregisterClient(t)
             \/ \E f \in Flows : DropNext(t, f)
             \/ DropReverse(t) \/ DropFails(t) \/ DropClient(t)
    BY Zenon DEF Next, Quiet
  <2> HIDE DEF Kept3
  <2>2. QED
    BY <1>1, <1>2, <1>3, <1>4, <1>5, <1>6, <1>7, <1>8, <1>9, <1>10, <1>11, <1>12, <2>1, ZenonT(60)
<1>14. QED
  BY <1>13 DEF IInv

LEMMA StutterInv == ASSUME IInv, UNCHANGED vars PROVE IInv'
<1>0. LocalInv /\ RoomGranted /\ PortInv
  BY DEF IInv
<1>1. /\ UNCHANGED <<clients, fwd, rev, thread, raced>> /\ gateway' = gateway
  BY DEF vars
<1>2. LocalInv' /\ Calm
  BY <1>0, <1>1, CalmGateway DEF LocalInv, TypeOK, GatewayLocals
<1>3. QED
  BY <1>0, <1>2, CalmRoom, CalmPorts DEF IInv

-----------------------------------------------------------------------------

\* The inductive invariant holds in every reachable state, however many threads work in
\* one table.
THEOREM Invariant == Spec => []IInv
<1>1. Init => IInv
  BY InitInv
<1>2. IInv /\ [Next]_vars => IInv'
  BY StepInv, StutterInv
<1>3. QED
  BY <1>1, <1>2, PTL DEF Spec

\* Every variable keeps its type; in particular no thread enters a flow without a port
\* (NAT.py:151-160, _allocate_port).
THEOREM TypeCorrect == Spec => []TypeOK
<1>1. IInv => TypeOK
  BY DEF IInv, LocalInv
<1>2. QED
  BY <1>1, Invariant, PTL

\* However many handler threads find room in one table at the same time, it exceeds
\* MAX_L4_PER_CLIENT by less than their number, and never has two entries for a flow
\* (NAT.py:54-74, 143-149).
THEOREM TablesStayBounded == Spec => []TablesBounded
<1>1. IInv => TablesBounded
  <2> SUFFICES ASSUME IInv, NEW c \in Clients
               PROVE  /\ Len(fwd[c]) <= MaxPerClient + (Cardinality(Threads) - 1)
                      /\ OneEach(fwd[c])
    BY DEF TablesBounded, OneEach
  <2>1. fwd[c] \in Seq(Entries) /\ OneEach(fwd[c])
    BY Locals DEF IInv
  <2>2. Len(fwd[c]) \in Nat
    BY <2>1
  <2>3. RoomFor(c)
    BY DEF IInv, RoomGranted, RoomFor
  <2>4. QED
    BY <2>1, <2>2, <2>3, GrantedFinite, NATConstants DEF RoomFor
<1>2. QED
  BY <1>1, Invariant, PTL

\* What comes to a port no two threads met at goes to the client and the flow that have
\* it, and not to whoever has the address of a client that is gone (NAT.py:30-40, 84-93).
THEOREM ReverseIsNeverStale == Spec => []NoStaleReverse
<1>1. IInv => NoStaleReverse
  BY DEF IInv, PortInv
<1>2. QED
  BY <1>1, Invariant, PTL

\* The reverse table leads back to every flow of a registered client, but for ports two
\* threads met at, the instant of its insertion, and a client that is being unregistered
\* (NAT.py:52-76, 84-93).
THEOREM RepliesComeBack == Spec => []RepliesFindFlow
<1>1. IInv => RepliesFindFlow
  <2> SUFFICES ASSUME IInv, NEW c \in clients, NEW e \in EntriesOf(c),
                      e.port \notin raced, ~HalfEntered(e.port), ~BeingDropped(c)
               PROVE  rev[e.port] = <<c, e.flow>>
    BY DEF RepliesFindFlow
  <2>1. c \in Clients /\ e \in In(fwd[c])
    BY Locals, TablesAsSets DEF IInv
  <2>2. Standing(thread, c, e)
    BY DEF Standing, BeingDropped, Dropping, Leaving
  <2>3. ~ \E t \in Threads : Entering(t, c, e)
    BY DEF Entering, HalfEntered
  <2>4. LiveMapped
    BY DEF IInv, PortInv
  <2>5. QED
    BY <2>1, <2>2, <2>3, <2>4 DEF LiveMapped
<1>2. QED
  BY <1>1, Invariant, PTL

=============================================================================
