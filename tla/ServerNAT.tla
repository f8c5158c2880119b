----------------------------- MODULE ServerNAT ------------------------------
(***************************************************************************)
(* The address translation of Server/NAT.py.  One table of each client     *)
(* (flow -> port of the exit address, in the order of last use) and one    *)
(* reverse table for all of them.  The object has no lock: every handler   *)
(* thread translates what its own client sends, the gateway thread what    *)
(* comes back, and a step is one operation on one table.  Only the calls   *)
(* of register_client and unregister_client exclude each other, because    *)
(* VPNServer makes them under its lock.                                    *)
(*                                                                         *)
(* translate_out takes the table of the packet's source address, whatever  *)
(* the address of the session it came in on, and two sessions may have     *)
(* registered the same address (VPNServer.Announce).  So any number of     *)
(* threads may be at work in one table.                                    *)
(*                                                                         *)
(* The tables for TCP/UDP ports and for ICMP identifiers are separate and  *)
(* handled alike (_icmp_out, _icmp_in, _evict_icmp_lru, _allocate_icmp_id);*)
(* the module models one of the two, and one transport protocol.           *)
(***************************************************************************)
EXTENDS Naturals, Sequences, FiniteSets

CONSTANTS
    Threads,        \* handler threads
    Clients,        \* tunnel addresses
    Flows,          \* (protocol, source port), or an ICMP identifier
    Ports,          \* ports to allocate, none of them ignored
    MaxPerClient,   \* MAX_L4_PER_CLIENT, or MAX_ICMP_PER_CLIENT
    None

ASSUME NATConstants ==
    /\ MaxPerClient \in Nat \ {0}
    /\ IsFiniteSet(Threads) /\ Threads # {}
    /\ None \notin Clients \cup Flows \cup Ports \cup (Clients \X Flows)

VARIABLES
    clients,    \* _clients
    fwd,        \* _l4_fwd: per client, its entries, least recently used first
    rev,        \* _l4_rev: per port, the client and the flow, or None
    thread,     \* the handler threads
    gateway,    \* the gateway thread
    raced       \* ports two threads met at (not in the code; see Meets)

vars == <<clients, fwd, rev, thread, gateway, raced>>

-----------------------------------------------------------------------------

Entries == [flow : Flows, port : Ports]

\* home: the address its session registered; client, flow, port: of the packet in hand;
\* nobodys: the table it holds was dropped by unregister_client;
\* todo, changed: the flows unregister_client has still to visit, and whether the order
\* of the table changed since it began.
NoSession == [pc |-> "idle", home |-> None, client |-> None, flow |-> None, port |-> None,
              nobodys |-> FALSE, todo |-> {}, changed |-> FALSE]
InSession(home) == [NoSession EXCEPT !.home = home]
GatewayIdle == [pc |-> "idle", client |-> None, flow |-> None]

EntriesOf(c) == {fwd[c][i] : i \in DOMAIN fwd[c]}

Has(c, f) == \E e \in EntriesOf(c) : e.flow = f

\* The place of the entry of a flow.
At(table, f) == CHOOSE i \in DOMAIN table : table[i].flow = f

\* move_to_end: the entry of the flow becomes the most recently used.
MovedToEnd(table, f) ==
    LET i == At(table, f)
    IN  Append(SubSeq(table, 1, i - 1) \o SubSeq(table, i + 1, Len(table)), table[i])

\* table[flow] = port: a new entry goes to the end, an old one keeps its place.
Entered(table, f, p) ==
    IF \E i \in DOMAIN table : table[i].flow = f
    THEN [table EXCEPT ![At(table, f)].port = p]
    ELSE Append(table, [flow |-> f, port |-> p])

\* The thread that is unregistering client c; VPNServer's lock allows for one at a time.
Dropping(t, c) == thread[t].pc \in {"dropping", "drop"} /\ thread[t].client = c
BeingDropped(c) == \E t \in Threads : Dropping(t, c)
Locked == \E t \in Threads : thread[t].pc \in {"dropping", "drop"}

\* Another thread has chosen the port, or its entry, and not entered it in the reverse table.
Chosen(p) == \E t \in Threads : thread[t].pc \in {"insert", "reverse"} /\ thread[t].port = p
HalfEntered(p) == \E t \in Threads : thread[t].pc = "reverse" /\ thread[t].port = p

\* Where two threads meet at a port: both have chosen it; one takes an entry away that
\* the other is still making or taking; one puts an entry where it will not be looked for.
Meets(p, when) == raced' = IF when THEN raced \cup {p} ELSE raced

\* Whoever has still to go on through the table of c will find it in another order.
Disturbed(c, state) == [t \in Threads |->
    IF Dropping(t, c) /\ thread[t].todo # {} THEN [state[t] EXCEPT !.changed = TRUE] ELSE state[t]]

-----------------------------------------------------------------------------
\* Handler thread t: register_client, and translate_out (_icmp_out) of packets of any
\* source address.

RegisterClient(t, c) ==
    /\ thread[t].pc = "idle"
    /\ thread[t].home = None
    /\ ~Locked
    /\ clients' = clients \cup {c}
    /\ fwd' = IF c \in clients THEN fwd ELSE [fwd EXCEPT ![c] = << >>]
    /\ thread' = [thread EXCEPT ![t] = InSession(c)]
    /\ UNCHANGED <<rev, gateway, raced>>

\* A flow with an entry: look it up,
TranslateKnown(t, c, f) ==
    /\ thread[t].pc = "idle"
    /\ thread[t].home # None
    /\ c \in clients
    /\ Has(c, f)
    /\ thread' = [thread EXCEPT ![t].pc = "touch", ![t].client = c, ![t].flow = f]
    /\ UNCHANGED <<clients, fwd, rev, gateway, raced>>

\* and make it the most recently used.
Touch(t) ==
    LET c == thread[t].client
        moved == MovedToEnd(fwd[c], thread[t].flow)
        done == [thread EXCEPT ![t] = InSession(@.home)]
    IN  /\ thread[t].pc = "touch"
        /\ Has(c, thread[t].flow)
        /\ fwd' = [fwd EXCEPT ![c] = moved]
        /\ thread' = IF moved # fwd[c] THEN Disturbed(c, done) ELSE done
        /\ UNCHANGED <<clients, rev, gateway, raced>>

\* An error nothing in the session catches ends it.
Fail(t) == thread' = [thread EXCEPT ![t] = [InSession(@.home) EXCEPT !.pc = "unregister"]]

\* The entry was evicted since the look-up: KeyError.
TouchFails(t) ==
    /\ thread[t].pc = "touch"
    /\ ~Has(thread[t].client, thread[t].flow)
    /\ Fail(t)
    /\ UNCHANGED <<clients, fwd, rev, gateway, raced>>

\* Mutant of TranslateNew: a full table is not yet full.
TranslateNewOffByOne(t, c, f) ==
    /\ thread[t].pc = "idle"
    /\ thread[t].home # None
    /\ c \in clients
    /\ ~Has(c, f)
    /\ thread' = [thread EXCEPT ![t].client = c, ![t].flow = f,
                                ![t].pc = IF Len(fwd[c]) > MaxPerClient
                                          THEN "evict" ELSE "allocate"]
    /\ UNCHANGED <<clients, fwd, rev, gateway, raced>>

\* A new flow: a full table evicts first,
TranslateNew(t, c, f) ==
    /\ thread[t].pc = "idle"
    /\ thread[t].home # None
    /\ c \in clients
    /\ ~Has(c, f)
    /\ thread' = [thread EXCEPT ![t].client = c, ![t].flow = f,
                                ![t].pc = IF Len(fwd[c]) >= MaxPerClient
                                          THEN "evict" ELSE "allocate"]
    /\ UNCHANGED <<clients, fwd, rev, gateway, raced>>

\* _evict_l4_lru: the least recently used entry leaves the table the client has now,
EvictForward(t) ==
    LET c == thread[t].client
        p == Head(fwd[c]).port
    IN  /\ thread[t].pc = "evict"
        /\ c \in clients /\ fwd[c] # << >>
        /\ fwd' = [fwd EXCEPT ![c] = Tail(@)]
        /\ thread' = Disturbed(c, [thread EXCEPT ![t].port = p, ![t].pc = "forget"])
        /\ Meets(p, BeingDropped(c) \/ HalfEntered(p))
        /\ UNCHANGED <<clients, rev, gateway>>

\* which may be gone, or be empty: KeyError.
EvictFails(t) ==
    /\ thread[t].pc = "evict"
    /\ thread[t].client \notin clients \/ fwd[thread[t].client] = << >>
    /\ Fail(t)
    /\ UNCHANGED <<clients, fwd, rev, gateway, raced>>

\* Mutant of EvictReverse: the reverse entry stays.
EvictReverseForgotten(t) ==
    /\ thread[t].pc = "forget"
    /\ thread' = [thread EXCEPT ![t].port = None, ![t].pc = "allocate"]
    /\ UNCHANGED <<clients, fwd, rev, gateway, raced>>

\* and its port the reverse table.
EvictReverse(t) ==
    /\ thread[t].pc = "forget"
    /\ rev' = [rev EXCEPT ![thread[t].port] = None]
    /\ thread' = [thread EXCEPT ![t].port = None, ![t].pc = "allocate"]
    /\ UNCHANGED <<clients, fwd, gateway, raced>>

\* Mutant of Allocate: the scan does not look at the reverse table.
AllocateBlindly(t, p) ==
    /\ thread[t].pc = "allocate"
    /\ thread' = [thread EXCEPT ![t].port = p, ![t].pc = "insert"]
    /\ Meets(p, Chosen(p))
    /\ UNCHANGED <<clients, fwd, rev, gateway>>

\* _allocate_port: the scan starts anywhere and takes a port without reverse entry.
\* Two threads may take the same.
Allocate(t, p) ==
    /\ thread[t].pc = "allocate"
    /\ rev[p] = None
    /\ thread' = [thread EXCEPT ![t].port = p, ![t].pc = "insert"]
    /\ Meets(p, Chosen(p))
    /\ UNCHANGED <<clients, fwd, rev, gateway>>

\* Mutant of AllocateFails: the scan ends without an error and returns None.
AllocateFailsQuietly(t) ==
    /\ thread[t].pc = "allocate"
    /\ \A p \in Ports : rev[p] # None
    /\ thread' = [thread EXCEPT ![t].pc = "insert"]
    /\ UNCHANGED <<clients, fwd, rev, gateway, raced>>

\* The scan found none: RuntimeError.
AllocateFails(t) ==
    /\ thread[t].pc = "allocate"
    /\ \A p \in Ports : rev[p] # None
    /\ Fail(t)
    /\ UNCHANGED <<clients, fwd, rev, gateway, raced>>

\* A second thread that missed the same flow puts its port in place of the first one's,
\* whose reverse entry stays.
InsertForward(t) ==
    LET c == thread[t].client
        f == thread[t].flow
        p == thread[t].port
        old == {e.port : e \in {x \in EntriesOf(c) : x.flow = f}}
        next == [thread EXCEPT ![t].pc = "reverse"]
    IN  /\ thread[t].pc = "insert"
        /\ ~thread[t].nobodys
        /\ fwd' = [fwd EXCEPT ![c] = Entered(@, f, p)]
        /\ thread' = IF Has(c, f) THEN next ELSE Disturbed(c, next)
        /\ raced' = raced \cup old \cup (IF BeingDropped(c) THEN {p} ELSE {})
        /\ UNCHANGED <<clients, rev, gateway>>

\* The table is nobody's by now, but the reverse table is not.
InsertNobodys(t) ==
    /\ thread[t].pc = "insert"
    /\ thread[t].nobodys
    /\ thread' = [thread EXCEPT ![t].pc = "reverse"]
    /\ Meets(thread[t].port, TRUE)
    /\ UNCHANGED <<clients, fwd, rev, gateway>>

\* The reverse entry replaces that of a thread that took the same port.
InsertReverse(t) ==
    /\ thread[t].pc = "reverse"
    /\ rev' = [rev EXCEPT ![thread[t].port] = <<thread[t].client, thread[t].flow>>]
    /\ thread' = [thread EXCEPT ![t] = InSession(@.home)]
    /\ UNCHANGED <<clients, fwd, gateway, raced>>

-----------------------------------------------------------------------------
\* The end of the session of thread t: unregister_client of its address.

\* Another session with the same address may have unregistered it.
UnregisterUnknown(t) ==
    /\ thread[t].pc \in {"idle", "unregister"}
    /\ thread[t].home # None
    /\ ~Locked
    /\ thread[t].home \notin clients
    /\ thread' = [thread EXCEPT ![t] = NoSession]
    /\ UNCHANGED <<clients, fwd, rev, gateway, raced>>

\* Go through the table of the client:
UnregisterClient(t) ==
    LET c == thread[t].home
    IN  /\ thread[t].pc \in {"idle", "unregister"}
        /\ c # None
        /\ ~Locked
        /\ c \in clients
        /\ thread' = [thread EXCEPT ![t] = [InSession(c) EXCEPT
                          !.pc = "dropping", !.client = c, !.todo = {e.flow : e \in EntriesOf(c)}]]
        /\ UNCHANGED <<clients, fwd, rev, gateway, raced>>

\* take the next entry,
DropNext(t, f) ==
    LET c == thread[t].client
        p == fwd[c][At(fwd[c], f)].port
    IN  /\ thread[t].pc = "dropping"
        /\ ~thread[t].changed
        /\ f \in thread[t].todo
        /\ thread' = [thread EXCEPT ![t].pc = "drop", ![t].port = p, ![t].todo = @ \ {f}]
        /\ Meets(p, HalfEntered(p))
        /\ UNCHANGED <<clients, fwd, rev, gateway>>

\* and its port out of the reverse table;
DropReverse(t) ==
    /\ thread[t].pc = "drop"
    /\ rev' = [rev EXCEPT ![thread[t].port] = None]
    /\ thread' = [thread EXCEPT ![t].pc = "dropping", ![t].port = None]
    /\ UNCHANGED <<clients, fwd, gateway, raced>>

\* a table in another order raises RuntimeError: the client stays, without the reverse
\* entries that are gone, and the thread ends.
DropFails(t) ==
    LET c == thread[t].client
    IN  /\ thread[t].pc = "dropping"
        /\ thread[t].changed
        /\ thread' = [thread EXCEPT ![t] = NoSession]
        /\ raced' = raced \cup {e.port : e \in {x \in EntriesOf(c) : x.flow \notin thread[t].todo}}
        /\ UNCHANGED <<clients, fwd, rev, gateway>>

\* Forget the client.  Whoever holds its table goes on with a table that is nobody's, in
\* which a touch is seen by no one.
DropClient(t) ==
    LET c == thread[t].client
    IN  /\ thread[t].pc = "dropping"
        /\ thread[t].todo = {}
        /\ clients' = clients \ {c}
        /\ fwd' = [fwd EXCEPT ![c] = << >>]
        /\ thread' = [u \in Threads |->
                        IF u = t THEN NoSession
                        ELSE IF thread[u].client # c THEN thread[u]
                        ELSE IF thread[u].pc = "touch" THEN InSession(thread[u].home)
                        ELSE [thread[u] EXCEPT !.nobodys = TRUE]]
        /\ gateway' = IF gateway.pc = "touch" /\ gateway.client = c THEN GatewayIdle ELSE gateway
        /\ UNCHANGED <<rev, raced>>

-----------------------------------------------------------------------------
\* The gateway thread: translate_in (_icmp_in) of a packet to port p.

\* The reverse table names the client; its table has the flow.
GatewayLookup(p) ==
    /\ gateway.pc = "idle"
    /\ rev[p] # None
    /\ gateway' = [pc |-> "check", client |-> rev[p][1], flow |-> rev[p][2]]
    /\ UNCHANGED <<clients, fwd, rev, thread, raced>>

GatewayCheck ==
    /\ gateway.pc = "check"
    /\ gateway' = IF gateway.client \in clients /\ Has(gateway.client, gateway.flow)
                  THEN [gateway EXCEPT !.pc = "touch"] ELSE GatewayIdle
    /\ UNCHANGED <<clients, fwd, rev, thread, raced>>

\* move_to_end.
GatewayTouch ==
    LET c == gateway.client
        moved == MovedToEnd(fwd[c], gateway.flow)
    IN  /\ gateway.pc = "touch"
        /\ Has(c, gateway.flow)
        /\ fwd' = [fwd EXCEPT ![c] = moved]
        /\ thread' = IF moved # fwd[c] THEN Disturbed(c, thread) ELSE thread
        /\ gateway' = GatewayIdle
        /\ UNCHANGED <<clients, rev, raced>>

\* The flow was evicted since the check: KeyError, which nothing on the gateway
\* thread catches.
GatewayDies ==
    /\ gateway.pc = "touch"
    /\ ~Has(gateway.client, gateway.flow)
    /\ gateway' = [GatewayIdle EXCEPT !.pc = "dead"]
    /\ UNCHANGED <<clients, fwd, rev, thread, raced>>

-----------------------------------------------------------------------------

Init ==
    /\ clients = {}
    /\ fwd = [c \in Clients |-> << >>]
    /\ rev = [p \in Ports |-> None]
    /\ thread = [t \in Threads |-> NoSession]
    /\ gateway = GatewayIdle
    /\ raced = {}

Next ==
    \/ \E t \in Threads :
        \/ \E c \in Clients : RegisterClient(t, c)
        \/ \E c \in Clients, f \in Flows : TranslateKnown(t, c, f) \/ TranslateNew(t, c, f)
        \/ Touch(t) \/ TouchFails(t)
        \/ EvictForward(t) \/ EvictFails(t) \/ EvictReverse(t) \/ AllocateFails(t)
        \/ \E p \in Ports : Allocate(t, p)
        \/ InsertForward(t) \/ InsertNobodys(t) \/ InsertReverse(t)
        \/ UnregisterUnknown(t) \/ UnregisterClient(t)
        \/ \E f \in Flows : DropNext(t, f)
        \/ DropReverse(t) \/ DropFails(t) \/ DropClient(t)
    \/ \E p \in Ports : GatewayLookup(p)
    \/ GatewayCheck \/ GatewayTouch \/ GatewayDies

Spec == Init /\ [][Next]_vars

-----------------------------------------------------------------------------

\* Types of the state.
TypeOK ==
    /\ clients \subseteq Clients
    /\ fwd \in [Clients -> Seq(Entries)]
    /\ rev \in [Ports -> (Clients \X Flows) \cup {None}]
    /\ thread \in [Threads -> [pc : {"idle", "touch", "evict", "forget", "allocate", "insert",
                                     "reverse", "unregister", "dropping", "drop"},
                               home : Clients \cup {None}, client : Clients \cup {None},
                               flow : Flows \cup {None}, port : Ports \cup {None},
                               nobodys : BOOLEAN, todo : SUBSET Flows, changed : BOOLEAN]]
    /\ gateway \in [pc : {"idle", "check", "touch", "dead"},
                    client : Clients \cup {None}, flow : Flows \cup {None}]
    /\ raced \subseteq Ports

\* A reverse entry leads to a registered client whose table has that flow at that port,
\* or the thread that evicted the flow is about to remove it: a port of a client that is
\* gone does not deliver to whoever gets its address next.  The only exceptions are ports
\* two threads met at.
NoStaleReverse == \A p \in Ports \ raced : rev[p] # None =>
    \/ rev[p][1] \in clients /\ [flow |-> rev[p][2], port |-> p] \in EntriesOf(rev[p][1])
    \/ \E t \in Threads : thread[t].pc = "forget" /\ thread[t].port = p

\* Replies to a flow find their way back, unless two threads met at its port, or a thread
\* is just entering the flow, or unregistering the client.
RepliesFindFlow == \A c \in clients : \A e \in EntriesOf(c) :
    \/ rev[e.port] = <<c, e.flow>>
    \/ e.port \in raced
    \/ HalfEntered(e.port)
    \/ BeingDropped(c)

\* A table exceeds its limit by less than the number of threads, and has one entry for a
\* flow: the threads that saw room for one more at the same time all take it, and no table
\* grows further, whatever is evicted or reordered meanwhile.
TablesBounded == \A c \in Clients :
    /\ Len(fwd[c]) <= MaxPerClient + (Cardinality(Threads) - 1)
    /\ \A i, j \in DOMAIN fwd[c] : fwd[c][i].flow = fwd[c][j].flow => i = j

=============================================================================
