------------------------------ MODULE ClientNAT -------------------------------
(***************************************************************************)
(* The address translation of Client/NAT.py.  The send thread translates   *)
(* what leaves the tunnel, the receive thread what comes back; the object  *)
(* has no lock.  The table for ports and the one for ICMP identifiers are  *)
(* cleared as a whole, the first after an entry crossed its limit, the     *)
(* second before an entry would.  A step is one operation on one map.      *)
(*                                                                         *)
(* `awaited` is not in the code: the answers that may still come to a      *)
(* mapping of the present table.  Those to a cleared one are not followed: *)
(* they find nobody, or the flow that has the port by then.                *)
(* A packet that cannot be parsed, or has neither ports nor an echo        *)
(* identifier, is dropped and changes nothing.                             *)
(***************************************************************************)
EXTENDS IPPacket, FiniteSets

CONSTANTS
    Flows,          \* <<protocol, source address, source port or identifier>>
    Ports,          \* _PORT_SPACE and _ID_SPACE
    Ignored,        \* _ignored_ports
    Exit,           \* _exit_ip
    MaxEntries,     \* MAX_ENTRIES, of ports of all protocols
    MaxICMP,        \* MAX_ICMP_ENTRIES
    None

\* The space is larger than a table can grow, so the scan finds a port.
ASSUME ClientNATConstants ==
    /\ Flows \subseteq Protocols \X Words \X Words
    /\ Ports \subseteq Words /\ Ignored \subseteq Ports /\ Exit \in Words
    /\ MaxEntries \in Nat \ {0} /\ MaxICMP \in Nat \ {0}
    /\ None \notin Flows /\ None \notin Words

VARIABLES
    fwd,        \* _out_to_nat and _icmp_out_to_nat
    rev,        \* _nat_to_out and _icmp_nat_to_out, by protocol and port
    send,       \* the send thread
    heard,      \* where the last answer went
    awaited

vars == <<fwd, rev, send, heard, awaited>>

-----------------------------------------------------------------------------

Keys == Protocols \X Ports
SendIdle == [pc |-> "idle", flow |-> None, port |-> None]
Goto(place) == send' = [send EXCEPT !.pc = place]

\* One table for ICMP, one for all other protocols.
SameTable(a, b) == (a = ICMP) <=> (b = ICMP)
Entries(proto) == {f \in Flows : fwd[f] # None /\ SameTable(f[1], proto)}

-----------------------------------------------------------------------------
\* translate_out and _icmp_out, on the send thread.

\* Mutant of Lookup: the ICMP table is cleared once it has crossed its limit.
LookupOffByOne(f) ==
    /\ send.pc = "idle"
    /\ send' = [flow |-> f, port |-> fwd[f],
                pc |-> IF fwd[f] # None THEN "emit"
                       ELSE IF f[1] = ICMP /\ Cardinality(Entries(ICMP)) > MaxICMP
                            THEN "clear icmp" ELSE "allocate"]
    /\ UNCHANGED <<fwd, rev, heard, awaited>>

\* A flow with an entry keeps its port; a new ICMP flow clears a full table first.
Lookup(f) ==
    /\ send.pc = "idle"
    /\ send' = [flow |-> f, port |-> fwd[f],
                pc |-> IF fwd[f] # None THEN "emit"
                       ELSE IF f[1] = ICMP /\ Cardinality(Entries(ICMP)) >= MaxICMP
                            THEN "clear icmp" ELSE "allocate"]
    /\ UNCHANGED <<fwd, rev, heard, awaited>>

\* Mutant of Free: the reverse map is not looked at.
FreeBlindly(proto, p) == proto # ICMP => p # 0 /\ p \notin Ignored

Free(proto, p) ==
    /\ rev[<<proto, p>>] = None
    /\ proto # ICMP => p # 0 /\ p \notin Ignored

\* _allocate_port, _allocate_icmp_id: the first free one after a random one.
Allocate(p) ==
    /\ send.pc = "allocate"
    /\ Free(send.flow[1], p)
    /\ send' = [send EXCEPT !.port = p, !.pc = "insert"]
    /\ UNCHANGED <<fwd, rev, heard, awaited>>

\* Mutant of InsertForward: the scan has gone one past the port it found.
InsertForwardNext ==
    /\ send.pc = "insert"
    /\ fwd' = [fwd EXCEPT ![send.flow] = send.port + 1]
    /\ Goto("insert reverse")
    /\ UNCHANGED <<rev, heard, awaited>>

InsertForward ==
    /\ send.pc = "insert"
    /\ fwd' = [fwd EXCEPT ![send.flow] = send.port]
    /\ Goto("insert reverse")
    /\ UNCHANGED <<rev, heard, awaited>>

\* _maybe_flush looks at the limit after the entry is made.
InsertReverse ==
    /\ send.pc = "insert reverse"
    /\ rev' = [rev EXCEPT ![<<send.flow[1], send.port>>] = send.flow]
    /\ Goto(IF send.flow[1] # ICMP /\ Cardinality(Entries(TCP)) > MaxEntries
            THEN "flush" ELSE "emit")
    /\ UNCHANGED <<fwd, heard, awaited>>

ForwardCleared(proto) == [f \in Flows |-> IF SameTable(f[1], proto) THEN None ELSE fwd[f]]

ClearReverse(proto) ==
    /\ rev' = [k \in Keys |-> IF SameTable(k[1], proto) THEN None ELSE rev[k]]
    /\ awaited' = {a \in awaited : ~SameTable(a[1][1], proto)}

\* The flush clears the forward map first,
FlushForward ==
    /\ send.pc = "flush"
    /\ fwd' = ForwardCleared(TCP)
    /\ Goto("flush reverse")
    /\ UNCHANGED <<rev, heard, awaited>>

FlushReverse ==
    /\ send.pc = "flush reverse"
    /\ ClearReverse(TCP)
    /\ Goto("emit")
    /\ UNCHANGED <<fwd, heard>>

\* the clearing of the ICMP table the reverse map.
ClearICMPReverse ==
    /\ send.pc = "clear icmp"
    /\ ClearReverse(ICMP)
    /\ Goto("clear icmp forward")
    /\ UNCHANGED <<fwd, heard>>

\* Mutant of ClearICMPForward: only the reverse map is cleared.
KeepICMPForward ==
    /\ send.pc = "clear icmp forward"
    /\ Goto("allocate")
    /\ UNCHANGED <<fwd, rev, heard, awaited>>

ClearICMPForward ==
    /\ send.pc = "clear icmp forward"
    /\ fwd' = ForwardCleared(ICMP)
    /\ Goto("allocate")
    /\ UNCHANGED <<rev, heard, awaited>>

\* The packet leaves with its new source, and may be answered.
Emit ==
    /\ send.pc = "emit"
    /\ LET key == <<send.flow[1], send.port>>
       IN  awaited' = IF rev[key] = None THEN awaited ELSE awaited \cup {<<key, send.flow>>}
    /\ send' = SendIdle
    /\ UNCHANGED <<fwd, rev, heard>>

\* Mutant of Outbound: the identifier is written without its checksums.
OutboundStale(p, port) ==
    LET sourced == WithSource(p, Exit, port)
    IN  IF p.proto = ICMP THEN [sourced EXCEPT !.sport = port] ELSE sourced

\* The packet that leaves: set_source, and set_icmp_id for ICMP.
Outbound(p, port) ==
    LET sourced == WithSource(p, Exit, port)
    IN  IF p.proto = ICMP THEN WithIdentifier(sourced, port) ELSE sourced

-----------------------------------------------------------------------------
\* translate_in and _icmp_in, on the receive thread: one look at the reverse map.

Answer(a) ==
    /\ a \in awaited
    /\ heard' = IF rev[a[1]] = a[2] THEN "its flow" ELSE "another"
    /\ UNCHANGED <<fwd, rev, send, awaited>>

\* The packet that goes into the tunnel: set_destination, and set_icmp_id.
Inbound(p, flow) ==
    LET aimed == WithDestination(p, flow[2], flow[3])
    IN  IF p.proto = ICMP THEN WithIdentifier(aimed, flow[3]) ELSE aimed

-----------------------------------------------------------------------------

Init ==
    /\ fwd = [f \in Flows |-> None]
    /\ rev = [k \in Keys |-> None]
    /\ send = SendIdle
    /\ heard = "nothing"
    /\ awaited = {}

Next ==
    \/ \E f \in Flows : Lookup(f)
    \/ \E p \in Ports : Allocate(p)
    \/ InsertForward \/ InsertReverse \/ FlushForward \/ FlushReverse
    \/ ClearICMPReverse \/ ClearICMPForward \/ Emit
    \/ \E a \in Keys \X Flows : Answer(a)

Spec == Init /\ [][Next]_vars

-----------------------------------------------------------------------------

\* Types of the state.
TypeOK ==
    /\ fwd \in [Flows -> Ports \cup {None}]
    /\ rev \in [Keys -> Flows \cup {None}]
    /\ send \in [pc : {"idle", "allocate", "insert", "insert reverse", "flush", "flush reverse",
                       "clear icmp", "clear icmp forward", "emit"},
                 flow : Flows \cup {None}, port : Ports \cup {None}]
    /\ heard \in {"nothing", "its flow", "another"}
    /\ awaited \subseteq Keys \X Flows

\* The two maps are each other's inverse whenever a packet leaves or an answer is
\* looked up between packets: they part only inside the steps of the send thread.
MapsAreInverse == send.pc \in {"idle", "allocate", "emit"} =>
    /\ \A f \in Flows : fwd[f] # None => rev[<<f[1], fwd[f]>>] = f
    /\ \A k \in Keys : rev[k] # None => rev[k][1] = k[1] /\ fwd[rev[k]] = k[2]

\* A packet leaves with the mapping its answer will need, except the one whose own
\* entry crossed the limit of the port table; an ICMP packet always does.
EmittedIsMapped == send.pc = "emit" =>
    \/ rev[<<send.flow[1], send.port>>] = send.flow
    \/ send.flow[1] # ICMP /\ Entries(TCP) = {}

\* An answer to a mapping that was not cleared reaches its own flow, whatever the
\* send thread is doing to the maps.
AnswersReachFlow == heard # "another"

\* The limits hold between packets, and no flow has a port that the socket of the VPN
\* itself uses or that stands for none.
TablesBounded ==
    /\ send.pc \in {"idle", "emit"} => Cardinality(Entries(TCP)) <= MaxEntries
    /\ Cardinality(Entries(ICMP)) <= MaxICMP
    /\ \A f \in Flows \ ({ICMP} \X Words \X Words) : fwd[f] \notin Ignored \cup {0}

\* Every packet in either direction has checksums its receiver accepts, whatever
\* checksums it came with, and the answer to a translated packet, translated back, goes
\* to the endpoint the packet came from.
RewritesVerify == send.pc = "emit" =>
    \A body, peer, stale \in Words :
        LET p == [proto |-> send.flow[1], src |-> send.flow[2], dst |-> peer,
                  sport |-> send.flow[3], dport |-> peer, body |-> body,
                  ipsum |-> stale, l4sum |-> stale]
            out == Outbound(p, send.port)
            answer == [out EXCEPT !.src = out.dst, !.dst = out.src,
                            !.sport = IF out.proto # ICMP THEN out.dport ELSE @,
                            !.dport = IF out.proto # ICMP THEN out.sport ELSE @]
            back == Inbound(answer, send.flow)
        IN  /\ Verifies(out) /\ out.src = Exit /\ out.sport = send.port
            /\ Verifies(back) /\ back.dst = p.src
            /\ (IF p.proto = ICMP THEN back.sport ELSE back.dport) = p.sport

=============================================================================
