--------------------------- MODULE ClientNAT_proofs ---------------------------
(***************************************************************************)
(* The client's NAT maps in ClientNAT, for any flows, ports and limits.    *)
(***************************************************************************)
EXTENDS ClientNAT, IPPacket_proofs, FiniteSetTheorems, TLAPS

\* What the send thread knows at each place of translate_out and _icmp_out.
SendOK ==
    /\ send.pc # "idle" => send.flow \in Flows
    /\ send.pc \in {"insert", "insert reverse", "flush", "flush reverse", "emit"} => send.port \in Ports
    /\ send.pc \in {"allocate", "insert", "clear icmp", "clear icmp forward"} => fwd[send.flow] = None
    /\ send.pc \in {"clear icmp", "clear icmp forward"} => send.flow[1] = ICMP
    /\ send.pc \in {"flush", "flush reverse"} => send.flow[1] # ICMP
    /\ send.pc \in {"insert", "insert reverse"} => rev[<<send.flow[1], send.port>>] = None
    /\ send.pc = "insert reverse" => fwd[send.flow] = send.port

\* Every forward entry has its reverse entry, save the one being made and those of the
\* ICMP table while it is being cleared.
ForwardOK == \A f \in Flows : fwd[f] # None =>
    \/ rev[<<f[1], fwd[f]>>] = f
    \/ send.pc = "insert reverse" /\ f = send.flow
    \/ send.pc = "clear icmp forward" /\ f[1] = ICMP

\* Every reverse entry has its forward entry, save those of the port table while it is
\* being flushed.
ReverseOK == \A k \in Keys : rev[k] # None =>
    /\ rev[k][1] = k[1]
    /\ fwd[rev[k]] = k[2] \/ (send.pc = "flush reverse" /\ k[1] # ICMP)

\* The map that is cleared first is empty when the other one is.
ClearingOK ==
    /\ send.pc = "flush reverse" => \A f \in Flows : f[1] # ICMP => fwd[f] = None
    /\ send.pc = "clear icmp forward" => \A k \in Keys : k[1] = ICMP => rev[k] = None

\* Answers are awaited at mappings that stand.
AwaitedOK == \A a \in awaited : rev[a[1]] = a[2]

IInv ==
    /\ TypeOK
    /\ SendOK
    /\ ForwardOK
    /\ ReverseOK
    /\ ClearingOK
    /\ EmittedIsMapped
    /\ AwaitedOK
    /\ AnswersReachFlow

-----------------------------------------------------------------------------

\* A flow of the protocol and a port make a key of the reverse map.
LEMMA KeyOf == \A f \in Flows, p \in Ports : <<f[1], p>> \in Keys
BY ClientNATConstants DEF Keys

\* Keys are equal when their parts are.
LEMMA KeyParts == \A k \in Keys : k = <<k[1], k[2]>> /\ k[1] \in Protocols /\ k[2] \in Ports
BY DEF Keys

\* The port table is everything but ICMP.
LEMMA PortTable == \A proto : SameTable(proto, TCP) <=> proto # ICMP
<1>1. TCP # ICMP
  BY DEF TCP, ICMP
<1> QED
  BY <1>1 DEF SameTable

-----------------------------------------------------------------------------
\* The actions.

\* A flow is looked up, and nothing changes but the send thread.
LEMMA LookupStep == ASSUME IInv, NEW f \in Flows, Lookup(f) PROVE IInv'
<1> USE DEF IInv
<1> DEFINE place == IF fwd[f] # None THEN "emit"
                    ELSE IF f[1] = ICMP /\ Cardinality(Entries(ICMP)) >= MaxICMP
                         THEN "clear icmp" ELSE "allocate"
<1>1. /\ UNCHANGED <<fwd, rev, heard, awaited>> /\ send.pc = "idle"
      /\ send' = [flow |-> f, port |-> fwd[f], pc |-> place]
  BY DEF Lookup
<1>2. /\ place \in {"emit", "clear icmp", "allocate"}
      /\ place = "emit" <=> fwd[f] # None
      /\ place = "clear icmp" => f[1] = ICMP
  OBVIOUS
<1> HIDE DEF place
<1>3. send'.flow = f /\ send'.port = fwd[f] /\ send'.pc = place
  BY <1>1
<1>4. TypeOK'
  <2>1. f \in Flows \cup {None} /\ fwd[f] \in Ports \cup {None}
    BY DEF TypeOK
  <2>2. send' \in [pc : {"emit", "clear icmp", "allocate"},
                  flow : Flows \cup {None}, port : Ports \cup {None}]
    BY <1>1, <1>2, <2>1
  <2> QED
    BY <1>1, <2>2 DEF TypeOK
<1>5. SendOK'
  <2>1. fwd[f] # None => fwd[f] \in Ports
    BY DEF TypeOK
  <2> QED
    BY <1>1, <1>2, <1>3, <2>1 DEF SendOK
<1>6. ForwardOK' /\ ReverseOK' /\ ClearingOK'
  BY <1>1, <1>2, <1>3 DEF ForwardOK, ReverseOK, ClearingOK
<1>7. EmittedIsMapped'
  BY <1>1, <1>2, <1>3 DEF EmittedIsMapped, ForwardOK
<1>8. AwaitedOK' /\ AnswersReachFlow'
  BY <1>1 DEF AwaitedOK, AnswersReachFlow
<1> QED
  BY <1>4, <1>5, <1>6, <1>7, <1>8

\* A free port is chosen.
LEMMA AllocateStep == ASSUME IInv, NEW p \in Ports, Allocate(p) PROVE IInv'
<1> USE DEF IInv
<1>1. /\ UNCHANGED <<fwd, rev, heard, awaited>> /\ send.pc = "allocate"
      /\ send' = [send EXCEPT !.port = p, !.pc = "insert"]
      /\ rev[<<send.flow[1], p>>] = None
  BY DEF Allocate, Free
<1>2. send'.pc = "insert" /\ send'.port = p /\ send'.flow = send.flow
  BY <1>1 DEF TypeOK
<1>3. TypeOK'
  BY <1>1 DEF TypeOK
<1>4. SendOK'
  BY <1>1, <1>2 DEF SendOK
<1>5. ForwardOK' /\ ReverseOK' /\ ClearingOK' /\ EmittedIsMapped'
  BY <1>1, <1>2 DEF ForwardOK, ReverseOK, ClearingOK, EmittedIsMapped
<1>6. AwaitedOK' /\ AnswersReachFlow'
  BY <1>1 DEF AwaitedOK, AnswersReachFlow
<1> QED
  BY <1>3, <1>4, <1>5, <1>6

\* The forward entry is made: no reverse entry points to the flow yet.
LEMMA InsertForwardStep == ASSUME IInv, InsertForward PROVE IInv'
<1> USE DEF IInv
<1>1. /\ UNCHANGED <<rev, heard, awaited>> /\ send.pc = "insert"
      /\ send.flow \in Flows /\ send.port \in Ports
      /\ fwd' = [fwd EXCEPT ![send.flow] = send.port]
      /\ send' = [send EXCEPT !.pc = "insert reverse"]
  BY DEF InsertForward, Goto, SendOK
<1>2. send'.pc = "insert reverse" /\ send'.port = send.port /\ send'.flow = send.flow
  BY <1>1 DEF TypeOK
<1>3. fwd'[send.flow] = send.port /\ \A f \in Flows : f # send.flow => fwd'[f] = fwd[f]
  BY <1>1 DEF TypeOK
<1>4. TypeOK'
  BY <1>1 DEF TypeOK
<1>5. SendOK'
  BY <1>1, <1>2, <1>3 DEF SendOK
<1>6. ForwardOK'
  BY <1>1, <1>2, <1>3 DEF ForwardOK
<1>7. ReverseOK'
  <2> SUFFICES ASSUME NEW k \in Keys, rev[k] # None
               PROVE  rev[k][1] = k[1] /\ fwd'[rev[k]] = k[2]
    BY <1>1, <1>2 DEF ReverseOK
  <2>1. rev[k] \in Flows /\ rev[k][1] = k[1] /\ fwd[rev[k]] = k[2]
    BY <1>1 DEF TypeOK, ReverseOK
  <2>2. k[2] # None /\ fwd[send.flow] = None
    BY <1>1, KeyParts, ClientNATConstants DEF SendOK
  <2> QED
    BY <1>3, <2>1, <2>2
<1>8. ClearingOK' /\ EmittedIsMapped' /\ AwaitedOK' /\ AnswersReachFlow'
  BY <1>1, <1>2 DEF ClearingOK, EmittedIsMapped, AwaitedOK, AnswersReachFlow
<1> QED
  BY <1>4, <1>5, <1>6, <1>7, <1>8

\* The reverse entry is made, at a key that had none.
LEMMA InsertReverseStep == ASSUME IInv, InsertReverse PROVE IInv'
<1> USE DEF IInv
<1> DEFINE key == <<send.flow[1], send.port>>
<1>1. /\ UNCHANGED <<fwd, heard, awaited>> /\ send.pc = "insert reverse"
      /\ send.flow \in Flows /\ send.port \in Ports
      /\ rev' = [rev EXCEPT ![key] = send.flow]
      /\ rev[key] = None /\ fwd[send.flow] = send.port
  BY DEF InsertReverse, SendOK
<1>2. /\ send' = [send EXCEPT !.pc = send'.pc]
      /\ send'.pc = "emit" \/ (send'.pc = "flush" /\ send.flow[1] # ICMP)
      /\ send'.port = send.port /\ send'.flow = send.flow
  BY DEF InsertReverse, Goto, TypeOK
<1>3. key \in Keys /\ key[1] = send.flow[1] /\ key[2] = send.port
  BY <1>1, KeyOf
<1>4. rev'[key] = send.flow /\ \A k \in Keys : k # key => rev'[k] = rev[k]
  BY <1>1, <1>3 DEF TypeOK
<1> HIDE DEF key
<1>5. TypeOK'
  BY <1>1, <1>2, <1>3 DEF TypeOK
<1>6. SendOK'
  BY <1>1, <1>2 DEF SendOK
<1>7. ForwardOK'
  <2> SUFFICES ASSUME NEW f \in Flows, fwd[f] # None
               PROVE  rev'[<<f[1], fwd[f]>>] = f
    BY <1>1 DEF ForwardOK
  <2>1. CASE f = send.flow
    BY <1>1, <1>4, <2>1 DEF key
  <2>2. CASE f # send.flow
    <3>1. rev[<<f[1], fwd[f]>>] = f
      BY <1>1, <2>2 DEF ForwardOK
    <3>2. <<f[1], fwd[f]>> \in Keys
      BY KeyOf DEF TypeOK
    <3>3. <<f[1], fwd[f]>> # key
      BY <1>1, <3>1, ClientNATConstants
    <3> QED
      BY <1>4, <3>1, <3>2, <3>3
  <2> QED
    BY <2>1, <2>2
<1>8. ReverseOK'
  <2> SUFFICES ASSUME NEW k \in Keys, rev'[k] # None
               PROVE  rev'[k][1] = k[1] /\ fwd[rev'[k]] = k[2]
    BY <1>1 DEF ReverseOK
  <2>1. CASE k = key
    BY <1>1, <1>3, <1>4, <2>1
  <2>2. CASE k # key
    BY <1>1, <1>4, <2>2 DEF ReverseOK
  <2> QED
    BY <2>1, <2>2
<1>9. ClearingOK' /\ AnswersReachFlow'
  BY <1>1, <1>2 DEF ClearingOK, AnswersReachFlow
<1>10. EmittedIsMapped'
  BY <1>2, <1>4 DEF EmittedIsMapped, key
<1>11. AwaitedOK'
  <2> SUFFICES ASSUME NEW a \in awaited PROVE rev'[a[1]] = a[2]
    BY <1>1 DEF AwaitedOK
  <2>1. a[1] \in Keys /\ a[2] \in Flows /\ rev[a[1]] = a[2]
    BY DEF TypeOK, AwaitedOK
  <2>2. a[1] # key
    BY <1>1, <2>1, ClientNATConstants
  <2> QED
    BY <1>4, <2>1, <2>2
<1> QED
  BY <1>5, <1>6, <1>7, <1>8, <1>9, <1>10, <1>11

\* The flush of the port table: the forward map first; the ICMP entries stay in both.
LEMMA FlushForwardStep == ASSUME IInv, FlushForward PROVE IInv'
<1> USE DEF IInv
<1>1. /\ UNCHANGED <<rev, heard, awaited>> /\ send.pc = "flush"
      /\ send.flow \in Flows /\ send.port \in Ports /\ send.flow[1] # ICMP
      /\ send' = [send EXCEPT !.pc = "flush reverse"]
      /\ fwd' = ForwardCleared(TCP)
  BY DEF FlushForward, Goto, SendOK
<1>2. send'.pc = "flush reverse" /\ send'.port = send.port /\ send'.flow = send.flow
  BY <1>1 DEF TypeOK
<1>3. \A f \in Flows : fwd'[f] = IF f[1] = ICMP THEN fwd[f] ELSE None
  BY <1>1, PortTable DEF ForwardCleared
<1>4. TypeOK'
  <2>1. fwd' = [f \in Flows |-> fwd'[f]]
    BY <1>1 DEF ForwardCleared
  <2> QED
    BY <1>1, <1>3, <2>1 DEF TypeOK
<1>5. SendOK' /\ ClearingOK'
  BY <1>1, <1>2, <1>3 DEF SendOK, ClearingOK
<1>6. ForwardOK'
  BY <1>1, <1>3 DEF ForwardOK
<1>7. ReverseOK'
  <2> SUFFICES ASSUME NEW k \in Keys, rev[k] # None
               PROVE  rev[k][1] = k[1] /\ (fwd'[rev[k]] = k[2] \/ k[1] # ICMP)
    BY <1>1, <1>2 DEF ReverseOK
  <2>1. rev[k] \in Flows /\ rev[k][1] = k[1] /\ fwd[rev[k]] = k[2]
    BY <1>1 DEF TypeOK, ReverseOK
  <2> QED
    BY <1>3, <2>1
<1>8. EmittedIsMapped' /\ AwaitedOK' /\ AnswersReachFlow'
  BY <1>1, <1>2 DEF EmittedIsMapped, AwaitedOK, AnswersReachFlow
<1> QED
  BY <1>4, <1>5, <1>6, <1>7, <1>8

\* What clearing the reverse entries of a table leaves of the reverse map and of the
\* answers that can still be told.
LEMMA ClearReverseFacts ==
    ASSUME TypeOK, NEW proto \in Protocols, ClearReverse(proto)
    PROVE  /\ rev' \in [Keys -> Flows \cup {None}]
           /\ \A k \in Keys : rev'[k] = IF SameTable(k[1], proto) THEN None ELSE rev[k]
           /\ awaited' \subseteq awaited
           /\ AwaitedOK => AwaitedOK'
<1>1. \A k \in Keys : rev'[k] = IF SameTable(k[1], proto) THEN None ELSE rev[k]
  BY DEF ClearReverse
<1>2. rev' = [k \in Keys |-> rev'[k]]
  BY DEF ClearReverse
<1>3. rev' \in [Keys -> Flows \cup {None}]
  BY <1>1, <1>2 DEF TypeOK
<1>4. awaited' \subseteq awaited
  BY DEF ClearReverse
<1>5. ASSUME AwaitedOK, NEW a \in awaited' PROVE rev'[a[1]] = a[2]
  BY <1>1, <1>5 DEF ClearReverse, TypeOK, AwaitedOK
<1> QED
  BY <1>1, <1>3, <1>4, <1>5 DEF AwaitedOK

\* The flush of the port table: then the reverse map; no port flow has an entry left.
LEMMA FlushReverseStep == ASSUME IInv, FlushReverse PROVE IInv'
<1> USE DEF IInv
<1>1. /\ UNCHANGED <<fwd, heard>> /\ send.pc = "flush reverse"
      /\ send.flow \in Flows /\ send.port \in Ports /\ send.flow[1] # ICMP
      /\ send' = [send EXCEPT !.pc = "emit"]
      /\ \A f \in Flows : f[1] # ICMP => fwd[f] = None
  BY DEF FlushReverse, Goto, SendOK, ClearingOK
<1>2. send'.pc = "emit" /\ send'.port = send.port /\ send'.flow = send.flow
  BY <1>1 DEF TypeOK
<1>3. /\ rev' \in [Keys -> Flows \cup {None}]
      /\ \A k \in Keys : rev'[k] = IF k[1] = ICMP THEN rev[k] ELSE None
      /\ awaited' \subseteq awaited /\ AwaitedOK'
  <2>1. TCP \in Protocols /\ ClearReverse(TCP)
    BY DEF FlushReverse, Protocols
  <2> QED
    BY <2>1, ClearReverseFacts, PortTable
<1>4. TypeOK'
  BY <1>1, <1>3 DEF TypeOK
<1>5. SendOK' /\ ClearingOK' /\ AnswersReachFlow'
  BY <1>1, <1>2 DEF SendOK, ClearingOK, AnswersReachFlow
<1>6. ForwardOK'
  <2> SUFFICES ASSUME NEW f \in Flows, fwd[f] # None
               PROVE  rev'[<<f[1], fwd[f]>>] = f
    BY <1>1 DEF ForwardOK
  <2>1. f[1] = ICMP /\ <<f[1], fwd[f]>> \in Keys
    BY <1>1, KeyOf DEF TypeOK
  <2>2. rev[<<f[1], fwd[f]>>] = f
    BY <1>1 DEF ForwardOK
  <2> QED
    BY <1>3, <2>1, <2>2
<1>7. ReverseOK'
  BY <1>1, <1>3 DEF ReverseOK
<1>8. EmittedIsMapped'
  <2>1. \A f \in Flows : SameTable(f[1], TCP) => fwd'[f] = None
    BY <1>1, PortTable
  <2>2. Entries(TCP)' = {}
    BY <2>1 DEF Entries
  <2> QED
    BY <1>1, <1>2, <2>2 DEF EmittedIsMapped
<1> QED
  BY <1>3, <1>4, <1>5, <1>6, <1>7, <1>8

\* The clearing of the ICMP table: the reverse map first.
LEMMA ClearICMPReverseStep == ASSUME IInv, ClearICMPReverse PROVE IInv'
<1> USE DEF IInv
<1>1. /\ UNCHANGED <<fwd, heard>> /\ send.pc = "clear icmp"
      /\ send.flow \in Flows /\ send.flow[1] = ICMP /\ fwd[send.flow] = None
      /\ send' = [send EXCEPT !.pc = "clear icmp forward"]
  BY DEF ClearICMPReverse, Goto, SendOK
<1>2. send'.pc = "clear icmp forward" /\ send'.port = send.port /\ send'.flow = send.flow
  BY <1>1 DEF TypeOK
<1>3. /\ rev' \in [Keys -> Flows \cup {None}]
      /\ \A k \in Keys : rev'[k] = IF k[1] = ICMP THEN None ELSE rev[k]
      /\ awaited' \subseteq awaited /\ AwaitedOK'
  <2>1. ICMP \in Protocols /\ ClearReverse(ICMP)
    BY DEF ClearICMPReverse, Protocols
  <2> QED
    BY <2>1, ClearReverseFacts DEF SameTable
<1>4. TypeOK'
  BY <1>1, <1>3 DEF TypeOK
<1>5. SendOK' /\ ClearingOK' /\ EmittedIsMapped' /\ AnswersReachFlow'
  BY <1>1, <1>2, <1>3 DEF SendOK, ClearingOK, EmittedIsMapped, AnswersReachFlow
<1>6. ForwardOK'
  <2> SUFFICES ASSUME NEW f \in Flows, fwd[f] # None, f[1] # ICMP
               PROVE  rev'[<<f[1], fwd[f]>>] = f
    BY <1>1, <1>2 DEF ForwardOK
  <2>1. <<f[1], fwd[f]>> \in Keys
    BY KeyOf DEF TypeOK
  <2>2. rev[<<f[1], fwd[f]>>] = f
    BY <1>1 DEF ForwardOK
  <2> QED
    BY <1>3, <2>1, <2>2
<1>7. ReverseOK'
  BY <1>1, <1>3 DEF ReverseOK
<1> QED
  BY <1>3, <1>4, <1>5, <1>6, <1>7

\* The clearing of the ICMP table: then the forward map; no reverse entry is left that
\* would point to a cleared flow.
LEMMA ClearICMPForwardStep == ASSUME IInv, ClearICMPForward PROVE IInv'
<1> USE DEF IInv
<1>1. /\ UNCHANGED <<rev, heard, awaited>> /\ send.pc = "clear icmp forward"
      /\ send.flow \in Flows /\ send.flow[1] = ICMP
      /\ send' = [send EXCEPT !.pc = "allocate"]
      /\ fwd' = ForwardCleared(ICMP)
      /\ \A k \in Keys : k[1] = ICMP => rev[k] = None
  BY DEF ClearICMPForward, Goto, SendOK, ClearingOK
<1>2. send'.pc = "allocate" /\ send'.port = send.port /\ send'.flow = send.flow
  BY <1>1 DEF TypeOK
<1>3. \A f \in Flows : fwd'[f] = IF f[1] = ICMP THEN None ELSE fwd[f]
  BY <1>1 DEF ForwardCleared, SameTable
<1>4. TypeOK'
  <2>1. fwd' = [f \in Flows |-> fwd'[f]]
    BY <1>1 DEF ForwardCleared
  <2> QED
    BY <1>1, <1>3, <2>1 DEF TypeOK
<1>5. SendOK' /\ ClearingOK' /\ EmittedIsMapped' /\ AwaitedOK' /\ AnswersReachFlow'
  BY <1>1, <1>2, <1>3 DEF SendOK, ClearingOK, EmittedIsMapped, AwaitedOK, AnswersReachFlow
<1>6. ForwardOK'
  BY <1>1, <1>3 DEF ForwardOK
<1>7. ReverseOK'
  <2> SUFFICES ASSUME NEW k \in Keys, rev[k] # None
               PROVE  rev[k][1] = k[1] /\ fwd'[rev[k]] = k[2]
    BY <1>1 DEF ReverseOK
  <2>1. rev[k] \in Flows /\ rev[k][1] = k[1] /\ fwd[rev[k]] = k[2] /\ k[1] # ICMP
    BY <1>1 DEF TypeOK, ReverseOK
  <2> QED
    BY <1>3, <2>1
<1> QED
  BY <1>4, <1>5, <1>6, <1>7

\* The packet leaves: the answer it may bring finds the mapping that stands now.
LEMMA EmitStep == ASSUME IInv, Emit PROVE IInv'
<1> USE DEF IInv
<1> DEFINE key == <<send.flow[1], send.port>>
<1>1. /\ UNCHANGED <<fwd, rev, heard>> /\ send.pc = "emit"
      /\ send.flow \in Flows /\ send.port \in Ports
      /\ send' = SendIdle
      /\ awaited' = IF rev[key] = None THEN awaited ELSE awaited \cup {<<key, send.flow>>}
  BY DEF Emit, SendOK
<1>2. send'.pc = "idle"
  BY <1>1 DEF SendIdle
<1>3. key \in Keys
  BY <1>1, KeyOf
<1>4. TypeOK'
  <2>1. awaited' \subseteq Keys \X Flows
    <3>1. <<key, send.flow>> \in Keys \X Flows
      BY <1>1, <1>3
    <3>2. awaited \subseteq Keys \X Flows /\ awaited' \subseteq awaited \cup {<<key, send.flow>>}
      BY <1>1 DEF TypeOK
    <3> HIDE DEF key
    <3> QED
      BY <3>1, <3>2
  <2>2. send' \in [pc : {"idle", "allocate", "insert", "insert reverse", "flush", "flush reverse",
                        "clear icmp", "clear icmp forward", "emit"},
                  flow : Flows \cup {None}, port : Ports \cup {None}]
    BY <1>1 DEF SendIdle
  <2> QED
    BY <1>1, <2>1, <2>2 DEF TypeOK
<1>5. SendOK' /\ ClearingOK' /\ EmittedIsMapped' /\ AnswersReachFlow'
  BY <1>1, <1>2 DEF SendOK, ClearingOK, EmittedIsMapped, AnswersReachFlow
<1>6. ForwardOK' /\ ReverseOK'
  BY <1>1 DEF ForwardOK, ReverseOK
<1>7. rev[key] # None => rev[key] = send.flow
  <2> SUFFICES ASSUME rev[key] # None, send.flow[1] # ICMP, Entries(TCP) = {}
               PROVE  FALSE
    BY <1>1 DEF EmittedIsMapped
  <2>1. rev[key] \in Flows /\ rev[key][1] = key[1] /\ fwd[rev[key]] = key[2]
    BY <1>1, <1>3 DEF TypeOK, ReverseOK
  <2>2. fwd[rev[key]] # None /\ SameTable(rev[key][1], TCP)
    BY <1>1, <2>1, ClientNATConstants, PortTable
  <2> QED
    BY <2>1, <2>2 DEF Entries
<1>8. AwaitedOK'
  BY <1>1, <1>7 DEF AwaitedOK
<1> QED
  BY <1>4, <1>5, <1>6, <1>8

\* An answer is looked up.
LEMMA AnswerStep == ASSUME IInv, NEW a, Answer(a) PROVE IInv'
<1>1. heard' = "its flow" /\ UNCHANGED <<fwd, rev, send, awaited>>
  BY DEF Answer, IInv, AwaitedOK
<1> QED
  BY <1>1 DEF IInv, TypeOK, SendOK, ForwardOK, ReverseOK, ClearingOK, EmittedIsMapped, Entries,
              AwaitedOK, AnswersReachFlow

-----------------------------------------------------------------------------

\* The inductive invariant of the NAT maps, from every step of the send and the receive
\* thread (translate_out, translate_in).
THEOREM NATInvariant == Spec => []IInv
<1>1. Init => IInv
  <2> SUFFICES ASSUME Init PROVE IInv
    OBVIOUS
  <2>1. send.pc = "idle" /\ send \in [pc : {"idle"}, flow : {None}, port : {None}]
    BY DEF Init, SendIdle
  <2>2. TypeOK
    BY <2>1 DEF Init, TypeOK
  <2> QED
    BY <2>1, <2>2 DEF Init, IInv, SendOK, ForwardOK, ReverseOK, ClearingOK, EmittedIsMapped,
                      AwaitedOK, AnswersReachFlow
<1>2. IInv /\ [Next]_vars => IInv'
  <2> SUFFICES ASSUME IInv, [Next]_vars PROVE IInv'
    OBVIOUS
  <2>1. CASE UNCHANGED vars
    BY <2>1 DEF vars, IInv, TypeOK, SendOK, ForwardOK, ReverseOK, ClearingOK, EmittedIsMapped,
                Entries, AwaitedOK, AnswersReachFlow
  <2> QED
    BY <2>1, LookupStep, AllocateStep, InsertForwardStep, InsertReverseStep, FlushForwardStep,
       FlushReverseStep, ClearICMPReverseStep, ClearICMPForwardStep, EmitStep, AnswerStep DEF Next
<1> QED
  BY <1>1, <1>2, PTL DEF Spec

\* Every variable keeps its type; a port in either map is a port.
THEOREM NATTypes == Spec => []TypeOK
<1>1. IInv => TypeOK
  BY DEF IInv
<1> QED
  BY <1>1, NATInvariant, PTL

\* The two maps are each other's inverse whenever the send thread is between packets, about
\* to choose a port, or about to emit.
THEOREM MapsStayInverse == Spec => []MapsAreInverse
<1>1. IInv => MapsAreInverse
  BY DEF IInv, ForwardOK, ReverseOK, MapsAreInverse
<1> QED
  BY <1>1, NATInvariant, PTL

\* A packet leaves with a mapping, unless its own entry made the port table overflow.
THEOREM PacketsLeaveMapped == Spec => []EmittedIsMapped
<1>1. IInv => EmittedIsMapped
  BY DEF IInv
<1> QED
  BY <1>1, NATInvariant, PTL

\* An answer to a mapping that was not cleared reaches its own flow.
THEOREM AnswersFindFlow == Spec => []AnswersReachFlow
<1>1. IInv => AnswersReachFlow
  BY DEF IInv
<1> QED
  BY <1>1, NATInvariant, PTL

-----------------------------------------------------------------------------
\* The sizes of the tables.

PortEntries == Cardinality(Entries(TCP))
EchoEntries == Cardinality(Entries(ICMP))

\* The port table crosses its limit by one entry, which the flush of the same packet
\* takes out; the ICMP table has room when an identifier is chosen.
SizesOK ==
    /\ send.pc \notin {"insert reverse", "flush"} => PortEntries <= MaxEntries
    /\ PortEntries <= MaxEntries + 1
    /\ send.pc = "insert reverse" /\ send.flow[1] = ICMP => PortEntries <= MaxEntries
    /\ EchoEntries <= MaxICMP
    /\ send.pc \in {"allocate", "insert"} /\ send.flow[1] = ICMP => EchoEntries < MaxICMP

\* No port flow has a port that is ignored or zero, nor is one about to be entered.
PortsOK ==
    /\ \A f \in Flows : f[1] # ICMP => fwd[f] \notin Ignored \cup {0}
    /\ send.pc = "insert" /\ send.flow[1] # ICMP => send.port \notin Ignored \cup {0}

\* There are finitely many flows.
LEMMA FlowsFinite == IsFiniteSet(Flows)
<1>1. IsFiniteSet(Protocols)
  <2>1. IsFiniteSet({} \cup {ICMP})
    BY FS_EmptySet, FS_AddElement
  <2>2. IsFiniteSet(({} \cup {ICMP}) \cup {TCP})
    BY <2>1, FS_AddElement
  <2>3. IsFiniteSet((({} \cup {ICMP}) \cup {TCP}) \cup {UDP})
    BY <2>2, FS_AddElement
  <2>4. Protocols = (({} \cup {ICMP}) \cup {TCP}) \cup {UDP}
    BY DEF Protocols
  <2> QED
    BY <2>3, <2>4
<1>2. IsFiniteSet(Words)
  BY FS_Interval, WordConstant DEF Words
<1>3. IsFiniteSet((Protocols \X Words) \X Words)
  BY <1>1, <1>2, FS_Product
<1> DEFINE paired == [f \in Flows |-> <<<<f[1], f[2]>>, f[3]>>]
<1>4. paired \in Injection(Flows, (Protocols \X Words) \X Words)
  BY ClientNATConstants DEF Injection, IsInjective
<1> QED
  BY <1>3, <1>4, FS_Injection

\* The entries of a table are finite in number.
LEMMA EntriesFinite ==
    \A proto : IsFiniteSet(Entries(proto)) /\ Cardinality(Entries(proto)) \in Nat
<1> SUFFICES ASSUME NEW proto
             PROVE  IsFiniteSet(Entries(proto)) /\ Cardinality(Entries(proto)) \in Nat
  OBVIOUS
<1>1. Entries(proto) \subseteq Flows
  BY DEF Entries
<1> QED
  BY <1>1, FlowsFinite, FS_Subset, FS_CardinalityType

\* A new entry makes its own table larger by one, and leaves the other as it is.
LEMMA EntryAdded ==
    ASSUME TypeOK, NEW f \in Flows, NEW p \in Ports, fwd' = [fwd EXCEPT ![f] = p], NEW proto
    PROVE  /\ Cardinality(Entries(proto)') <= Cardinality(Entries(proto)) + 1
           /\ ~SameTable(f[1], proto) => Entries(proto)' = Entries(proto)
<1>1. \A g \in Flows : fwd'[g] = IF g = f THEN p ELSE fwd[g]
  BY DEF TypeOK
<1>2. ~SameTable(f[1], proto) => Entries(proto)' = Entries(proto)
  BY <1>1 DEF Entries
<1>3. Entries(proto)' \subseteq Entries(proto) \cup {f}
  BY <1>1 DEF Entries
<1> DEFINE now == Entries(proto)
           next == Entries(proto)'
<1>4. IsFiniteSet(now) /\ Cardinality(now) \in Nat
  BY EntriesFinite
<1>5. next \subseteq now \cup {f}
  BY <1>3
<1> HIDE DEF now, next
<1>6. /\ IsFiniteSet(now \cup {f}) /\ Cardinality(now \cup {f}) \in Nat
      /\ Cardinality(now \cup {f}) <= Cardinality(now) + 1
  <2>1. IsFiniteSet(now \cup {f})
    BY <1>4, FS_AddElement
  <2>2. Cardinality(now \cup {f}) \in Nat
    BY <2>1, FS_CardinalityType
  <2>3. Cardinality(now \cup {f}) = IF f \in now THEN Cardinality(now) ELSE Cardinality(now) + 1
    BY <1>4, FS_AddElement
  <2> QED
    BY <1>4, <2>1, <2>2, <2>3
<1>7. IsFiniteSet(next) /\ Cardinality(next) <= Cardinality(now \cup {f}) /\ Cardinality(next) \in Nat
  BY <1>5, <1>6, FS_Subset, FS_CardinalityType
<1>8. Cardinality(next) <= Cardinality(now) + 1
  BY <1>4, <1>6, <1>7
<1> QED
  BY <1>2, <1>8 DEF now, next

\* A cleared table is empty, and the other one is as it was.
LEMMA TableCleared ==
    ASSUME NEW proto, NEW other, fwd' = ForwardCleared(proto)
    PROVE  /\ SameTable(proto, other) => Entries(other)' = {}
           /\ ~SameTable(proto, other) => Entries(other)' = Entries(other)
<1>1. \A f \in Flows : fwd'[f] = IF SameTable(f[1], proto) THEN None ELSE fwd[f]
  BY DEF ForwardCleared
<1>2. ASSUME SameTable(proto, other) PROVE Entries(other)' = {}
  BY <1>1, <1>2 DEF Entries, SameTable
<1>3. ASSUME ~SameTable(proto, other) PROVE Entries(other)' = Entries(other)
  BY <1>1, <1>3 DEF Entries, SameTable
<1> QED
  BY <1>2, <1>3

\* The sizes are numbers, before and after a step.
LEMMA SizesAreNumbers ==
    /\ PortEntries \in Nat /\ EchoEntries \in Nat
    /\ PortEntries' \in Nat /\ EchoEntries' \in Nat
<1>1. Entries(TCP)' \subseteq Flows /\ Entries(ICMP)' \subseteq Flows
  BY DEF Entries
<1>2. IsFiniteSet(Entries(TCP)') /\ IsFiniteSet(Entries(ICMP)')
  BY <1>1, FlowsFinite, FS_Subset
<1>3. Cardinality(Entries(TCP)') \in Nat /\ Cardinality(Entries(ICMP)') \in Nat
  BY <1>2, FS_CardinalityType
<1> QED
  BY <1>3, EntriesFinite DEF PortEntries, EchoEntries

\* A step that leaves the forward map leaves the sizes.
LEMMA SizesUnchanged ==
    ASSUME fwd' = fwd PROVE PortEntries' = PortEntries /\ EchoEntries' = EchoEntries
BY DEF PortEntries, EchoEntries, Entries

\* Every step keeps the sizes.
LEMMA SizesStep == ASSUME IInv, SizesOK, Next PROVE SizesOK'
<1>1. MaxEntries \in Nat /\ MaxICMP \in Nat /\ MaxICMP > 0
  BY ClientNATConstants
<1>2. ASSUME NEW f \in Flows, Lookup(f) PROVE SizesOK'
  <2>1. /\ fwd' = fwd /\ send.pc = "idle" /\ send'.flow = f
        /\ send'.pc \in {"emit", "clear icmp", "allocate"}
        /\ send'.pc = "allocate" /\ f[1] = ICMP => ~(EchoEntries >= MaxICMP)
    BY <1>2 DEF Lookup, EchoEntries
  <2>2. PortEntries' = PortEntries /\ EchoEntries' = EchoEntries
    BY <2>1, SizesUnchanged
  <2> QED
    <3>1. PortEntries <= MaxEntries /\ PortEntries <= MaxEntries + 1 /\ EchoEntries <= MaxICMP
      BY <2>1 DEF SizesOK
    <3>2. send'.pc = "allocate" /\ send'.flow[1] = ICMP => EchoEntries < MaxICMP
      BY <1>1, <2>1, SizesAreNumbers
    <3> QED
      BY <2>1, <2>2, <3>1, <3>2 DEF SizesOK
<1>3. ASSUME NEW p \in Ports, Allocate(p) PROVE SizesOK'
  <2>1. fwd' = fwd /\ send.pc = "allocate" /\ send'.pc = "insert" /\ send'.flow = send.flow
    BY <1>3 DEF Allocate, IInv, TypeOK
  <2>2. PortEntries' = PortEntries /\ EchoEntries' = EchoEntries
    BY <2>1, SizesUnchanged
  <2> QED
    BY <2>1, <2>2 DEF SizesOK
<1>4. CASE InsertForward
  <2>1. /\ send.pc = "insert" /\ send'.pc = "insert reverse" /\ send'.flow = send.flow
        /\ send.flow \in Flows /\ send.port \in Ports
        /\ fwd' = [fwd EXCEPT ![send.flow] = send.port]
    BY <1>4 DEF InsertForward, Goto, IInv, TypeOK, SendOK
  <2>2. /\ PortEntries' <= PortEntries + 1 /\ EchoEntries' <= EchoEntries + 1
        /\ ~SameTable(send.flow[1], TCP) => PortEntries' = PortEntries
        /\ ~SameTable(send.flow[1], ICMP) => EchoEntries' = EchoEntries
    BY <2>1, EntryAdded DEF IInv, PortEntries, EchoEntries
  <2>3. send.flow[1] = ICMP => PortEntries' = PortEntries
    BY <2>2, PortTable
  <2>4. send.flow[1] # ICMP => EchoEntries' = EchoEntries
    BY <2>2 DEF SameTable
  <2>5. PortEntries <= MaxEntries /\ EchoEntries <= MaxICMP
        /\ (send.flow[1] = ICMP => EchoEntries < MaxICMP)
    BY <2>1 DEF SizesOK
  <2>6. PortEntries' <= MaxEntries + 1 /\ EchoEntries' <= MaxICMP
        /\ (send.flow[1] = ICMP => PortEntries' <= MaxEntries)
    BY <1>1, <2>2, <2>3, <2>4, <2>5, SizesAreNumbers
  <2> QED
    BY <2>1, <2>6 DEF SizesOK
<1>5. CASE InsertReverse
  <2>1. /\ fwd' = fwd /\ send.pc = "insert reverse" /\ send'.flow = send.flow
        /\ \/ send'.pc = "flush"
           \/ send'.pc = "emit" /\ (send.flow[1] = ICMP \/ ~(PortEntries > MaxEntries))
    BY <1>5 DEF InsertReverse, Goto, IInv, TypeOK, PortEntries
  <2>2. PortEntries' = PortEntries /\ EchoEntries' = EchoEntries
    BY <2>1, SizesUnchanged
  <2>3. send'.pc = "emit" => PortEntries <= MaxEntries
    <3>1. send.flow[1] = ICMP => PortEntries <= MaxEntries
      BY <2>1 DEF SizesOK
    <3>2. ~(PortEntries > MaxEntries) => PortEntries <= MaxEntries
      BY <1>1, SizesAreNumbers
    <3> QED
      BY <2>1, <3>1, <3>2
  <2> QED
    BY <2>1, <2>2, <2>3 DEF SizesOK
<1>6. CASE FlushForward
  <2>1. fwd' = ForwardCleared(TCP) /\ send'.pc = "flush reverse"
    BY <1>6 DEF FlushForward, Goto, IInv, TypeOK
  <2>2. SameTable(TCP, TCP) /\ ~SameTable(TCP, ICMP)
    BY PortTable DEF SameTable
  <2>3. PortEntries' = 0 /\ EchoEntries' = EchoEntries
    BY <2>1, <2>2, TableCleared, FS_EmptySet DEF PortEntries, EchoEntries
  <2>4. PortEntries' <= MaxEntries /\ PortEntries' <= MaxEntries + 1
    BY <1>1, <2>3
  <2> QED
    BY <2>1, <2>3, <2>4 DEF SizesOK
<1>7. CASE FlushReverse \/ ClearICMPReverse \/ Emit
  <2>1. fwd' = fwd /\ send.pc \in {"flush reverse", "clear icmp", "emit"}
    BY <1>7 DEF FlushReverse, ClearICMPReverse, Emit
  <2>2. send'.pc \in {"emit", "clear icmp forward", "idle"}
    <3>1. CASE Emit
      BY <3>1 DEF Emit, SendIdle
    <3>2. CASE FlushReverse \/ ClearICMPReverse
      BY <3>2 DEF FlushReverse, ClearICMPReverse, Goto, IInv, TypeOK
    <3> QED
      BY <1>7, <3>1, <3>2
  <2>3. PortEntries' = PortEntries /\ EchoEntries' = EchoEntries
    BY <2>1, SizesUnchanged
  <2> QED
    BY <2>1, <2>2, <2>3 DEF SizesOK
<1>8. CASE ClearICMPForward
  <2>1. fwd' = ForwardCleared(ICMP) /\ send.pc = "clear icmp forward" /\ send'.pc = "allocate"
    BY <1>8 DEF ClearICMPForward, Goto, IInv, TypeOK
  <2>2. SameTable(ICMP, ICMP) /\ ~SameTable(ICMP, TCP)
    BY PortTable DEF SameTable
  <2>3. EchoEntries' = 0 /\ PortEntries' = PortEntries
    BY <2>1, <2>2, TableCleared, FS_EmptySet DEF PortEntries, EchoEntries
  <2>4. EchoEntries' <= MaxICMP /\ EchoEntries' < MaxICMP
    BY <1>1, <2>3
  <2> QED
    BY <2>1, <2>3, <2>4 DEF SizesOK
<1>9. ASSUME NEW a, Answer(a) PROVE SizesOK'
  <2>1. fwd' = fwd /\ send' = send
    BY <1>9 DEF Answer
  <2>2. PortEntries' = PortEntries /\ EchoEntries' = EchoEntries
    BY <2>1, SizesUnchanged
  <2> QED
    BY <2>1, <2>2 DEF SizesOK
<1> QED
  BY <1>2, <1>3, <1>4, <1>5, <1>6, <1>7, <1>8, <1>9 DEF Next

\* None is no port that anybody could be given or refused.
LEMMA NoneIsNoPort == None \notin Ignored \cup {0}
<1>1. 0 \in Words
  BY WordConstant DEF Words
<1> QED
  BY <1>1, ClientNATConstants

\* Every step keeps the ports fit to be used.
LEMMA PortsStep == ASSUME IInv, PortsOK, Next PROVE PortsOK'
<1>1. None \notin Ignored \cup {0}
  BY NoneIsNoPort
<1>2. ASSUME fwd' = fwd, send'.pc # "insert" PROVE PortsOK'
  BY <1>2 DEF PortsOK
<1>3. ASSUME NEW f \in Flows, Lookup(f) PROVE PortsOK'
  <2>1. fwd' = fwd /\ send'.pc \in {"emit", "clear icmp", "allocate"}
    BY <1>3 DEF Lookup
  <2> QED
    BY <1>2, <2>1
<1>4. ASSUME NEW p \in Ports, Allocate(p) PROVE PortsOK'
  BY <1>4 DEF Allocate, Free, PortsOK, IInv, TypeOK
<1>5. CASE InsertForward
  <2>1. /\ send.pc = "insert" /\ send'.pc = "insert reverse"
        /\ \A f \in Flows : fwd'[f] = IF f = send.flow THEN send.port ELSE fwd[f]
    BY <1>5 DEF InsertForward, Goto, IInv, TypeOK
  <2> QED
    BY <2>1 DEF PortsOK
<1>6. CASE InsertReverse \/ FlushReverse \/ ClearICMPReverse \/ Emit
  <2>1. fwd' = fwd
    BY <1>6 DEF InsertReverse, FlushReverse, ClearICMPReverse, Emit
  <2>2. CASE Emit
    BY <2>1, <2>2, <1>2 DEF Emit, SendIdle
  <2>3. CASE InsertReverse \/ FlushReverse \/ ClearICMPReverse
    <3>1. send'.pc # "insert"
      BY <2>3 DEF InsertReverse, FlushReverse, ClearICMPReverse, Goto, IInv, TypeOK
    <3> QED
      BY <1>2, <2>1, <3>1
  <2> QED
    BY <1>6, <2>2, <2>3
<1>7. CASE FlushForward \/ ClearICMPForward
  <2>1. /\ send'.pc # "insert"
        /\ \A f \in Flows : fwd'[f] \in {None, fwd[f]}
    BY <1>7, ZenonT(60) DEF FlushForward, ClearICMPForward, ForwardCleared, Goto, IInv, TypeOK
  <2> QED
    BY <1>1, <2>1 DEF PortsOK
<1>8. ASSUME NEW a, Answer(a) PROVE PortsOK'
  BY <1>8 DEF Answer, PortsOK
<1> QED
  BY <1>3, <1>4, <1>5, <1>6, <1>7, <1>8 DEF Next

\* The tables keep their limits between packets, and no flow is given a port that the
\* client's own socket uses (_maybe_flush, _clear_icmp, _allocate_port).
THEOREM TablesStayBounded == Spec => []TablesBounded
<1>1. Init => SizesOK /\ PortsOK
  <2> SUFFICES ASSUME Init PROVE SizesOK /\ PortsOK
    OBVIOUS
  <2>1. \A proto : Entries(proto) = {}
    BY DEF Init, Entries
  <2>2. send.pc = "idle"
    BY DEF Init, SendIdle
  <2>3. SizesOK
    <3>1. PortEntries = 0 /\ EchoEntries = 0
      BY <2>1, FS_EmptySet DEF PortEntries, EchoEntries
    <3>2. MaxEntries \in Nat /\ MaxICMP \in Nat
      BY ClientNATConstants
    <3> QED
      BY <2>2, <3>1, <3>2 DEF SizesOK
  <2>4. None \notin Ignored \cup {0}
    BY NoneIsNoPort
  <2>5. PortsOK
    BY <2>2, <2>4 DEF Init, PortsOK
  <2> QED
    BY <2>3, <2>5
<1>2. IInv /\ SizesOK /\ PortsOK /\ [Next]_vars => (SizesOK /\ PortsOK)'
  <2> SUFFICES ASSUME IInv, SizesOK, PortsOK, [Next]_vars PROVE (SizesOK /\ PortsOK)'
    OBVIOUS
  <2>1. CASE UNCHANGED vars
    BY <2>1, SizesUnchanged DEF vars, SizesOK, PortsOK
  <2> QED
    BY <2>1, SizesStep, PortsStep
<1>3. SizesOK /\ PortsOK => TablesBounded
  <2> SUFFICES ASSUME SizesOK, PortsOK PROVE TablesBounded
    OBVIOUS
  <2>1. \A f \in Flows : f \notin {ICMP} \X Words \X Words => f[1] # ICMP
    BY ClientNATConstants
  <2> QED
    BY <2>1 DEF SizesOK, PortsOK, PortEntries, EchoEntries, TablesBounded
<1> QED
  BY <1>1, <1>2, <1>3, NATInvariant, PTL DEF Spec

-----------------------------------------------------------------------------
\* The packets.

\* What translate_out makes of a packet: the peer is left alone.
LEMMA OutboundFacts ==
    ASSUME NEW p \in Packets, NEW port \in Words
    PROVE  LET out == Outbound(p, port)
           IN  /\ out \in Packets /\ Verifies(out)
               /\ out.proto = p.proto /\ out.src = Exit /\ out.sport = port
               /\ out.dst = p.dst /\ out.dport = p.dport
<1> DEFINE sourced == WithSource(p, Exit, port)
<1>1. CASE p.proto = ICMP
  <2> DEFINE moved == [p EXCEPT !.src = Exit]
  <2>1. moved \in Packets /\ moved.proto = ICMP /\ sourced = Refreshed(moved)
    BY <1>1, ClientNATConstants DEF Packets, WithSource
  <2>2. SameButSums(sourced, moved)
    BY <2>1, RefreshedICMP
  <2>3. sourced \in Packets /\ sourced.proto = ICMP
    BY <2>1, <2>2 DEF SameButSums
  <2> HIDE DEF sourced
  <2>4. SameButSums(WithIdentifier(sourced, port), [sourced EXCEPT !.sport = port])
          /\ Verifies(WithIdentifier(sourced, port))
    BY <2>3, IdentifierVerifies
  <2>5. Outbound(p, port) = WithIdentifier(sourced, port)
    BY <1>1 DEF Outbound, sourced
  <2>6. QED
    BY <1>1, <2>2, <2>3, <2>4, <2>5 DEF SameButSums, Packets
<1>2. CASE p.proto # ICMP
  <2> DEFINE moved == [p EXCEPT !.src = Exit, !.sport = port]
  <2>1. moved \in Packets /\ moved.proto # ICMP /\ sourced = Refreshed(moved)
    BY <1>2, ClientNATConstants DEF Packets, WithSource
  <2>2. SameButSums(sourced, moved) /\ Verifies(sourced)
    BY <2>1, RefreshedVerifies
  <2>3. Outbound(p, port) = sourced
    BY <1>2 DEF Outbound
  <2> HIDE DEF sourced
  <2>4. QED
    BY <1>2, <2>2, <2>3 DEF SameButSums, Packets
<1>3. QED
  BY <1>1, <1>2

\* What translate_in makes of an answer.
LEMMA InboundFacts ==
    ASSUME NEW p \in Packets, NEW f \in Flows
    PROVE  LET back == Inbound(p, f)
           IN  /\ Verifies(back) /\ back.dst = f[2]
               /\ (IF p.proto = ICMP THEN back.sport ELSE back.dport) = f[3]
<1> DEFINE aimed == WithDestination(p, f[2], f[3])
<1>0. f[2] \in Words /\ f[3] \in Words
  BY ClientNATConstants
<1>1. CASE p.proto = ICMP
  <2> DEFINE moved == [p EXCEPT !.dst = f[2]]
  <2>1. moved \in Packets /\ moved.proto = ICMP /\ aimed = Refreshed(moved)
    BY <1>0, <1>1 DEF Packets, WithDestination
  <2>2. SameButSums(aimed, moved)
    BY <2>1, RefreshedICMP
  <2>3. aimed \in Packets /\ aimed.proto = ICMP
    BY <2>1, <2>2 DEF SameButSums
  <2> HIDE DEF aimed
  <2>4. SameButSums(WithIdentifier(aimed, f[3]), [aimed EXCEPT !.sport = f[3]])
          /\ Verifies(WithIdentifier(aimed, f[3]))
    BY <1>0, <2>3, IdentifierVerifies
  <2>5. Inbound(p, f) = WithIdentifier(aimed, f[3])
    BY <1>1 DEF Inbound, aimed
  <2>6. QED
    BY <1>1, <2>2, <2>3, <2>4, <2>5 DEF SameButSums, Packets
<1>2. CASE p.proto # ICMP
  <2> DEFINE moved == [p EXCEPT !.dst = f[2], !.dport = f[3]]
  <2>1. moved \in Packets /\ moved.proto # ICMP /\ aimed = Refreshed(moved)
    BY <1>0, <1>2 DEF Packets, WithDestination
  <2>2. SameButSums(aimed, moved) /\ Verifies(aimed)
    BY <2>1, RefreshedVerifies
  <2>3. Inbound(p, f) = aimed
    BY <1>2 DEF Inbound
  <2> HIDE DEF aimed
  <2>4. QED
    BY <1>2, <2>2, <2>3 DEF SameButSums, Packets
<1>3. QED
  BY <1>1, <1>2

\* Every translated packet verifies at its receiver, and the answer to it, translated back,
\* goes to the endpoint it came from, for words of any size (set_source, set_destination,
\* set_icmp_id, _checksum).
THEOREM RewritesHold == Spec => []RewritesVerify
<1>1. IInv => RewritesVerify
  <2> SUFFICES ASSUME IInv, send.pc = "emit", NEW body \in Words, NEW peer \in Words, NEW stale \in Words
               PROVE  LET p == [proto |-> send.flow[1], src |-> send.flow[2], dst |-> peer,
                                sport |-> send.flow[3], dport |-> peer, body |-> body,
                                ipsum |-> stale, l4sum |-> stale]
                          out == Outbound(p, send.port)
                          answer == [out EXCEPT !.src = out.dst, !.dst = out.src,
                                          !.sport = IF out.proto # ICMP THEN out.dport ELSE @,
                                          !.dport = IF out.proto # ICMP THEN out.sport ELSE @]
                          back == Inbound(answer, send.flow)
                      IN  /\ Verifies(out) /\ out.src = Exit /\ out.sport = send.port
                          /\ Verifies(back) /\ back.dst = p.src
                          /\ (IF p.proto = ICMP THEN back.sport ELSE back.dport) = p.sport
    BY DEF RewritesVerify
  <2> DEFINE f == send.flow
             p == [proto |-> f[1], src |-> f[2], dst |-> peer, sport |-> f[3], dport |-> peer,
                   body |-> body, ipsum |-> stale, l4sum |-> stale]
             out == Outbound(p, send.port)
             answer == [out EXCEPT !.src = out.dst, !.dst = out.src,
                             !.sport = IF out.proto # ICMP THEN out.dport ELSE @,
                             !.dport = IF out.proto # ICMP THEN out.sport ELSE @]
  <2>1. f \in Flows /\ send.port \in Words
    BY ClientNATConstants DEF IInv, SendOK
  <2>2. p \in Packets
    BY <2>1, ClientNATConstants DEF Packets
  <2>3. p.proto = f[1] /\ p.src = f[2] /\ p.sport = f[3]
    OBVIOUS
  <2> HIDE DEF f, p
  <2>4. out \in Packets /\ Verifies(out) /\ out.proto = p.proto /\ out.src = Exit /\ out.sport = send.port
    BY <2>1, <2>2, OutboundFacts
  <2> HIDE DEF out
  <2>5. answer \in Packets /\ answer.proto = out.proto
    BY <2>4 DEF Packets
  <2> HIDE DEF answer
  <2>6. Verifies(Inbound(answer, f)) /\ Inbound(answer, f).dst = f[2]
          /\ (IF answer.proto = ICMP THEN Inbound(answer, f).sport ELSE Inbound(answer, f).dport) = f[3]
    BY <2>1, <2>5, InboundFacts
  <2>7. QED
    BY <2>3, <2>4, <2>5, <2>6, ZenonT(60) DEF f, p, out, answer
<1> QED
  BY <1>1, NATInvariant, PTL

=============================================================================
