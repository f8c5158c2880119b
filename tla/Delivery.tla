------------------------------- MODULE Delivery -------------------------------
(***************************************************************************)
(* One direction of the TCP connection of a session, from the threads that *)
(* write packets to the reader at the other end: fragments, frames, the    *)
(* cipher, the send lock, sends that are cut short, and reassembly.        *)
(*                                                                         *)
(* On the server the gateway thread delivers data, the handler thread      *)
(* answers and a panel thread kicks, all under _send_lock.  The client has *)
(* no lock: its send thread, receive thread, keep-alive thread and main    *)
(* thread write as they please.                                            *)
(* sendall puts its bytes into the socket as there is room, and raises     *)
(* when there was none for the timeout of the socket.                      *)
(*                                                                         *)
(* Not in the code: due, owed, whole, posted, wrong, cut and garbled.      *)
(***************************************************************************)
EXTENDS VPNPacket, FiniteSets

CONSTANTS
    MaxData,        \* MAX_DATA_PAYLOAD, less than the two bytes of length can say
    Lengths,        \* of the IP packets
    MaxPackets,     \* bound: IP packets sent
    MaxControl,     \* bound: other packets sent
    WireSize,       \* bytes the connection holds
    Session,        \* session_id
    Nobody

ASSUME DeliveryConstants ==
    /\ MaxData \in Nat \ {0} /\ MaxData < 256 * 256
    /\ Lengths \subseteq Nat \ {0} /\ WireSize \in Nat \ {0}
    /\ MaxPackets \in Nat /\ MaxControl \in Nat /\ Session \in 0..7

VARIABLES
    side,       \* which end writes
    begun,      \* the session is announced and its threads run
    stop,       \* the stop event of the side that writes
    open,       \* it has not closed the connection
    todo,       \* frames a thread has still to write, the first perhaps in part
    lock,       \* owner of _send_lock
    controls,   \* control packets so far
    wire,
    buf,        \* _FrameReader._buf
    reading,    \* the reader's loop goes on
    reasm,      \* _reasm
    posted,     \* number of IP packets of which a byte was written
    due,        \* packets of which a byte was written and that were not read yet
    owed,       \* IP packets of which a byte was written and that were not handed on
    whole,      \* how many of the latter were written to the end
    wrong,      \* something else was read, or handed on, than was due
    cut,        \* a packet was abandoned part way
    garbled     \* something was written into, or after, part of a packet

threads == <<side, begun, stop, open, todo, lock, controls, posted, cut, garbled>>
atReader == <<buf, reading, reasm, wrong>>
owing == <<due, owed, whole>>
vars == <<threads, wire, atReader, owing>>

-----------------------------------------------------------------------------

Writers == {"gateway", "handler", "panel", "send", "recv", "keepalive", "main"}
ASSUME NobodyWrites == Nobody \notin Writers
Data == [server |-> "gateway", client |-> "send"]
Asker == [server |-> "handler", client |-> "main"]
Working(w) ==
    w \in IF side = "server" THEN {"gateway", "handler", "panel"}
         ELSE {"send", "recv", "keepalive", "main"}

\* The i-th IP packet, of n bytes.
IPBytes(i, n) == [k \in 1..n |-> (16 * i + k) % 256]

\* _fragment
Fragments(bytes) ==
    LET pieces == (Len(bytes) + MaxData - 1) \div MaxData
        End(i) == IF i * MaxData < Len(bytes) THEN i * MaxData ELSE Len(bytes)
    IN  [i \in 1..pieces |->
            Packet(Code.DATA, Session, SubSeq(bytes, (i - 1) * MaxData + 1, End(i)),
                   i * MaxData < Len(bytes))]

\* What a thread sends besides data.
Sends(w) ==
    CASE w = "handler" -> IF begun THEN ServerControl(Session) ELSE ServerOpening(Session)
      [] w \in {"gateway", "panel"} /\ begun -> {Control(Code.DISCONNECT, Session, <<>>)}
      [] w = "main" -> IF begun THEN ClientControl(Session) ELSE ClientOpening(Session)
      [] w = "recv" /\ begun -> {ClientError(Session)}
      [] w = "keepalive" /\ begun -> {KeepAlive(Session)}
      [] OTHER -> {}

Job(frames, ip) == [frames |-> frames, ip |-> ip, at |-> 0]
Done == Job(<<>>, <<>>)
Busy(w) == todo[w].frames # <<>>
Bytes(frame) == Encode(Built(frame))
Halfway(w) == Busy(w) /\ todo[w].at > 0

-----------------------------------------------------------------------------
\* The side that writes.

\* Mutant of MayLock: the lock is not asked for.
MayLockAnyway(w) == TRUE

MayLock(w) == side = "server" => lock = Nobody

Take(w) == lock' = IF side = "server" THEN w ELSE lock
Release(w) == lock' = IF lock = w THEN Nobody ELSE lock

\* The handshake is over: register_session on the server, the threads on the client.
Begin ==
    /\ ~begun /\ ~Busy(Asker[side]) /\ open
    /\ begun' = TRUE
    /\ UNCHANGED <<side, stop, open, todo, lock, controls, posted, cut, garbled, wire, atReader,
                   owing>>

\* deliver, and _send_loop
SendData(n) ==
    LET w == Data[side]
        ip == IPBytes(posted + 1, n)
    IN  /\ begun /\ ~Busy(w) /\ open /\ MayLock(w)
        /\ side = "client" => ~stop
        /\ posted < MaxPackets
        /\ todo' = [todo EXCEPT ![w] = Job(Fragments(ip), ip)]
        /\ Take(w)
        /\ UNCHANGED <<side, begun, stop, open, controls, posted, cut, garbled, wire, atReader,
                       owing>>

\* _try_send, also from _quota_exhausted and kick, and the other sends of the client
SendControl(w, p) ==
    /\ Working(w) /\ ~Busy(w) /\ open /\ MayLock(w)
    /\ p \in Sends(w) /\ controls < MaxControl
    /\ todo' = [todo EXCEPT ![w] = Job(<<p>>, <<>>)]
    /\ controls' = controls + 1
    /\ Take(w)
    /\ UNCHANGED <<side, begun, stop, open, posted, cut, garbled, wire, atReader, owing>>

\* sendall of _send_frame gets as many bytes into the socket as there is room for.
Write(w) ==
    LET frame == todo[w].frames[1]
        bytes == Bytes(frame)
        at == todo[w].at
        room == WireSize - Len(wire)
        n == IF Len(bytes) - at < room THEN Len(bytes) - at ELSE room
        ends == at + n = Len(bytes)
        left == IF ends THEN Tail(todo[w].frames) ELSE todo[w].frames
        first == at = 0 /\ todo[w].frames = Fragments(todo[w].ip)
    IN  /\ Busy(w) /\ open /\ room > 0
        /\ wire' = wire \o SubSeq(bytes, at + 1, at + n)
        /\ todo' = [todo EXCEPT ![w] =
                        IF left = <<>> THEN Done
                        ELSE [frames |-> left, at |-> IF ends THEN 0 ELSE at + n,
                              ip |-> todo[w].ip]]
        /\ IF left = <<>> THEN Release(w) ELSE UNCHANGED lock
        /\ garbled' = (garbled \/ cut \/ \E v \in Writers \ {w} : Halfway(v))
        /\ posted' = IF first THEN posted + 1 ELSE posted
        /\ IF garbled' THEN due' = <<>> /\ owed' = <<>> /\ whole' = 0
           ELSE /\ due' = IF at = 0 THEN Append(due, frame) ELSE due
                /\ owed' = IF first THEN Append(owed, todo[w].ip) ELSE owed
                /\ whole' = IF left = <<>> /\ todo[w].ip # <<>> THEN whole + 1 ELSE whole
        /\ UNCHANGED <<side, begun, stop, open, controls, cut, atReader>>

\* It times out, or the connection was closed.  deliver and _send_loop stop the session,
\* the other callers go on.
SendFails(w) ==
    /\ Busy(w)
    /\ Len(wire) = WireSize \/ ~open
    /\ todo' = [todo EXCEPT ![w] = Done]
    /\ Release(w)
    /\ stop' = (stop \/ todo[w].ip # <<>>)
    /\ cut' = (cut \/ todo[w].at > 0 \/ (todo[w].ip # <<>>
                                         /\ todo[w].frames # Fragments(todo[w].ip)))
    /\ UNCHANGED <<side, begun, open, controls, posted, garbled, wire, atReader, owing>>

\* The session is told to end, for a reason of its own.
Stop ==
    /\ begun /\ ~stop
    /\ stop' = TRUE
    /\ UNCHANGED <<side, begun, open, todo, lock, controls, posted, cut, garbled, wire, atReader,
                   owing>>

\* Its owner closes the socket.  What was not read may be lost.
Close ==
    /\ open /\ (stop \/ ~begun) /\ ~Busy(Asker[side])
    /\ open' = FALSE
    /\ wire' \in {wire, <<>>}
    /\ UNCHANGED <<side, begun, stop, todo, lock, controls, posted, cut, garbled, atReader,
                   owing>>

-----------------------------------------------------------------------------
\* The other end: read_packet and the receive loop.

PayloadLen == LET header == Decode(SubSeq(buf, 1, HeaderLen)) IN 256 * header[1] + header[2]

\* Mutant of Complete: a byte more is waited for.
CompleteAndMore == Len(buf) >= HeaderLen /\ Len(buf) > HeaderLen + PayloadLen

Complete == Len(buf) >= HeaderLen /\ Len(buf) >= HeaderLen + PayloadLen

\* _fill
Fill ==
    /\ reading /\ ~Complete /\ wire # <<>>
    /\ buf' = buf \o wire
    /\ wire' = <<>>
    /\ UNCHANGED <<threads, reading, reasm, wrong, owing>>

EndOfStream ==
    /\ reading /\ ~Complete /\ wire = <<>> /\ ~open
    /\ reading' = FALSE
    /\ UNCHANGED <<threads, wire, buf, reasm, wrong, owing>>

Accepts(p) == IF side = "server" THEN ClientAccepts(p) ELSE ServerAccepts(p)

\* Codes that end the loop of the reader's end.
Ends == [server |-> {Code.DISCONNECT, Code.ERROR, Code.GET_NEW_IP}, client |-> {Code.DISCONNECT}]

\* What stays in _reasm.
Remainder(p, all) == IF p.more THEN all ELSE <<>>

\* A packet is cut off the buffer, parsed and handled, the data by _handle_data.  One that
\* is malformed is answered with an error, and ends a connection that has no session yet.
Handle(p) ==
    LET all == reasm[p.session] \o p.payload
        handsOn == Accepts(p) /\ p.code = Code.DATA /\ ~p.more
        asDue == /\ Accepts(p) /\ due # <<>> /\ p = Head(due)
                 /\ handsOn => owed # <<>> /\ all = Head(owed)
    IN  /\ reading' \in IF ~Accepts(p) THEN {TRUE, begun} ELSE {p.code \notin Ends[side]}
        /\ reasm' = IF Accepts(p) /\ p.code = Code.DATA
                    THEN [reasm EXCEPT ![p.session] = Remainder(p, all)] ELSE reasm
        /\ wrong' = (wrong \/ ~(garbled \/ asDue))
        /\ due' = IF due = <<>> THEN <<>> ELSE Tail(due)
        /\ IF handsOn /\ owed # <<>>
           THEN /\ owed' = Tail(owed)
                /\ whole' = IF whole = 0 THEN 0 ELSE whole - 1
           ELSE UNCHANGED <<owed, whole>>

ReadPacket ==
    /\ reading /\ Complete
    /\ LET total == HeaderLen + PayloadLen
       IN  /\ \E p \in {Opened(Decode(SubSeq(buf, 1, total)))} : Handle(p)
           /\ buf' = SubSeq(buf, total + 1, Len(buf))
    /\ UNCHANGED <<threads, wire>>

-----------------------------------------------------------------------------

Init ==
    /\ side \in {"server", "client"}
    /\ begun = FALSE /\ stop = FALSE /\ open = TRUE
    /\ todo = [w \in Writers |-> Done]
    /\ lock = Nobody
    /\ controls = 0
    /\ wire = <<>> /\ buf = <<>> /\ reading = TRUE
    /\ reasm = [s \in 0..7 |-> <<>>]
    /\ posted = 0 /\ due = <<>> /\ owed = <<>> /\ whole = 0
    /\ wrong = FALSE /\ cut = FALSE /\ garbled = FALSE

Read == Fill \/ EndOfStream \/ ReadPacket

Next ==
    \/ Begin
    \/ \E n \in Lengths : SendData(n)
    \/ \E w \in Writers : \/ \E p \in Sends(w) : SendControl(w, p)
                          \/ Write(w)
                          \/ SendFails(w)
    \/ Stop
    \/ Close
    \/ Read

Spec == Init /\ [][Next]_vars

\* The reader's thread runs.
FairSpec == Spec /\ WF_vars(Read)

-----------------------------------------------------------------------------
\* Properties.

\* Types, and bounds on what is held between two steps.
TypeOK ==
    /\ side \in {"server", "client"}
    /\ {begun, stop, open, reading, cut, garbled, wrong} \subseteq BOOLEAN
    /\ lock \in Writers \union {Nobody} /\ (side = "client" => lock = Nobody)
    /\ \A w \in Writers : Busy(w) => Working(w) /\ todo[w].at < Len(Bytes(todo[w].frames[1]))
    /\ \A i \in DOMAIN wire : wire[i] \in 0..255
    /\ Len(wire) <= WireSize
    /\ whole <= Len(owed) /\ posted <= MaxPackets

\* Until a packet was abandoned part way or two writers met, the reader gets the packets
\* that were written, in that order, with their code, session, flag and payload, refuses
\* none, and hands on the IP packets that went in, whole and unmixed: the two codecs, the
\* cipher, the framing, _fragment and _handle_data agree.
StreamArrives == ~wrong

\* On the server a frame is only ever written into another one after a send was cut short:
\* _send_lock covers every writer.  A control frame between two fragments does no harm, as
\* _reasm keeps the pieces apart from it.
OnlyTimeoutsGarble == side = "server" /\ garbled => cut

\* An IP packet that was written to the end is handed on in the end, unless the stream was
\* garbled or a side ended the session.
WrittenIsReceived ==
    \A i \in 1..MaxPackets :
        (\E k \in 1..whole : owed[k][1] = IPBytes(i, 1)[1])
            ~> (garbled \/ ~reading \/ ~open \/ \A k \in DOMAIN owed : owed[k][1] # IPBytes(i, 1)[1])

=============================================================================
