--------------------------- MODULE Delivery_proofs ----------------------------
(***************************************************************************)
(* The send lock of the server, and the stream of bytes: for packets of    *)
(* any length, any number of them, and a connection of any size, taking    *)
(* the bytes it is given in pieces of any size.                            *)
(***************************************************************************)
EXTENDS Delivery, SequenceTheorems, TLAPS

\* On the server a thread that has bytes to write holds _send_lock, from the first byte of
\* a packet to the last of its last fragment.
LockHeld == side = "server" => \A w \in Writers : Busy(w) => lock = w

LockInv ==
    /\ side \in DOMAIN Data
    /\ todo = [w \in Writers |-> todo[w]]
    /\ LockHeld
    /\ OnlyTimeoutsGarble

-----------------------------------------------------------------------------

\* Taking a packet to write (deliver, _try_send): the lock was free, so no one else has
\* bytes to write.
LEMMA TakeStep ==
    ASSUME LockInv, NEW w \in Writers, NEW job,
           MayLock(w), Take(w), todo' = [todo EXCEPT ![w] = job],
           UNCHANGED <<side, cut, garbled>>
    PROVE  LockInv'
<1>1. todo' = [v \in Writers |-> todo'[v]]
  BY DEF LockInv
<1>2. ASSUME side = "server", NEW v \in Writers, v # w
      PROVE  ~Busy(v)'
  <2>1. ~Busy(v)
    BY <1>2, NobodyWrites DEF LockInv, LockHeld, MayLock
  <2>2. todo'[v] = todo[v]
    BY <1>2 DEF LockInv
  <2> QED
    BY <2>1, <2>2 DEF Busy
<1>3. LockHeld'
  BY <1>2 DEF LockHeld, Take
<1> QED
  BY <1>1, <1>3 DEF LockInv, OnlyTimeoutsGarble

\* Letting the lock go: whoever had bytes to write was its owner.
LEMMA ReleaseStep ==
    ASSUME LockInv, NEW w \in Writers, Busy(w), Release(w),
           todo' = [todo EXCEPT ![w] = Done], UNCHANGED side
    PROVE  todo' = [v \in Writers |-> todo'[v]] /\ LockHeld'
<1>1. todo' = [v \in Writers |-> todo'[v]]
  BY DEF LockInv
<1>2. ASSUME side = "server", NEW v \in Writers
      PROVE  ~Busy(v)'
  <2>1. CASE v = w
    <3>1. todo'[v] = Done
      BY <2>1 DEF LockInv
    <3> QED
      BY <3>1 DEF Busy, Done, Job
  <2>2. CASE v # w
    <3>1. todo'[v] = todo[v]
      BY <2>2 DEF LockInv
    <3>2. ~Busy(v)
      BY <1>2, <2>2 DEF LockInv, LockHeld
    <3> QED
      BY <3>1, <3>2 DEF Busy
  <2> QED
    BY <2>1, <2>2
<1>3. LockHeld'
  BY <1>2 DEF LockHeld
<1> QED
  BY <1>1, <1>3

\* A thread of the server that writes is the only one with bytes to write, so it can garble
\* the stream only after a torn packet (_send_frame).
LEMMA WriteStep ==
    ASSUME LockInv, NEW w \in Writers, Write(w)
    PROVE  LockInv'
<1> DEFINE frame == todo[w].frames[1]
           bytes == Bytes(frame)
           at == todo[w].at
           room == WireSize - Len(wire)
           n == IF Len(bytes) - at < room THEN Len(bytes) - at ELSE room
           ends == at + n = Len(bytes)
           left == IF ends THEN Tail(todo[w].frames) ELSE todo[w].frames
           rest == [frames |-> left, at |-> IF ends THEN 0 ELSE at + n, ip |-> todo[w].ip]
<1>1. /\ Busy(w)
      /\ todo' = [todo EXCEPT ![w] = IF left = <<>> THEN Done ELSE rest]
      /\ IF left = <<>> THEN Release(w) ELSE UNCHANGED lock
      /\ garbled' = (garbled \/ cut \/ \E v \in Writers \ {w} : Halfway(v))
      /\ UNCHANGED <<side, cut>>
  BY DEF Write
<1> HIDE DEF left, rest
<1>2. todo' = [v \in Writers |-> todo'[v]] /\ LockHeld'
  <2>1. CASE left = <<>>
    BY <1>1, <2>1, ReleaseStep
  <2>2. CASE left # <<>>
    <3>1. todo' = [todo EXCEPT ![w] = rest] /\ UNCHANGED <<lock, side>>
      BY <1>1, <2>2
    <3>2. todo' = [v \in Writers |-> todo'[v]]
      BY <3>1 DEF LockInv
    <3>3. ASSUME side = "server", NEW v \in Writers, Busy(v)'
          PROVE  lock' = v
      <4>1. CASE v = w
        BY <1>1, <3>1, <3>3, <4>1 DEF LockInv, LockHeld
      <4>2. CASE v # w
        <5>1. todo'[v] = todo[v]
          BY <3>1, <4>2 DEF LockInv
        <5> QED
          BY <3>1, <3>3, <5>1 DEF LockInv, LockHeld, Busy
      <4> QED
        BY <4>1, <4>2
    <3> QED
      BY <3>1, <3>2, <3>3 DEF LockHeld
  <2> QED
    BY <2>1, <2>2
<1>3. side = "server" => \A v \in Writers \ {w} : ~Halfway(v)
  BY <1>1 DEF LockInv, LockHeld, Halfway
<1>4. OnlyTimeoutsGarble'
  BY <1>1, <1>3 DEF LockInv, OnlyTimeoutsGarble
<1> QED
  BY <1>1, <1>2, <1>4 DEF LockInv

\* A send that fails: the lock is let go, and what was torn is known (deliver, _try_send).
LEMMA FailStep ==
    ASSUME LockInv, NEW w \in Writers, SendFails(w)
    PROVE  LockInv'
<1>1. /\ Busy(w) /\ Release(w)
      /\ todo' = [todo EXCEPT ![w] = Done]
      /\ cut => cut'
      /\ UNCHANGED <<side, garbled>>
  BY DEF SendFails
<1>2. todo' = [v \in Writers |-> todo'[v]] /\ LockHeld'
  BY <1>1, ReleaseStep
<1> QED
  BY <1>1, <1>2 DEF LockInv, OnlyTimeoutsGarble

\* The steps that touch neither the lock nor what is to be written.
LEMMA OtherStep ==
    ASSUME LockInv, Begin \/ Stop \/ Close \/ Read \/ UNCHANGED vars
    PROVE  LockInv'
<1>1. UNCHANGED <<side, todo, lock, cut, garbled>>
  BY DEF Begin, Stop, Close, Read, Fill, EndOfStream, ReadPacket, vars, threads
<1> QED
  BY <1>1 DEF LockInv, LockHeld, OnlyTimeoutsGarble, Busy

\* No step lets a second thread of the server write.
LEMMA LockInvStep == LockInv /\ [Next]_vars => LockInv'
<1> SUFFICES ASSUME LockInv, [Next]_vars PROVE LockInv'
  OBVIOUS
<1>1. ASSUME NEW n \in Lengths, SendData(n)
      PROVE  LockInv'
  <2> DEFINE w == Data[side]
  <2>1. /\ MayLock(w) /\ Take(w)
        /\ todo' = [todo EXCEPT ![w] = Job(Fragments(IPBytes(posted + 1, n)), IPBytes(posted + 1, n))]
        /\ UNCHANGED <<side, cut, garbled>>
    BY <1>1 DEF SendData
  <2>2. w \in Writers
    BY DEF LockInv, Data, Writers
  <2> QED
    BY <2>1, <2>2, TakeStep
<1>2. ASSUME NEW w \in Writers, NEW p \in Sends(w), SendControl(w, p)
      PROVE  LockInv'
  <2>1. /\ MayLock(w) /\ Take(w)
        /\ todo' = [todo EXCEPT ![w] = Job(<<p>>, <<>>)]
        /\ UNCHANGED <<side, cut, garbled>>
    BY <1>2 DEF SendControl
  <2> QED
    BY <2>1, TakeStep
<1>3. ASSUME NEW w \in Writers, Write(w) PROVE LockInv'
  BY <1>3, WriteStep
<1>4. ASSUME NEW w \in Writers, SendFails(w) PROVE LockInv'
  BY <1>4, FailStep
<1>5. CASE Begin \/ Stop \/ Close \/ Read \/ UNCHANGED vars
  BY <1>5, OtherStep
<1> QED
  BY <1>1, <1>2, <1>3, <1>4, <1>5 DEF Next

\* On the server nothing is written into another thread's packet, or between its
\* fragments: the stream is garbled only after a send was cut short
\* (ClientHandler.deliver and _try_send under _send_lock).
THEOREM LockProtects == Spec => []OnlyTimeoutsGarble
<1>1. Init => LockInv
  BY DEF Init, LockInv, Data, LockHeld, OnlyTimeoutsGarble, Busy, Done, Job
<1>2. LockInv => OnlyTimeoutsGarble
  BY DEF LockInv
<1> QED
  BY <1>1, <1>2, LockInvStep, PTL DEF Spec

-----------------------------------------------------------------------------
\* The codec.

\* Bytes, the packets made of them, and how long a payload may be: its length is written
\* in two bytes (VPNPacket.py).
Octets == 0..255
Frames == [code : 0..15, session : {Session}, more : BOOLEAN, payload : Seq(Octets)]
Sizes == {n \in Nat : n < 256 * 256}
Fits(p) == p \in Frames /\ Len(p.payload) \in Sizes

\* The parts of a packet.
LEMMA FrameParts ==
    ASSUME NEW p, Fits(p)
    PROVE  /\ p.payload \in Seq(Octets) /\ Len(p.payload) \in Sizes /\ Len(p.payload) \in Nat
           /\ p.code \in 0..15 /\ p.session \in 0..7 /\ p.more \in BOOLEAN
<1>1. p \in Frames /\ Len(p.payload) \in Sizes
  BY DEF Fits
<1>2. p.payload \in Seq(Octets) /\ p.code \in 0..15 /\ p.session = Session /\ p.more \in BOOLEAN
  BY <1>1 DEF Frames
<1>3. Len(p.payload) \in Nat
  BY <1>2, LenProperties
<1>4. QED
  BY <1>1, <1>2, <1>3, DeliveryConstants

\* A length written in two bytes is read back.
LEMMA TwoBytes ==
    \A n \in Sizes : n \div 256 \in Octets /\ n % 256 \in Octets /\ 256 * (n \div 256) + (n % 256) = n
BY DEF Octets, Sizes

\* The third byte holds the code, the session and the flag.
Third(c, s, m) == 16 * c + 2 * s + (IF m THEN 1 ELSE 0)

\* The code, the session and the flag packed in one byte are read back.
LEMMA ThirdByte ==
    ASSUME NEW c \in 0..15, NEW s \in 0..7, NEW m \in BOOLEAN
    PROVE  /\ Third(c, s, m) \in Octets
           /\ Third(c, s, m) \div 16 = c /\ (Third(c, s, m) \div 2) % 8 = s
           /\ (Third(c, s, m) % 2 = 1) = m
<1>1. ASSUME NEW d \in {0, 1}
      PROVE  LET f == 16 * c + 2 * s + d
             IN  f \in 0..255 /\ f \div 16 = c /\ (f \div 2) % 8 = s /\ f % 2 = d
  OBVIOUS
<1>2. CASE m = TRUE
  BY <1>1, <1>2 DEF Third, Octets
<1>3. CASE m = FALSE
  BY <1>1, <1>3 DEF Third, Octets
<1>4. QED
  BY <1>2, <1>3

\* The cipher keeps the length, and its two halves undo each other (Cesar).
LEMMA CipherFacts ==
    ASSUME NEW bytes \in Seq(Octets)
    PROVE  /\ Encode(bytes) \in Seq(Octets) /\ Len(Encode(bytes)) = Len(bytes)
           /\ \A i \in 1..Len(bytes) : (Encode(bytes)[i] - Shift) % 256 = bytes[i]
<1>1. Len(bytes) \in Nat /\ DOMAIN bytes = 1..Len(bytes) /\ \A i \in 1..Len(bytes) : bytes[i] \in Octets
  BY ElementOfSeq, LenProperties
<1>2. Encode(bytes) = [i \in 1..Len(bytes) |-> (bytes[i] + Shift) % 256]
  BY <1>1 DEF Encode
<1>3. \A b \in Octets : (b + Shift) % 256 \in Octets /\ (((b + Shift) % 256) - Shift) % 256 = b
  BY DEF Octets, Shift
<1>4. Encode(bytes) \in [1..Len(bytes) -> Octets]
  <2>1. \A i \in 1..Len(bytes) : (bytes[i] + Shift) % 256 \in Octets
    BY <1>1, <1>3
  <2>2. QED
    BY <1>2, <2>1
<1>5. \A i \in 1..Len(bytes) : (Encode(bytes)[i] - Shift) % 256 = bytes[i]
  BY <1>1, <1>2, <1>3
<1>6. QED
  BY <1>1, <1>4, <1>5

\* What the cipher returns for bytes.
LEMMA DecodeFacts ==
    ASSUME NEW bytes \in Seq(Octets)
    PROVE  /\ Decode(bytes) \in Seq(Octets) /\ Len(Decode(bytes)) = Len(bytes)
           /\ \A i \in 1..Len(bytes) : Decode(bytes)[i] = (bytes[i] - Shift) % 256
<1>1. Len(bytes) \in Nat /\ DOMAIN bytes = 1..Len(bytes) /\ \A i \in 1..Len(bytes) : bytes[i] \in Octets
  BY ElementOfSeq, LenProperties
<1>2. Decode(bytes) = [i \in 1..Len(bytes) |-> (bytes[i] - Shift) % 256]
  BY <1>1 DEF Decode
<1>3. \A b \in Octets : (b - Shift) % 256 \in Octets
  BY DEF Octets, Shift
<1>4. Decode(bytes) \in [1..Len(bytes) -> Octets]
  BY <1>1, <1>2, <1>3
<1>5. QED
  BY <1>1, <1>2, <1>4

\* Deciphering undoes enciphering.
LEMMA CipherUndone == ASSUME NEW bytes \in Seq(Octets) PROVE Decode(Encode(bytes)) = bytes
<1>1. Encode(bytes) \in Seq(Octets) /\ Len(Encode(bytes)) = Len(bytes)
        /\ \A i \in 1..Len(bytes) : (Encode(bytes)[i] - Shift) % 256 = bytes[i]
  BY CipherFacts
<1>2. /\ Decode(Encode(bytes)) \in Seq(Octets) /\ Len(Decode(Encode(bytes))) = Len(bytes)
      /\ \A i \in 1..Len(bytes) : Decode(Encode(bytes))[i] = bytes[i]
  BY <1>1, DecodeFacts
<1>3. QED
  BY <1>2, SeqEqual

\* The bytes of a built packet, by place (_build_packet).
LEMMA BuiltFacts ==
    ASSUME NEW p, Fits(p)
    PROVE  /\ Built(p) \in Seq(Octets) /\ Len(Built(p)) = HeaderLen + Len(p.payload)
           /\ Built(p)[1] = Len(p.payload) \div 256 /\ Built(p)[2] = Len(p.payload) % 256
           /\ Built(p)[3] = Third(p.code, p.session, p.more)
           /\ Built(p)[4] = 0
           /\ \A i \in 1..Len(p.payload) : Built(p)[HeaderLen + i] = p.payload[i]
<1> DEFINE body == p.payload
           n == Len(body)
           flags == Third(p.code, p.session, p.more)
           header == <<n \div 256, n % 256, flags, 0>>
<1>1. body \in Seq(Octets) /\ n \in Sizes /\ n \in Nat
  BY FrameParts
<1>2. n \div 256 \in Octets /\ n % 256 \in Octets
  BY <1>1, TwoBytes, ZenonT(60)
<1>3. flags \in Octets /\ 0 \in Octets
  <2>1. p.code \in 0..15 /\ p.session \in 0..7 /\ p.more \in BOOLEAN
    BY FrameParts
  <2>2. flags \in Octets
    BY <2>1, ThirdByte, Zenon
  <2>3. QED
    BY <2>2 DEF Octets
<1>4. Built(p) = header \o body
  BY DEF Built, Third
<1> HIDE DEF flags, body
<1>5. header \in Seq(Octets) /\ Len(header) = 4
  BY <1>2, <1>3
<1>6. header[1] = n \div 256 /\ header[2] = n % 256 /\ header[3] = flags /\ header[4] = 0
  OBVIOUS
<1> HIDE DEF header
<1>7. /\ header \o body \in Seq(Octets) /\ Len(header \o body) = Len(header) + Len(body)
      /\ \A i \in 1..(Len(header) + Len(body)) :
             (header \o body)[i] = IF i <= Len(header) THEN header[i] ELSE body[i - Len(header)]
  BY <1>1, <1>5, ConcatProperties
<1>7a. n = Len(body)
  OBVIOUS
<1> HIDE DEF n
<1>7b. Len(header \o body) = 4 + n
       /\ \A i \in 1..(4 + n) : (header \o body)[i] = IF i <= 4 THEN header[i] ELSE body[i - 4]
  BY <1>5, <1>7, <1>7a
<1>8. \A i \in 1..n : (header \o body)[4 + i] = body[i]
  <2> SUFFICES ASSUME NEW i \in 1..n PROVE (header \o body)[4 + i] = body[i]
    OBVIOUS
  <2>1. 4 + i \in 1..(4 + n) /\ ~(4 + i <= 4) /\ (4 + i) - 4 = i
    BY <1>1
  <2>2. QED
    BY <1>7b, <2>1
<1>9. \A i \in 1..4 : (header \o body)[i] = header[i]
  BY <1>1, <1>7b
<1>10. \A i \in 1..4 : Built(p)[i] = header[i]
  BY <1>4, <1>9
<1>11. /\ Built(p)[1] = n \div 256 /\ Built(p)[2] = n % 256 /\ Built(p)[3] = flags /\ Built(p)[4] = 0
  BY <1>6, <1>10
<1>12. QED
  BY <1>4, <1>7, <1>7b, <1>8, <1>11, Zenon DEF HeaderLen, flags, n, body

\* Parsing undoes building (_parse_header_and_payload).
LEMMA OpenedBuilt == ASSUME NEW p, Fits(p) PROVE Opened(Built(p)) = p
<1> DEFINE b == Built(p)
           body == p.payload
           n == Len(body)
           c == p.code
           s == p.session
           m == p.more
           len == Len(b)
<1>1. body \in Seq(Octets) /\ n \in Sizes /\ n \in Nat /\ c \in 0..15 /\ s \in 0..7 /\ m \in BOOLEAN
  BY FrameParts
<1>2. /\ b \in Seq(Octets) /\ len = 4 + n /\ b[1] = n \div 256 /\ b[2] = n % 256 /\ b[4] = 0
      /\ b[3] = Third(c, s, m)
      /\ \A i \in 1..n : b[4 + i] = body[i]
  BY BuiltFacts, ZenonT(60) DEF HeaderLen
<1>3. p = [code |-> c, session |-> s, more |-> m, payload |-> body]
  BY DEF Fits, Frames
<1>4. n = Len(body) /\ len = Len(b)
  OBVIOUS
<1> HIDE DEF b, body, c, s, m, n, len
<1>5. 256 * b[1] + b[2] = n
  BY <1>1, <1>2, TwoBytes
<1>6. b[3] \div 16 = c /\ (b[3] \div 2) % 8 = s /\ (b[3] % 2 = 1) = m
  <2>1. b[3] = Third(c, s, m)
    BY <1>2
  <2>2. /\ Third(c, s, m) \div 16 = c /\ (Third(c, s, m) \div 2) % 8 = s
        /\ (Third(c, s, m) % 2 = 1) = m
    BY <1>1, ThirdByte, Zenon
  <2>3. QED
    BY <2>1, <2>2, Zenon
<1>7. SubSeq(b, 5, len) = body
  <2> DEFINE rest == SubSeq(b, 5, len)
  <2>0. len \in Nat /\ len >= 4 /\ len - 5 + 1 = n /\ 5 \in Int /\ len \in Int
    BY <1>1, <1>2
  <2>1. \A i \in 5..len : b[i] \in Octets
    <3>1. \A i \in 5..len : i \in 1..len
      BY <2>0
    <3>2. QED
      BY <1>2, <1>4, <3>1, ElementOfSeq
  <2>2. /\ rest \in Seq(Octets)
        /\ Len(rest) = IF 5 <= len THEN len - 5 + 1 ELSE 0
        /\ \A i \in 1..(len - 5 + 1) : rest[i] = b[5 + i - 1]
    BY <2>0, <2>1, SubSeqProperties
  <2> HIDE DEF rest
  <2>3. Len(rest) = n
    BY <1>1, <2>0, <2>2
  <2>4. \A i \in 1..n : rest[i] = body[i]
    <3> SUFFICES ASSUME NEW i \in 1..n PROVE rest[i] = body[i]
      OBVIOUS
    <3>1. 5 + i - 1 = 4 + i /\ i \in 1..(len - 5 + 1)
      BY <1>1, <2>0
    <3>2. QED
      BY <1>2, <2>2, <3>1
  <2>5. rest = body
    BY <1>1, <1>4, <2>2, <2>3, <2>4, SeqEqual
  <2>6. QED
    BY <2>5 DEF rest
<1>8. Opened(b) = Packet(b[3] \div 16, (b[3] \div 2) % 8, SubSeq(b, 5, len), b[3] % 2 = 1)
  <2>1. ~(len < 4) /\ b[4] = 0 /\ len = 4 + 256 * b[1] + b[2]
    <3>1. ~(len < 4)
      BY <1>1, <1>2
    <3>2. 4 + 256 * b[1] + b[2] = 4 + n
      BY <1>1, <1>2, <1>5, TwoBytes DEF Octets
    <3>3. QED
      BY <1>2, <3>1, <3>2
  <2>2. HeaderLen = 4 /\ HeaderLen + 1 = 5
    BY DEF HeaderLen
  <2>3. QED
    BY <1>4, <2>1, <2>2, Zenon DEF Opened
<1>9. QED
  BY <1>3, <1>6, <1>7, <1>8 DEF Packet, b

\* What goes over the wire.
LEMMA BytesFacts ==
    ASSUME NEW p, Fits(p)
    PROVE  /\ Bytes(p) \in Seq(Octets) /\ Len(Bytes(p)) = HeaderLen + Len(p.payload) /\ Len(p.payload) \in Nat
           /\ Opened(Decode(Bytes(p))) = p
           /\ 256 * ((Bytes(p)[1] - Shift) % 256) + ((Bytes(p)[2] - Shift) % 256) = Len(p.payload)
<1> DEFINE n == Len(p.payload)
           b == Built(p)
<1>1. b \in Seq(Octets) /\ Len(b) = 4 + n /\ n \in Sizes /\ n \in Nat
        /\ b[1] = n \div 256 /\ b[2] = n % 256
  BY BuiltFacts, FrameParts, ZenonT(60) DEF HeaderLen
<1>2. Opened(b) = p
  BY OpenedBuilt
<1> HIDE DEF n, b
<1>3. Bytes(p) = Encode(b)
  BY DEF Bytes, b
<1>4. Encode(b) \in Seq(Octets) /\ Len(Encode(b)) = Len(b)
        /\ \A i \in 1..Len(b) : (Encode(b)[i] - Shift) % 256 = b[i]
  BY <1>1, CipherFacts
<1>5. Decode(Encode(b)) = b
  BY <1>1, CipherUndone
<1>6. 1 \in 1..Len(b) /\ 2 \in 1..Len(b)
  BY <1>1
<1>7. (Encode(b)[1] - Shift) % 256 = n \div 256 /\ (Encode(b)[2] - Shift) % 256 = n % 256
  BY <1>1, <1>4, <1>6
<1>8. 256 * ((Encode(b)[1] - Shift) % 256) + ((Encode(b)[2] - Shift) % 256) = n
  BY <1>1, <1>7, TwoBytes
<1>9. n \in Nat
  BY <1>1
<1>10. QED
  BY <1>1, <1>2, <1>3, <1>4, <1>5, <1>8, <1>9 DEF HeaderLen, n

-----------------------------------------------------------------------------
\* Fragments.

\* The packets of IP, the number of pieces each is cut in, and the fragments left when q
\* are sent.
IPPackets == {b \in Seq(Octets) : b # <<>>}
Pieces(b) == (Len(b) + MaxData - 1) \div MaxData
Rest(b, q) == [i \in 1..(Pieces(b) - q) |-> Fragments(b)[q + i]]

\* A packet of n bytes has as many pieces as MaxData bytes begin in it.
LEMMA PiecesCounted ==
    ASSUME NEW n \in Nat \ {0}, NEW m \in Nat \ {0}, NEW i \in Nat
    PROVE  LET p == (n + m - 1) \div m
           IN  p \in Nat \ {0} /\ (i * m < n <=> i < p) /\ i * m \in Nat /\ (p - 1) * m < n /\ n <= p * m
<1> DEFINE p == (n + m - 1) \div m
           r == (n + m - 1) % m
<1>1. p \in Nat /\ r \in 0..(m - 1) /\ n + m - 1 = m * p + r
  OBVIOUS
<1> HIDE DEF p, r
<1>2. p # 0
  BY <1>1
<1>3. n <= p * m /\ (p - 1) * m < n
  <2>1. (p - 1) * m = m * p - m /\ p * m = m * p
    BY <1>1
  <2>2. QED
    BY <1>1, <2>1
<1>4. ASSUME i < p PROVE i * m < n
  <2>1. i * m <= (p - 1) * m
    <3>1. i <= p - 1
      BY <1>1, <1>4
    <3>2. PICK d \in Nat : p - 1 = i + d
      BY <1>1, <1>4, <3>1
    <3>3. (p - 1) * m = i * m + d * m /\ d * m \in Nat /\ i * m \in Nat
      BY <3>2
    <3>4. QED
      BY <3>3
  <2>2. QED
    BY <1>1, <1>3, <2>1
<1>5. ASSUME ~(i < p) PROVE ~(i * m < n)
  <2>1. PICK d \in Nat : i = p + d
    BY <1>1, <1>5
  <2>2. i * m = p * m + d * m /\ d * m \in Nat /\ p * m \in Nat
    BY <1>1, <2>1
  <2>3. QED
    BY <1>3, <2>2
<1>6. i * m \in Nat
  OBVIOUS
<1>7. QED
  BY <1>1, <1>2, <1>3, <1>4, <1>5, <1>6 DEF p

\* A fragment is as long as its length field can say.
LEMMA SizesFit == MaxData \in Nat \ {0} /\ 1..MaxData \subseteq Sizes
<1>1. MaxData \in Nat \ {0} /\ MaxData < 256 * 256
  BY DeliveryConstants
<1>2. ASSUME NEW k \in 1..MaxData PROVE k \in Nat /\ k < 256 * 256
  BY <1>1
<1>3. QED
  BY <1>1, <1>2 DEF Sizes

\* The pieces of an IP packet.
LEMMA PiecesFacts ==
    ASSUME NEW b \in IPPackets
    PROVE  /\ Len(b) \in Nat \ {0} /\ Pieces(b) \in Nat \ {0}
           /\ \A i \in Nat : (i * MaxData < Len(b) <=> i < Pieces(b)) /\ i * MaxData \in Nat
           /\ Len(b) <= Pieces(b) * MaxData
<1>1. Len(b) \in Nat \ {0}
  BY EmptySeq DEF IPPackets
<1>2. MaxData \in Nat \ {0}
  BY SizesFit
<1>3. QED
  BY <1>1, <1>2, PiecesCounted DEF Pieces

\* Where the i-th piece of b ends.
End(b, i) == IF i < Pieces(b) THEN i * MaxData ELSE Len(b)

\* Each piece has a byte, and no more than MaxData.
LEMMA EndFacts ==
    ASSUME NEW b \in IPPackets, NEW i \in 1..Pieces(b)
    PROVE  /\ (i - 1) * MaxData \in Nat /\ (i - 1) * MaxData < End(b, i) /\ End(b, i) <= Len(b)
           /\ End(b, i) - (i - 1) * MaxData <= MaxData /\ End(b, i) \in Nat
<1> DEFINE m == MaxData
           n == Len(b)
           p == Pieces(b)
<1>1. m \in Nat \ {0} /\ n \in Nat \ {0} /\ p \in Nat \ {0} /\ n <= p * m
      /\ \A k \in Nat : (k * m < n <=> k < p) /\ k * m \in Nat
  BY PiecesFacts, SizesFit, Zenon
<1>2. i \in 1..p /\ End(b, i) = IF i < p THEN i * m ELSE n
  BY DEF End
<1> HIDE DEF m, n, p
<1>3. i \in Nat /\ i - 1 \in Nat /\ (i - 1) * m = i * m - m
  BY <1>1, <1>2
<1>4. (i - 1) * m \in Nat /\ (i - 1) * m < n /\ i * m \in Nat
  BY <1>1, <1>2, <1>3
<1>5. CASE i < p
  <2>1. i * m < n
    BY <1>1, <1>3, <1>5
  <2>2. QED
    BY <1>1, <1>2, <1>3, <1>4, <1>5, <2>1 DEF m, n
<1>6. CASE ~(i < p)
  <2>1. i = p
    BY <1>1, <1>2, <1>6
  <2>2. n <= i * m
    BY <1>1, <2>1
  <2>3. n - (i - 1) * m <= m
    BY <1>1, <1>3, <1>4, <2>2
  <2>4. QED
    BY <1>1, <1>2, <1>4, <1>6, <2>3 DEF m, n
<1>7. QED
  BY <1>5, <1>6

\* A piece is bytes of the packet.
LEMMA PieceFacts ==
    ASSUME NEW b \in IPPackets, NEW i \in 1..Pieces(b)
    PROVE  LET piece == SubSeq(b, (i - 1) * MaxData + 1, End(b, i))
           IN  piece \in Seq(Octets) /\ Len(piece) \in 1..MaxData
<1> DEFINE from == (i - 1) * MaxData + 1
           to == End(b, i)
           size == Len(b)
           low == (i - 1) * MaxData
<1>1. low \in Nat /\ low < to /\ to <= size /\ to - low <= MaxData /\ to \in Nat /\ from = low + 1
  BY EndFacts
<1>2. MaxData \in Nat /\ size \in Nat /\ b \in Seq(Octets)
  BY PiecesFacts, DeliveryConstants DEF IPPackets
<1>3. \A k \in 1..size : b[k] \in Octets
  BY <1>2, ElementOfSeq
<1> HIDE DEF from, to, size, low
<1>4. \A k \in from..to : b[k] \in Octets
  BY <1>1, <1>2, <1>3
<1>5. from \in Int /\ to \in Int /\ from <= to /\ to - from + 1 \in 1..MaxData
  BY <1>1, <1>2
<1>6. SubSeq(b, from, to) \in Seq(Octets) /\ Len(SubSeq(b, from, to)) = to - from + 1
  BY <1>4, <1>5, SubSeqProperties
<1>7. QED
  BY <1>5, <1>6 DEF from, to

\* The fragments of an IP packet: all but the last announce another.
LEMMA FragmentFacts ==
    ASSUME NEW b \in IPPackets
    PROVE  /\ Fragments(b) = [i \in 1..Pieces(b) |-> Fragments(b)[i]] /\ Len(Fragments(b)) = Pieces(b)
           /\ \A i \in 1..Pieces(b) :
                 /\ Fits(Fragments(b)[i]) /\ Fragments(b)[i].code = Code.DATA
                 /\ Fragments(b)[i].session = Session
                 /\ Fragments(b)[i].more = (i < Pieces(b))
                 /\ Fragments(b)[i].payload = SubSeq(b, (i - 1) * MaxData + 1, End(b, i))
<1> DEFINE Piece(i) == SubSeq(b, (i - 1) * MaxData + 1, End(b, i))
<1>1. Fragments(b) = [i \in 1..Pieces(b) |-> Packet(Code.DATA, Session,
                          SubSeq(b, (i - 1) * MaxData + 1, IF i * MaxData < Len(b) THEN i * MaxData ELSE Len(b)),
                          i * MaxData < Len(b))]
  BY DEF Fragments, Pieces
<1>2. \A i \in 1..Pieces(b) : i \in Nat /\ (i * MaxData < Len(b) <=> i < Pieces(b))
  BY PiecesFacts
<1>3. ASSUME NEW i \in 1..Pieces(b)
      PROVE  Fragments(b)[i] = [code |-> Code.DATA, session |-> Session, payload |-> Piece(i), more |-> i < Pieces(b)]
  <2>1. (i * MaxData < Len(b)) = (i < Pieces(b))
    BY <1>2
  <2>2. Fragments(b)[i] = Packet(Code.DATA, Session,
            SubSeq(b, (i - 1) * MaxData + 1, IF i * MaxData < Len(b) THEN i * MaxData ELSE Len(b)),
            i * MaxData < Len(b))
    BY <1>1
  <2>3. Fragments(b)[i] = Packet(Code.DATA, Session,
            SubSeq(b, (i - 1) * MaxData + 1, IF i < Pieces(b) THEN i * MaxData ELSE Len(b)), i < Pieces(b))
    BY <2>1, <2>2, Zenon
  <2>4. QED
    BY <2>3, Zenon DEF Packet, End
<1>4. Pieces(b) \in Nat
  BY PiecesFacts
<1>5. DOMAIN Fragments(b) = 1..Pieces(b) /\ Fragments(b) = [i \in 1..Pieces(b) |-> Fragments(b)[i]]
  BY <1>1
<1>6. Len(Fragments(b)) = Pieces(b)
  BY <1>1, <1>4
<1>7. ASSUME NEW i \in 1..Pieces(b) PROVE Fits(Fragments(b)[i])
  <2> DEFINE piece == Piece(i)
  <2>1. piece \in Seq(Octets) /\ Len(piece) \in 1..MaxData
    BY PieceFacts
  <2>2. Fragments(b)[i] = [code |-> 0, session |-> Session, payload |-> piece, more |-> i < Pieces(b)]
    BY <1>3 DEF Code
  <2> HIDE DEF piece
  <2>3. Len(piece) \in Sizes
    BY <2>1, SizesFit
  <2>4. QED
    BY <2>1, <2>2, <2>3 DEF Fits, Frames
<1>8. \A i \in 1..Pieces(b) :
          /\ Fragments(b)[i].code = Code.DATA /\ Fragments(b)[i].session = Session
          /\ Fragments(b)[i].more = (i < Pieces(b)) /\ Fragments(b)[i].payload = Piece(i)
  <2> SUFFICES ASSUME NEW i \in 1..Pieces(b)
               PROVE  /\ Fragments(b)[i].code = Code.DATA /\ Fragments(b)[i].session = Session
                      /\ Fragments(b)[i].more = (i < Pieces(b)) /\ Fragments(b)[i].payload = Piece(i)
    OBVIOUS
  <2> DEFINE frame == [code |-> Code.DATA, session |-> Session, payload |-> Piece(i), more |-> i < Pieces(b)]
  <2>1. Fragments(b)[i] = frame
    BY <1>3
  <2>2. frame.code = Code.DATA /\ frame.session = Session /\ frame.more = (i < Pieces(b)) /\ frame.payload = Piece(i)
    OBVIOUS
  <2>3. QED
    BY <2>1, <2>2, Zenon
<1>9. QED
  BY <1>5, <1>6, <1>7, <1>8, Zenon

\* What has arrived of a packet, and the next fragment of it (_handle_data).
LEMMA Reassembly ==
    ASSUME NEW b \in IPPackets, NEW q \in 0..(Pieces(b) - 1)
    PROVE  /\ SubSeq(b, 1, q * MaxData) \o Fragments(b)[q + 1].payload
                 = IF q + 1 = Pieces(b) THEN b ELSE SubSeq(b, 1, (q + 1) * MaxData)
           /\ Fragments(b)[q + 1].more = (q + 1 # Pieces(b))
           /\ SubSeq(b, 1, 0 * MaxData) = <<>>
<1> DEFINE i == q + 1
           low == q * MaxData
           to == End(b, i)
           size == Len(b)
<1>0. Pieces(b) \in Nat \ {0}
  BY PiecesFacts
<1>1. i \in 1..Pieces(b) /\ i - 1 = q /\ q \in Nat /\ (i < Pieces(b) <=> i # Pieces(b))
  BY <1>0
<1>2. low \in Nat /\ low < to /\ to <= size /\ to \in Nat /\ size \in Nat
  <2>1. (i - 1) * MaxData \in Nat /\ (i - 1) * MaxData < End(b, i) /\ End(b, i) <= Len(b) /\ End(b, i) \in Nat
    BY <1>1, EndFacts
  <2>2. Len(b) \in Nat
    BY PiecesFacts
  <2>3. QED
    BY <1>1, <2>1, <2>2
<1>3. Fragments(b)[i].payload = SubSeq(b, low + 1, to) /\ Fragments(b)[i].more = (i < Pieces(b))
  <2>1. Fragments(b)[i].payload = SubSeq(b, (i - 1) * MaxData + 1, End(b, i))
        /\ Fragments(b)[i].more = (i < Pieces(b))
    BY <1>1, FragmentFacts
  <2>2. QED
    BY <1>1, <2>1
<1>4. b \in Seq(Octets) /\ size = Len(b)
  BY DEF IPPackets
<1>5. to = IF i = Pieces(b) THEN size ELSE i * MaxData
  BY <1>1 DEF End
<1> HIDE DEF low, to, size
<1>6. 1 \in 1..(size + 1) /\ low \in (1 - 1)..size /\ to \in low..size
  BY <1>2
<1>7. SubSeq(b, 1, low) \o SubSeq(b, low + 1, to) = SubSeq(b, 1, to)
  BY <1>4, <1>6, ConcatAdjacentSubSeq
<1>8. SubSeq(b, 1, size) = b
  BY <1>4, SubSeqFull
<1>9. SubSeq(b, 1, 0 * MaxData) = <<>>
  <2>1. 0 * MaxData = 0
    BY DeliveryConstants
  <2>2. SubSeq(b, 1, 0) = <<>>
    BY SubSeqEmpty
  <2>3. QED
    BY <2>1, <2>2
<1>10. (i < Pieces(b)) = (i # Pieces(b))
  BY <1>1
<1>11. Fragments(b)[i].more = (i # Pieces(b))
  BY <1>3, <1>10, Zenon
<1>12. SubSeq(b, 1, low) \o Fragments(b)[i].payload = IF i = Pieces(b) THEN b ELSE SubSeq(b, 1, i * MaxData)
  BY <1>3, <1>5, <1>7, <1>8
<1>13. QED
  BY <1>9, <1>11, <1>12 DEF low

\* What is left of a packet of which q fragments are written.
LEMMA RestFacts ==
    ASSUME NEW b \in IPPackets, NEW q \in 0..(Pieces(b) - 1)
    PROVE  /\ Rest(b, q) \in Seq({Fragments(b)[i] : i \in 1..Pieces(b)}) /\ Len(Rest(b, q)) = Pieces(b) - q
           /\ Rest(b, q) # <<>> /\ Rest(b, q)[1] = Fragments(b)[q + 1]
           /\ Tail(Rest(b, q)) = IF q + 1 = Pieces(b) THEN <<>> ELSE Rest(b, q + 1)
           /\ Rest(b, q) = Fragments(b) <=> q = 0
<1> DEFINE p == Pieces(b)
           S == {Fragments(b)[i] : i \in 1..p}
           f == Fragments(b)
<1>0. p \in Nat \ {0} /\ q \in 0..(p - 1)
  BY PiecesFacts
<1>0a. p = Pieces(b)
  OBVIOUS
<1> HIDE DEF p
<1>1. p \in Nat \ {0} /\ q \in Nat /\ p - q \in Nat \ {0} /\ p - (q + 1) \in Nat
  BY <1>0
<1>2. f = [i \in 1..p |-> f[i]] /\ Len(f) = p
  BY FragmentFacts, <1>0a
<1>3. Rest(b, q) = [i \in 1..(p - q) |-> f[q + i]]
  BY <1>0a DEF Rest
<1>4. \A i \in 1..(p - q) : q + i \in 1..p
  BY <1>1
<1>5. \A i \in 1..(p - q) : f[q + i] \in S
  BY <1>4
<1>6. Rest(b, q) \in Seq(S) /\ Len(Rest(b, q)) = p - q
  <2>1. Rest(b, q) \in [1..(p - q) -> S]
    BY <1>3, <1>5
  <2> HIDE DEF S
  <2>2. p - q \in Nat
    BY <1>1
  <2>3. QED
    BY <2>1, <2>2
<1>7. Rest(b, q) # <<>> /\ Rest(b, q)[1] = f[q + 1]
  <2>1. 1 \in 1..(p - q)
    BY <1>1
  <2>2. Len(Rest(b, q)) # 0
    BY <1>1, <1>6
  <2>3. QED
    BY <1>3, <2>1, <2>2, EmptySeq
<1>8. ASSUME q + 1 = p PROVE Tail(Rest(b, q)) = <<>>
  <2>1. Tail(Rest(b, q)) \in Seq(S) /\ Len(Tail(Rest(b, q))) = p - q - 1
    BY <1>6, <1>7, HeadTailProperties
  <2>2. p - q - 1 = 0
    BY <1>1, <1>8
  <2> HIDE DEF S
  <2>3. QED
    BY <2>1, <2>2, EmptySeq
<1>9. ASSUME q + 1 # p PROVE Tail(Rest(b, q)) = Rest(b, q + 1)
  <2>1. Tail(Rest(b, q)) \in Seq(S) /\ Len(Tail(Rest(b, q))) = p - q - 1
        /\ \A i \in 1..Len(Tail(Rest(b, q))) : Tail(Rest(b, q))[i] = Rest(b, q)[i + 1]
    BY <1>1, <1>6, <1>7, HeadTailProperties
  <2>2. Rest(b, q + 1) = [i \in 1..(p - (q + 1)) |-> f[(q + 1) + i]]
    BY <1>0a DEF Rest
  <2>3. \A i \in 1..(p - (q + 1)) : (q + 1) + i \in 1..p /\ i + 1 \in 1..(p - q) /\ q + (i + 1) = (q + 1) + i
    BY <1>1
  <2>4. \A i \in 1..(p - (q + 1)) : f[(q + 1) + i] \in S
    BY <2>3
  <2>5. Rest(b, q + 1) \in Seq(S) /\ Len(Rest(b, q + 1)) = p - (q + 1)
    <3>1. Rest(b, q + 1) \in [1..(p - (q + 1)) -> S]
      BY <2>2, <2>4
    <3> HIDE DEF S
    <3>2. QED
      BY <1>1, <3>1
  <2>6. p - q - 1 = p - (q + 1)
    BY <1>1
  <2>7. ASSUME NEW i \in 1..(p - (q + 1)) PROVE Tail(Rest(b, q))[i] = Rest(b, q + 1)[i]
    <3>1. Tail(Rest(b, q))[i] = Rest(b, q)[i + 1]
      BY <2>1, <2>6
    <3>2. i + 1 \in 1..(p - q) /\ q + (i + 1) = (q + 1) + i
      BY <2>3
    <3>3. Rest(b, q)[i + 1] = f[q + (i + 1)]
      BY <1>3, <3>2
    <3>4. Rest(b, q + 1)[i] = f[(q + 1) + i]
      BY <2>2
    <3>5. QED
      BY <3>1, <3>2, <3>3, <3>4
  <2>8. QED
    BY <2>1, <2>5, <2>6, <2>7, SeqEqual
<1>10. Rest(b, q) = f <=> q = 0
  <2>1. ASSUME q = 0 PROVE Rest(b, q) = f
    <3>1. p - q = p /\ \A i \in 1..p : q + i = i
      BY <1>1, <2>1
    <3>2. Rest(b, q) = [i \in 1..p |-> f[i]]
      BY <1>3, <3>1
    <3>3. QED
      BY <1>2, <3>2
  <2>2. ASSUME Rest(b, q) = f PROVE q = 0
    BY <1>1, <1>2, <1>6, <2>2
  <2>3. QED
    BY <2>1, <2>2
<1>11. QED
  BY <1>0a, <1>6, <1>7, <1>8, <1>9, <1>10

-----------------------------------------------------------------------------
\* What a side sends is what the other end accepts.

\* The packets the other end of side s takes.
Sendable(s) == {p \in Frames : Fits(p) /\ (IF s = "server" THEN ClientAccepts(p) ELSE ServerAccepts(p))}

\* The payloads of the control packets.
LEMMA TextFacts ==
    /\ {<<>>, Text, Credentials, FourBytes} \subseteq Seq(Octets)
    /\ Len(Text) = 1 /\ Len(Credentials) = 1 /\ Len(FourBytes) = 4 /\ Len(<<>>) = 0
    /\ IsText(Text) /\ Text # <<>>
BY DEF Text, Credentials, FourBytes, Octets, IsText

\* A control packet is a packet.
LEMMA ControlFits ==
    ASSUME NEW code \in 1..15, NEW payload \in {<<>>, Text, Credentials, FourBytes}
    PROVE  LET p == Control(code, Session, payload)
           IN  /\ Fits(p) /\ p.code = code /\ p.payload = payload /\ p # Malformed
               /\ p.code # Code.DATA
<1> DEFINE p == Control(code, Session, payload)
<1>1. p = [code |-> code, session |-> Session, more |-> FALSE, payload |-> payload]
  BY DEF Control, Packet
<1>2. payload \in Seq(Octets) /\ Len(payload) \in {0, 1, 4}
  BY TextFacts
<1>3. Len(payload) \in Sizes
  <2>1. 0 \in Sizes /\ 1 \in Sizes /\ 4 \in Sizes
    BY DEF Sizes
  <2>2. QED
    BY <1>2, <2>1
<1>4. Malformed.code = 16 /\ p.code = code /\ p.payload = payload /\ p.session = Session /\ p.more = FALSE
  BY <1>1 DEF Malformed, Packet
<1>5. code \in 0..15 /\ code # 16 /\ code # 0
  OBVIOUS
<1>6. p \in Frames
  BY <1>1, <1>2, <1>5 DEF Frames
<1> HIDE DEF p
<1>7. Fits(p)
  BY <1>3, <1>4, <1>6 DEF Fits
<1>8. QED
  BY <1>4, <1>5, <1>7 DEF p, Code

\* The client takes each control packet the server sends.
LEMMA ServerSends ==
    \A p \in ServerOpening(Session) \cup ServerControl(Session) : p \in Sendable("server") /\ p.code # Code.DATA
<1> DEFINE C(code, payload) == Control(code, Session, payload)
<1>1. /\ ClientAccepts(C(3, <<>>)) /\ ClientAccepts(C(9, Text)) /\ ClientAccepts(C(11, Text))
      /\ ClientAccepts(C(12, <<>>)) /\ ClientAccepts(C(14, <<>>)) /\ ClientAccepts(C(6, FourBytes))
      /\ ClientAccepts(C(8, Text)) /\ ClientAccepts(C(7, <<>>))
  <2>1. ASSUME NEW code \in {3, 12, 14, 7} PROVE ClientAccepts(C(code, <<>>))
    <3>1. C(code, <<>>).code = code /\ C(code, <<>>).payload = <<>> /\ C(code, <<>>) # Malformed
      BY <2>1, ControlFits
    <3> HIDE DEF C
    <3>2. QED
      BY <2>1, <3>1 DEF ClientAccepts, ClientReceivable, Code
  <2>2. ASSUME NEW code \in {9, 11, 8} PROVE ClientAccepts(C(code, Text))
    <3>1. C(code, Text).code = code /\ C(code, Text).payload = Text /\ C(code, Text) # Malformed
      BY <2>2, ControlFits
    <3> HIDE DEF C
    <3>2. QED
      BY <2>2, <3>1, TextFacts DEF ClientAccepts, ClientReceivable, Code
  <2>3. ClientAccepts(C(6, FourBytes))
    <3>1. C(6, FourBytes).code = 6 /\ C(6, FourBytes).payload = FourBytes /\ C(6, FourBytes) # Malformed
      BY ControlFits
    <3> HIDE DEF C
    <3>2. QED
      BY <3>1, TextFacts DEF ClientAccepts, ClientReceivable, Code
  <2>4. QED
    BY <2>1, <2>2, <2>3
<1>2. ASSUME NEW p \in ServerOpening(Session) \cup ServerControl(Session)
      PROVE  \E code \in 1..15, payload \in {<<>>, Text, Credentials, FourBytes} :
                 p = C(code, payload) /\ ClientAccepts(C(code, payload))
  <2>1. p \in {C(3, <<>>), C(9, Text), C(11, Text), C(12, <<>>), C(14, <<>>), C(6, FourBytes), C(8, Text),
               C(7, <<>>)}
    BY <1>2 DEF ServerOpening, ServerControl, Code
  <2> HIDE DEF C
  <2>2. QED
    BY <1>1, <2>1
<1>3. ASSUME NEW p \in ServerOpening(Session) \cup ServerControl(Session)
      PROVE  p \in Sendable("server") /\ p.code # Code.DATA
  <2>1. PICK code \in 1..15, payload \in {<<>>, Text, Credentials, FourBytes} :
            p = C(code, payload) /\ ClientAccepts(p)
    BY <1>2
  <2>2. Fits(p) /\ p.code # Code.DATA
    BY <2>1, ControlFits
  <2>3. QED
    BY <2>1, <2>2 DEF Sendable, Fits
<1>4. QED
  BY <1>3

\* The server takes each control packet the client sends.
LEMMA ClientSends ==
    \A p \in ClientOpening(Session) \cup ClientControl(Session) \cup {KeepAlive(Session), ClientError(Session)} :
        p \in Sendable("client") /\ p.code # Code.DATA
<1> DEFINE C(code, payload) == Control(code, Session, payload)
           All == ClientOpening(Session) \cup ClientControl(Session) \cup {KeepAlive(Session), ClientError(Session)}
<1>1. /\ ServerAccepts(C(13, Credentials)) /\ ServerAccepts(C(2, Credentials)) /\ ServerAccepts(C(10, <<>>))
      /\ ServerAccepts(C(15, Text)) /\ ServerAccepts(C(1, <<>>)) /\ ServerAccepts(C(9, Text))
      /\ ServerAccepts(C(5, FourBytes)) /\ ServerAccepts(C(8, <<>>)) /\ ServerAccepts(C(7, <<>>))
  <2>1. ASSUME NEW code \in {10, 1, 8, 7} PROVE ServerAccepts(C(code, <<>>))
    <3>1. C(code, <<>>).code = code /\ C(code, <<>>).payload = <<>> /\ C(code, <<>>) # Malformed
      BY <2>1, ControlFits
    <3> HIDE DEF C
    <3>2. QED
      BY <2>1, <3>1 DEF ServerAccepts, ServerReceivable, Code
  <2>2. ASSUME NEW code \in {15, 9} PROVE ServerAccepts(C(code, Text))
    <3>1. C(code, Text).code = code /\ C(code, Text).payload = Text /\ C(code, Text) # Malformed
      BY <2>2, ControlFits
    <3> HIDE DEF C
    <3>2. QED
      BY <2>2, <3>1, TextFacts DEF ServerAccepts, ServerReceivable, Code
  <2>3. ServerAccepts(C(5, FourBytes))
    <3>1. C(5, FourBytes).code = 5 /\ C(5, FourBytes).payload = FourBytes /\ C(5, FourBytes) # Malformed
      BY ControlFits
    <3> HIDE DEF C
    <3>2. QED
      BY <3>1, TextFacts DEF ServerAccepts, ServerReceivable, Code
  <2>4. ASSUME NEW code \in {13, 2} PROVE ServerAccepts(C(code, Credentials))
    <3>1. C(code, Credentials).code = code /\ C(code, Credentials).payload = Credentials
          /\ C(code, Credentials) # Malformed
      BY <2>4, ControlFits
    <3> HIDE DEF C
    <3>2. QED
      BY <2>4, <3>1 DEF ServerAccepts, ServerReceivable, Code
  <2>5. QED
    BY <2>1, <2>2, <2>3, <2>4
<1>2. ASSUME NEW p \in All
      PROVE  \E code \in 1..15, payload \in {<<>>, Text, Credentials, FourBytes} :
                 p = C(code, payload) /\ ServerAccepts(C(code, payload))
  <2>1. p \in {C(13, Credentials), C(2, Credentials), C(10, <<>>), C(15, Text), C(1, <<>>), C(9, Text),
               C(5, FourBytes), C(8, <<>>), C(7, <<>>)}
    BY <1>2 DEF ClientOpening, ClientControl, KeepAlive, ClientError, Code
  <2> HIDE DEF C
  <2>2. QED
    BY <1>1, <2>1
<1>3. ASSUME NEW p \in All
      PROVE  p \in Sendable("client") /\ p.code # Code.DATA
  <2>1. PICK code \in 1..15, payload \in {<<>>, Text, Credentials, FourBytes} :
            p = C(code, payload) /\ ServerAccepts(p)
    BY <1>2
  <2>2. Fits(p) /\ p.code # Code.DATA
    BY <2>1, ControlFits
  <2>3. QED
    BY <2>1, <2>2 DEF Sendable, Fits
<1>4. QED
  BY <1>3

\* So what a thread sends beside data is taken.
LEMMA ControlSendable ==
    ASSUME side \in {"server", "client"}, NEW w \in Writers, Working(w), NEW p \in Sends(w)
    PROVE  p \in Sendable(side) /\ p.code # Code.DATA
<1>1. CASE side = "server"
  <2>1. w \in {"gateway", "handler", "panel"}
    BY <1>1 DEF Working
  <2>2. p \in ServerOpening(Session) \cup ServerControl(Session)
    BY <2>1 DEF Sends, ServerControl
  <2>3. QED
    BY <1>1, <2>2, ServerSends
<1>2. CASE side = "client"
  <2>1. w \in {"send", "recv", "keepalive", "main"}
    BY <1>2 DEF Working
  <2>2. p \in ClientOpening(Session) \cup ClientControl(Session) \cup {KeepAlive(Session), ClientError(Session)}
    BY <2>1 DEF Sends
  <2>3. QED
    BY <1>2, <2>2, ClientSends
<1>3. QED
  BY <1>1, <1>2

\* And so is each fragment of an IP packet.
LEMMA FragmentSendable ==
    ASSUME NEW s, NEW b \in IPPackets, NEW i \in 1..Pieces(b)
    PROVE  Fragments(b)[i] \in Sendable(s)
<1> DEFINE p == Fragments(b)[i]
<1>1. Fits(p) /\ p.code = 0
  BY FragmentFacts DEF Code
<1> HIDE DEF p
<1>2. p # Malformed
  BY <1>1 DEF Malformed, Packet
<1>3. ClientAccepts(p) /\ ServerAccepts(p)
  BY <1>1, <1>2 DEF ClientAccepts, ClientReceivable, ServerAccepts, ServerReceivable, Code
<1>4. QED
  BY <1>1, <1>3 DEF Sendable, Fits, p

-----------------------------------------------------------------------------
\* What a thread has still to write.

\* How many fragments of the packet are written, and of how many a byte is.
Written(job) == Pieces(job.ip) - Len(job.frames)
Started(job) == IF job.ip = <<>> THEN 0 ELSE IF job.at > 0 THEN Written(job) + 1 ELSE Written(job)

\* The threads of side s.
CanSend(s, w) ==
    w \in IF s = "server" THEN {"gateway", "handler", "panel"} ELSE {"send", "recv", "keepalive", "main"}

\* A thread of side s writes nothing, a control packet, or the rest of an IP packet.
GoodJob(s, w, job) ==
    /\ job \in [frames : Seq(Sendable(s)), ip : Seq(Octets), at : Nat]
    /\ job.frames = <<>> => job = Done
    /\ job.frames # <<>> => CanSend(s, w) /\ job.at < Len(Bytes(job.frames[1]))
    /\ job.ip = <<>> => \A i \in 1..Len(job.frames) : job.frames[i].code # Code.DATA
    /\ job.ip # <<>> =>
          /\ w = Data[s]
          /\ Written(job) \in 0..(Pieces(job.ip) - 1)
          /\ job.frames = Rest(job.ip, Written(job))

\* A thread with nothing to write.
LEMMA DoneIsGood == ASSUME NEW s, NEW w PROVE GoodJob(s, w, Done) /\ Started(Done) = 0
<1>1. Done = [frames |-> <<>>, ip |-> <<>>, at |-> 0]
  BY DEF Done, Job
<1>2. <<>> \in Seq(Sendable(s)) /\ <<>> \in Seq(Octets) /\ 0 \in Nat
  OBVIOUS
<1>3. Done.frames = <<>> /\ Done.ip = <<>>
  BY <1>1
<1>4. Done \in [frames : Seq(Sendable(s)), ip : Seq(Octets), at : Nat]
  BY <1>1, <1>2
<1>5. \A i \in 1..Len(Done.frames) : Done.frames[i].code # Code.DATA
  BY <1>3
<1>6. QED
  BY <1>3, <1>4, <1>5 DEF GoodJob, Started

\* The packet a thread is writing.
LEMMA FrameFacts ==
    ASSUME NEW s, NEW w, NEW job, GoodJob(s, w, job), job.frames # <<>>
    PROVE  /\ job.frames[1] \in Sendable(s) /\ Fits(job.frames[1])
           /\ Bytes(job.frames[1]) \in Seq(Octets) /\ Len(Bytes(job.frames[1])) \in Nat
           /\ job.at \in 0..(Len(Bytes(job.frames[1])) - 1)
           /\ job.ip = <<>> => job.frames[1].code # Code.DATA
           /\ job.ip # <<>> => Written(job) \in 0..(Pieces(job.ip) - 1)
                               /\ job.frames[1] = Fragments(job.ip)[Written(job) + 1]
<1> DEFINE frames == job.frames
           S == Sendable(s)
<1>1. frames \in Seq(S) /\ frames # <<>> /\ job.at \in Nat /\ job.ip \in Seq(Octets)
  BY DEF GoodJob
<1>2. 1 \in 1..Len(frames)
  <2> HIDE DEF frames, S
  <2>1. QED
    BY <1>1, EmptySeq
<1>3. frames[1] \in S
  <2> HIDE DEF frames, S
  <2>1. QED
    BY <1>1, <1>2, ElementOfSeq
<1>4. Fits(frames[1])
  BY <1>3 DEF Sendable
<1>5. Bytes(frames[1]) \in Seq(Octets)
  BY <1>4, BytesFacts
<1>6. Len(Bytes(frames[1])) \in Nat
  <2> DEFINE b == Bytes(frames[1])
  <2> HIDE DEF b
  <2>1. QED
    BY <1>5, LenProperties DEF b
<1>7. job.at \in 0..(Len(Bytes(frames[1])) - 1)
  <2>1. job.at < Len(Bytes(frames[1]))
    BY <1>1 DEF GoodJob
  <2> DEFINE n == Len(Bytes(frames[1]))
             a == job.at
  <2>2. a \in Nat /\ n \in Nat /\ a < n
    BY <1>1, <1>6, <2>1
  <2> HIDE DEF n, a
  <2>3. a \in 0..(n - 1)
    BY <2>2
  <2>4. QED
    BY <2>3 DEF n, a
<1>8. job.ip = <<>> => frames[1].code # Code.DATA
  BY <1>2 DEF GoodJob
<1>9. ASSUME job.ip # <<>>
      PROVE  Written(job) \in 0..(Pieces(job.ip) - 1) /\ frames[1] = Fragments(job.ip)[Written(job) + 1]
  <2>1. job.ip \in IPPackets
    BY <1>1, <1>9 DEF IPPackets
  <2>2. Written(job) \in 0..(Pieces(job.ip) - 1) /\ frames = Rest(job.ip, Written(job))
    BY <1>9 DEF GoodJob
  <2>3. Rest(job.ip, Written(job))[1] = Fragments(job.ip)[Written(job) + 1]
    BY <2>1, <2>2, RestFacts
  <2>4. QED
    BY <2>2, <2>3
<1>10. QED
  BY <1>3, <1>4, <1>5, <1>6, <1>7, <1>8, <1>9

\* deliver and _send_loop begin with all fragments of a packet.
LEMMA DataJob ==
    ASSUME NEW s \in {"server", "client"}, NEW b \in IPPackets
    PROVE  LET job == Job(Fragments(b), b)
           IN  GoodJob(s, Data[s], job) /\ job.at = 0 /\ Started(job) = 0 /\ job.frames # <<>>
<1> DEFINE job == Job(Fragments(b), b)
<1>1. job = [frames |-> Fragments(b), ip |-> b, at |-> 0]
  BY DEF Job
<1>2. job.frames = Fragments(b) /\ job.ip = b /\ job.at = 0
  BY <1>1
<1>3. Pieces(b) \in Nat \ {0} /\ Len(Fragments(b)) = Pieces(b)
  BY PiecesFacts, FragmentFacts
<1>4. 0 \in 0..(Pieces(b) - 1)
  BY <1>3
<1>5. Rest(b, 0) = Fragments(b) /\ Rest(b, 0) # <<>> /\ Rest(b, 0)[1] = Fragments(b)[1]
  BY <1>4, RestFacts
<1>6. Fragments(b) \in Seq(Sendable(s))
  <2>1. Fragments(b) = [i \in 1..Pieces(b) |-> Fragments(b)[i]]
    BY FragmentFacts
  <2>2. \A i \in 1..Pieces(b) : Fragments(b)[i] \in Sendable(s)
    BY FragmentSendable
  <2>3. Fragments(b) \in [1..Pieces(b) -> Sendable(s)]
    BY <2>1, <2>2
  <2>4. QED
    BY <1>3, <2>3
<1>7. job \in [frames : Seq(Sendable(s)), ip : Seq(Octets), at : Nat]
  <2>1. b \in Seq(Octets) /\ 0 \in Nat
    BY DEF IPPackets
  <2>2. QED
    BY <1>1, <1>6, <2>1
<1> HIDE DEF job
<1>8. Written(job) = 0
  BY <1>2, <1>3 DEF Written
<1>9. job.frames # <<>> /\ job.ip # <<>>
  BY <1>2, <1>5 DEF IPPackets
<1>10. CanSend(s, Data[s])
  BY DEF CanSend, Data
<1>11. job.at < Len(Bytes(job.frames[1]))
  <2>1. Fits(Fragments(b)[1])
    BY <1>3, FragmentFacts
  <2>2. Len(Bytes(Fragments(b)[1])) = 4 + Len(Fragments(b)[1].payload) /\ Len(Fragments(b)[1].payload) \in Nat
    BY <2>1, BytesFacts DEF HeaderLen
  <2> DEFINE n == Len(Bytes(Fragments(b)[1]))
             m == Len(Fragments(b)[1].payload)
  <2>3. n = 4 + m /\ m \in Nat
    BY <2>2
  <2> HIDE DEF n, m
  <2>4. 0 < n
    BY <2>3
  <2>5. QED
    BY <1>2, <2>4 DEF n
<1>12. GoodJob(s, Data[s], job)
  BY <1>2, <1>4, <1>5, <1>7, <1>8, <1>9, <1>10, <1>11 DEF GoodJob
<1>13. QED
  BY <1>2, <1>8, <1>9, <1>12 DEF Started, job

\* The other sends have one packet to write.
LEMMA ControlJob ==
    ASSUME NEW s, NEW w, CanSend(s, w), NEW p \in Sendable(s), p.code # Code.DATA
    PROVE  LET job == Job(<<p>>, <<>>)
           IN  GoodJob(s, w, job) /\ job.at = 0 /\ Started(job) = 0
<1> DEFINE job == Job(<<p>>, <<>>)
<1>1. job = [frames |-> <<p>>, ip |-> <<>>, at |-> 0]
  BY DEF Job
<1>2. job.frames = <<p>> /\ job.ip = <<>> /\ job.at = 0 /\ job.frames # <<>> /\ job.frames[1] = p
  BY <1>1
<1>3. <<p>> \in Seq(Sendable(s)) /\ <<>> \in Seq(Octets)
  OBVIOUS
<1>4. job \in [frames : Seq(Sendable(s)), ip : Seq(Octets), at : Nat]
  <2> DEFINE S == Seq(Sendable(s))
             T == Seq(Octets)
             f == <<p>>
             g == <<>>
  <2>1. f \in S /\ g \in T /\ 0 \in Nat /\ job = [frames |-> f, ip |-> g, at |-> 0]
    BY <1>1, <1>3
  <2> HIDE DEF S, T, f, g, job
  <2>2. job \in [frames : S, ip : T, at : Nat]
    BY <2>1
  <2>3. QED
    BY <2>2 DEF S, T
<1>5. \A i \in 1..Len(job.frames) : job.frames[i].code # Code.DATA
  BY <1>2
<1>6. job.at < Len(Bytes(job.frames[1]))
  <2> DEFINE n == Len(Bytes(p))
             m == Len(p.payload)
  <2>1. n = 4 + m /\ m \in Nat
    BY BytesFacts DEF HeaderLen, Sendable
  <2> HIDE DEF n, m
  <2>2. 0 < n
    BY <2>1
  <2>3. QED
    BY <1>2, <2>2 DEF n
<1> HIDE DEF job
<1>7. QED
  BY <1>2, <1>4, <1>5, <1>6 DEF GoodJob, Started, job

\* A frame is written in part.
LEMMA PartJob ==
    ASSUME NEW s, NEW w, NEW job, GoodJob(s, w, job), job.frames # <<>>,
           NEW at \in Nat, at < Len(Bytes(job.frames[1])), at > 0
    PROVE  LET next == [frames |-> job.frames, at |-> at, ip |-> job.ip]
           IN  /\ GoodJob(s, w, next) /\ next.frames = job.frames /\ next.ip = job.ip /\ next.at = at
               /\ Started(next) = IF job.ip = <<>> THEN 0 ELSE Written(job) + 1
<1> DEFINE next == [frames |-> job.frames, at |-> at, ip |-> job.ip]
<1>1. next.frames = job.frames /\ next.ip = job.ip /\ next.at = at
  OBVIOUS
<1>2. next \in [frames : Seq(Sendable(s)), ip : Seq(Octets), at : Nat]
  BY DEF GoodJob
<1> HIDE DEF next
<1>3. Written(next) = Written(job)
  BY <1>1 DEF Written
<1>4. GoodJob(s, w, next)
  BY <1>1, <1>2, <1>3 DEF GoodJob
<1>5. Started(next) = IF job.ip = <<>> THEN 0 ELSE Written(job) + 1
  BY <1>1, <1>3 DEF Started
<1>6. QED
  BY <1>1, <1>4, <1>5 DEF next

\* A frame is written to its end, and it was not the last one.
LEMMA NextJob ==
    ASSUME NEW s, NEW w, NEW job, GoodJob(s, w, job), job.frames # <<>>, Tail(job.frames) # <<>>
    PROVE  LET next == [frames |-> Tail(job.frames), at |-> 0, ip |-> job.ip]
           IN  /\ GoodJob(s, w, next) /\ next.frames = Tail(job.frames) /\ next.ip = job.ip /\ next.at = 0
               /\ Started(next) = IF job.ip = <<>> THEN 0 ELSE Written(job) + 1
               /\ job.ip # <<>> => Written(job) + 1 < Pieces(job.ip)
<1> DEFINE next == [frames |-> Tail(job.frames), at |-> 0, ip |-> job.ip]
           S == Sendable(s)
           frames == job.frames
<1>1. next.frames = Tail(frames) /\ next.ip = job.ip /\ next.at = 0
  OBVIOUS
<1>2. frames \in Seq(S) /\ job.ip \in Seq(Octets)
  BY DEF GoodJob
<1>3. /\ Tail(frames) \in Seq(S) /\ Len(frames) \in Nat /\ Len(Tail(frames)) = Len(frames) - 1
      /\ \A i \in 1..Len(Tail(frames)) : Tail(frames)[i] = frames[i + 1]
  <2> HIDE DEF S, frames
  <2>1. QED
    BY <1>2, HeadTailProperties, LenProperties DEF frames
<1>4. next \in [frames : Seq(S), ip : Seq(Octets), at : Nat]
  BY <1>2, <1>3
<1> HIDE DEF next
<1>5. next.at < Len(Bytes(next.frames[1]))
  <2>1. 1 \in 1..Len(Tail(frames))
    BY <1>3, EmptySeq
  <2>2. Tail(frames)[1] \in S
    <3> HIDE DEF S, frames
    <3>1. QED
      BY <1>3, <2>1, ElementOfSeq
  <2>3. Fits(Tail(frames)[1])
    BY <2>2 DEF Sendable
  <2> DEFINE n == Len(Bytes(Tail(frames)[1]))
             m == Len(Tail(frames)[1].payload)
  <2>4. n = 4 + m /\ m \in Nat
    BY <2>3, BytesFacts DEF HeaderLen
  <2> HIDE DEF n, m
  <2>5. 0 < n
    BY <2>4
  <2>6. QED
    BY <1>1, <2>5 DEF n
<1>6. ASSUME job.ip # <<>>
      PROVE  /\ Written(next) = Written(job) + 1 /\ Written(job) + 1 \in 0..(Pieces(job.ip) - 1)
             /\ Tail(frames) = Rest(job.ip, Written(job) + 1) /\ w = Data[s]
  <2>1. job.ip \in IPPackets
    BY <1>2, <1>6 DEF IPPackets
  <2>2. Written(job) \in 0..(Pieces(job.ip) - 1) /\ frames = Rest(job.ip, Written(job)) /\ w = Data[s]
    BY <1>6 DEF GoodJob
  <2>3. Tail(frames) = IF Written(job) + 1 = Pieces(job.ip) THEN <<>> ELSE Rest(job.ip, Written(job) + 1)
    BY <2>1, <2>2, RestFacts
  <2>4. Written(job) + 1 # Pieces(job.ip) /\ Pieces(job.ip) \in Nat
    BY <2>1, <2>3, PiecesFacts
  <2>5. Written(next) = Written(job) + 1
    <3> DEFINE n == Len(frames)
               t == Len(Tail(frames))
               p == Pieces(job.ip)
    <3>1. Written(job) = p - n /\ Written(next) = p - t
      BY <1>1 DEF Written
    <3>2. t = n - 1 /\ n \in Nat /\ p \in Nat
      BY <1>3, <2>4
    <3> HIDE DEF n, t, p
    <3>3. QED
      BY <3>1, <3>2
  <2>6. QED
    BY <2>2, <2>3, <2>4, <2>5
<1>7. ASSUME job.ip = <<>>, NEW i \in 1..Len(next.frames)
      PROVE  next.frames[i].code # Code.DATA
  <2> DEFINE n == Len(frames)
             t == Len(Tail(frames))
  <2>1. t = n - 1 /\ n \in Nat /\ i \in 1..t
    BY <1>1, <1>3, <1>7
  <2> HIDE DEF n, t
  <2>2. i + 1 \in 1..n
    BY <2>1
  <2>3. next.frames[i] = frames[i + 1]
    BY <1>1, <1>3, <1>7
  <2>4. frames[i + 1].code # Code.DATA
    BY <1>7, <2>2 DEF GoodJob, n
  <2>5. QED
    BY <2>3, <2>4
<1>8. GoodJob(s, w, next)
  <2>1. CanSend(s, w)
    BY DEF GoodJob
  <2>2. next.frames # <<>>
    BY <1>1
  <2>3. next.ip # <<>> => /\ w = Data[s] /\ Written(next) \in 0..(Pieces(next.ip) - 1)
                          /\ next.frames = Rest(next.ip, Written(next))
    BY <1>1, <1>6
  <2>4. next.ip = <<>> => \A i \in 1..Len(next.frames) : next.frames[i].code # Code.DATA
    BY <1>1, <1>7
  <2>5. QED
    BY <1>4, <1>5, <2>1, <2>2, <2>3, <2>4 DEF GoodJob
<1>9. job.ip # <<>> => Written(job) + 1 < Pieces(job.ip)
  <2>1. ASSUME job.ip # <<>> PROVE Written(job) + 1 < Pieces(job.ip)
    <3>1. Pieces(job.ip) \in Nat
      BY <1>2, <2>1, PiecesFacts DEF IPPackets
    <3>2. Written(job) + 1 \in 0..(Pieces(job.ip) - 1)
      BY <1>6, <2>1
    <3>3. QED
      BY <3>1, <3>2
  <2>2. QED
    BY <2>1
<1>10. Started(next) = IF job.ip = <<>> THEN 0 ELSE Written(job) + 1
  BY <1>1, <1>6 DEF Started
<1>11. QED
  BY <1>1, <1>8, <1>9, <1>10 DEF next

\* The last frame is written to its end.
LEMMA LastJob ==
    ASSUME NEW s, NEW w, NEW job, GoodJob(s, w, job), job.frames # <<>>, Tail(job.frames) = <<>>, job.ip # <<>>
    PROVE  Written(job) + 1 = Pieces(job.ip)
<1>1. job.ip \in IPPackets /\ Written(job) \in 0..(Pieces(job.ip) - 1) /\ job.frames = Rest(job.ip, Written(job))
  BY DEF GoodJob, IPPackets
<1>2. Tail(job.frames) = IF Written(job) + 1 = Pieces(job.ip) THEN <<>> ELSE Rest(job.ip, Written(job) + 1)
  BY <1>1, RestFacts
<1>3. SUFFICES ASSUME Written(job) + 1 # Pieces(job.ip) PROVE FALSE
  OBVIOUS
<1>4. Written(job) + 1 \in 0..(Pieces(job.ip) - 1)
  <2> DEFINE q == Written(job)
             n == Pieces(job.ip)
  <2>1. n \in Nat \ {0} /\ q \in 0..(n - 1) /\ q + 1 # n
    BY <1>1, <1>3, PiecesFacts
  <2> HIDE DEF q, n
  <2>2. q + 1 \in 0..(n - 1)
    BY <2>1
  <2>3. QED
    BY <2>2 DEF q, n
<1>5. Rest(job.ip, Written(job) + 1) # <<>>
  BY <1>1, <1>4, RestFacts
<1>6. QED
  BY <1>2, <1>3, <1>5

-----------------------------------------------------------------------------
\* The stream: packets laid one after another.

LaidAt(s, d, off) ==
    /\ off[1] = 0
    /\ \A i \in 1..Len(d) : off[i + 1] = off[i] + Len(Bytes(d[i]))
    /\ \A i, k \in 1..(Len(d) + 1) : i <= k => off[i] <= off[k]
    /\ \A i \in 1..Len(d) : \A j \in 1..Len(Bytes(d[i])) :
          off[i] + j <= Len(s) => s[off[i] + j] = Bytes(d[i])[j]
    /\ Len(s) <= off[Len(d) + 1]

\* The packets of d are e bytes long, and s is the first of these bytes.
Laid(s, d, e) ==
    \E off \in [1..(Len(d) + 1) -> Nat] : LaidAt(s, d, off) /\ off[Len(d) + 1] = e

\* Nothing laid.
LEMMA LaidNothing == Laid(<<>>, <<>>, 0)
<1> DEFINE off == [i \in 1..1 |-> 0]
<1>1. Len(<<>>) = 0
  OBVIOUS
<1>2. off \in [1..(Len(<<>>) + 1) -> Nat] /\ off[1] = 0
  BY <1>1
<1>3. LaidAt(<<>>, <<>>, off)
  BY <1>1, <1>2 DEF LaidAt
<1>4. QED
  BY <1>1, <1>2, <1>3 DEF Laid

\* A sequence of packets and the bytes of each.
LEMMA PacketSeq ==
    ASSUME NEW S, \A p \in S : Fits(p), NEW d \in Seq(S)
    PROVE  /\ Len(d) \in Nat
           /\ \A i \in 1..Len(d) : /\ d[i] \in S /\ Bytes(d[i]) \in Seq(Octets)
                                   /\ Len(Bytes(d[i])) = 4 + Len(d[i].payload)
                                   /\ Len(Bytes(d[i])) \in Nat /\ 4 <= Len(Bytes(d[i]))
<1>1. Len(d) \in Nat
  BY LenProperties
<1>2. ASSUME NEW i \in 1..Len(d)
      PROVE  /\ d[i] \in S /\ Bytes(d[i]) \in Seq(Octets) /\ Len(Bytes(d[i])) = 4 + Len(d[i].payload)
             /\ Len(Bytes(d[i])) \in Nat /\ 4 <= Len(Bytes(d[i]))
  <2>1. d[i] \in S
    BY ElementOfSeq
  <2>2. Bytes(d[i]) \in Seq(Octets) /\ Len(Bytes(d[i])) = 4 + Len(d[i].payload) /\ Len(d[i].payload) \in Nat
    BY <2>1, BytesFacts DEF HeaderLen
  <2> DEFINE n == Len(Bytes(d[i]))
             m == Len(d[i].payload)
  <2>3. n = 4 + m /\ m \in Nat
    BY <2>2
  <2> HIDE DEF n, m
  <2>4. n \in Nat /\ 4 <= n
    BY <2>3
  <2>5. QED
    BY <2>1, <2>2, <2>4 DEF n
<1>3. QED
  BY <1>1, <1>2

\* What is lost behind s does not matter to it.
LEMMA LaidPrefix ==
    ASSUME NEW S, \A p \in S : Fits(p), NEW d \in Seq(S),
           NEW s \in Seq(Octets), NEW t \in Seq(Octets), NEW e, Laid(s \o t, d, e)
    PROVE  Laid(s, d, e)
<1> DEFINE n == Len(d)
           v == s \o t
<1>0. n \in Nat /\ \A i \in 1..n : Len(Bytes(d[i])) \in Nat
  BY PacketSeq
<1>1. PICK off \in [1..(n + 1) -> Nat] : LaidAt(v, d, off) /\ off[n + 1] = e
  BY DEF Laid
<1>2. /\ Len(v) = Len(s) + Len(t) /\ Len(s) \in Nat /\ Len(t) \in Nat
      /\ \A x \in 1..(Len(s) + Len(t)) : v[x] = IF x <= Len(s) THEN s[x] ELSE t[x - Len(s)]
  BY ConcatProperties, LenProperties
<1>3. /\ off[1] = 0
      /\ \A i \in 1..n : off[i + 1] = off[i] + Len(Bytes(d[i]))
      /\ \A i, k \in 1..(n + 1) : i <= k => off[i] <= off[k]
      /\ \A i \in 1..n : \A j \in 1..Len(Bytes(d[i])) : off[i] + j <= Len(v) => v[off[i] + j] = Bytes(d[i])[j]
      /\ Len(v) <= off[n + 1]
  BY <1>1 DEF LaidAt
<1> HIDE DEF v
<1>4. Len(s) <= off[n + 1]
  <2>1. off[n + 1] \in Nat
    BY <1>0
  <2> DEFINE z == off[n + 1]
  <2>2. z \in Nat /\ Len(v) <= z
    BY <2>1, <1>3
  <2> HIDE DEF z, n
  <2>3. Len(s) <= z
    BY <2>2, <1>2
  <2>4. QED
    BY <2>3 DEF z
<1>5. ASSUME NEW i \in 1..n, NEW j \in 1..Len(Bytes(d[i])), off[i] + j <= Len(s)
      PROVE  s[off[i] + j] = Bytes(d[i])[j]
  <2>1. off[i] \in Nat /\ Len(Bytes(d[i])) \in Nat
    <3>1. Len(Bytes(d[i])) \in Nat
      BY <1>0
    <3> HIDE DEF n
    <3>2. i \in 1..(n + 1)
      BY <1>0
    <3>3. QED
      BY <3>1, <3>2
  <2> DEFINE x == off[i] + j
             m == Len(Bytes(d[i]))
             o == off[i]
  <2>2. x <= Len(v) => v[x] = Bytes(d[i])[j]
    BY <1>3
  <2>3. o \in Nat /\ m \in Nat /\ j \in 1..m /\ x = o + j /\ x <= Len(s)
    BY <2>1, <1>5
  <2> HIDE DEF x, m, o, n
  <2>4. x \in 1..(Len(s) + Len(t)) /\ x <= Len(v)
    BY <2>3, <1>2
  <2>5. QED
    BY <2>2, <2>3, <2>4, <1>2 DEF x
<1>6. LaidAt(s, d, off)
  BY <1>3, <1>4, <1>5 DEF LaidAt
<1>7. QED
  BY <1>1, <1>6 DEF Laid

\* A packet is due behind those that are written to the end.
LEMMA LaidNext ==
    ASSUME NEW S, \A p \in S : Fits(p), NEW d \in Seq(S), NEW s \in Seq(Octets),
           Laid(s, d, Len(s)), NEW p \in S
    PROVE  Laid(s, Append(d, p), Len(s) + Len(Bytes(p)))
<1> DEFINE n == Len(d)
           d2 == Append(d, p)
           m == Len(Bytes(p))
<1>0. n \in Nat /\ \A i \in 1..n : Len(Bytes(d[i])) \in Nat
  BY PacketSeq
<1>1. PICK off \in [1..(n + 1) -> Nat] : LaidAt(s, d, off) /\ off[n + 1] = Len(s)
  BY DEF Laid
<1>2. d2 \in Seq(S) /\ Len(d2) = n + 1 /\ (\A i \in 1..n : d2[i] = d[i]) /\ d2[n + 1] = p
  BY AppendProperties
<1>3. m \in Nat /\ Len(s) \in Nat
  <2>1. n + 1 \in 1..(n + 1)
    BY <1>0
  <2>2. Len(Bytes(d2[n + 1])) \in Nat
    BY <1>2, <2>1, PacketSeq
  <2>3. QED
    BY <1>2, <2>2, LenProperties
<1> DEFINE off2 == [i \in 1..(n + 2) |-> IF i = n + 2 THEN Len(s) + m ELSE off[i]]
<1> HIDE DEF d2, m
<1>4. off2 \in [1..(n + 2) -> Nat] /\ off2[n + 2] = Len(s) + m /\ \A i \in 1..(n + 1) : off2[i] = off[i]
  BY <1>0, <1>3
<1> HIDE DEF off2, n
<1>5. /\ off[1] = 0
      /\ \A i \in 1..n : off[i + 1] = off[i] + Len(Bytes(d[i]))
      /\ \A i, k \in 1..(n + 1) : i <= k => off[i] <= off[k]
      /\ \A i \in 1..n : \A j \in 1..Len(Bytes(d[i])) : off[i] + j <= Len(s) => s[off[i] + j] = Bytes(d[i])[j]
      /\ off[n + 1] = Len(s)
  BY <1>1 DEF LaidAt, n
<1>6. off2[1] = 0
  BY <1>0, <1>4, <1>5
<1>7. ASSUME NEW i \in 1..(n + 1) PROVE off2[i + 1] = off2[i] + Len(Bytes(d2[i]))
  <2>1. CASE i = n + 1
    <3>1. off2[i] = Len(s) /\ off2[i + 1] = Len(s) + m /\ Len(Bytes(d2[i])) = m
      BY <2>1, <1>0, <1>2, <1>4, <1>5 DEF m
    <3>2. QED
      BY <3>1
  <2>2. CASE i # n + 1
    <3>1. i \in 1..n /\ i \in 1..(n + 1) /\ i + 1 \in 1..(n + 1)
      BY <2>2, <1>0
    <3>2. off2[i] = off[i] /\ off2[i + 1] = off[i + 1] /\ d2[i] = d[i]
      BY <3>1, <1>2, <1>4
    <3>3. QED
      BY <3>1, <3>2, <1>5
  <2>3. QED
    BY <2>1, <2>2
<1>8. ASSUME NEW i \in 1..(n + 2), NEW k \in 1..(n + 2), i <= k PROVE off2[i] <= off2[k]
  <2>1. CASE k # n + 2
    <3>1. i \in 1..(n + 1) /\ k \in 1..(n + 1)
      BY <2>1, <1>0, <1>8
    <3>2. QED
      BY <3>1, <1>4, <1>5, <1>8
  <2>2. CASE k = n + 2 /\ i # n + 2
    <3>1. i \in 1..(n + 1) /\ n + 1 \in 1..(n + 1) /\ i <= n + 1
      BY <2>2, <1>0
    <3>2. off[i] <= off[n + 1] /\ off2[i] = off[i]
      BY <3>1, <1>4, <1>5
    <3>3. off[i] \in Nat
      BY <3>1
    <3>4. QED
      BY <2>2, <3>2, <3>3, <1>3, <1>4, <1>5
  <2>3. CASE k = n + 2 /\ i = n + 2
    BY <2>3, <1>3, <1>4
  <2>4. QED
    BY <2>1, <2>2, <2>3
<1>9. ASSUME NEW i \in 1..(n + 1), NEW j \in 1..Len(Bytes(d2[i])), off2[i] + j <= Len(s)
      PROVE  s[off2[i] + j] = Bytes(d2[i])[j]
  <2>1. CASE i = n + 1
    <3>1. off2[i] = Len(s)
      BY <2>1, <1>0, <1>4, <1>5
    <3>2. j \in 1..m
      BY <2>1, <1>2, <1>9 DEF m
    <3>3. FALSE
      BY <3>1, <3>2, <1>3, <1>9
    <3>4. QED
      BY <3>3
  <2>2. CASE i # n + 1
    <3>1. i \in 1..n /\ i \in 1..(n + 1)
      BY <2>2, <1>0
    <3>2. off2[i] = off[i] /\ d2[i] = d[i]
      BY <3>1, <1>2, <1>4
    <3>3. QED
      BY <3>1, <3>2, <1>5, <1>9
  <2>3. QED
    BY <2>1, <2>2
<1>10. Len(s) <= off2[n + 2]
  BY <1>3, <1>4
<1>11. LaidAt(s, d2, off2)
  <2>1. Len(d2) = n + 1 /\ Len(d2) + 1 = n + 2
    BY <1>0, <1>2
  <2>2. QED
    BY <2>1, <1>6, <1>7, <1>8, <1>9, <1>10 DEF LaidAt
<1>12. Len(d2) + 1 = n + 2
  BY <1>0, <1>2
<1>13. off2 \in [1..(Len(d2) + 1) -> Nat] /\ off2[Len(d2) + 1] = Len(s) + m
  BY <1>4, <1>12
<1>14. Laid(s, d2, Len(s) + m)
  BY <1>11, <1>13 DEF Laid
<1>15. QED
  BY <1>14 DEF d2, m

\* Bytes of the last packet are written.
LEMMA LaidOn ==
    ASSUME NEW S, \A p \in S : Fits(p), NEW d \in Seq(S), d # <<>>, NEW s \in Seq(Octets),
           NEW e, NEW at \in Nat, NEW k \in Nat,
           at + k <= Len(Bytes(d[Len(d)])),
           Laid(s, d, e), e = Len(s) + Len(Bytes(d[Len(d)])) - at
    PROVE  Laid(s \o SubSeq(Bytes(d[Len(d)]), at + 1, at + k), d, e)
<1> DEFINE n == Len(d)
           b == Bytes(d[n])
           m == Len(b)
           t == SubSeq(b, at + 1, at + k)
           v == s \o t
<1>0. n \in Nat /\ (\A i \in 1..n : Len(Bytes(d[i])) \in Nat) /\ n \in 1..n
  <2>1. n # 0
    BY EmptySeq
  <2>2. QED
    BY <2>1, PacketSeq
<1>1. b \in Seq(Octets) /\ m \in Nat
  BY <1>0, PacketSeq
<1>2. PICK off \in [1..(n + 1) -> Nat] : LaidAt(s, d, off) /\ off[n + 1] = e
  BY DEF Laid
<1>3. at + k <= m /\ e = Len(s) + m - at /\ Len(s) \in Nat
  BY LenProperties
<1> HIDE DEF b
<1>4. t \in Seq(Octets) /\ Len(t) = k /\ \A x \in 1..k : t[x] = b[at + x]
  <2> HIDE DEF t, n
  <2> USE DEF t
  <2>1. CASE k = 0
    <3>1. t = <<>>
      <4>1. at + k < at + 1
        BY <2>1
      <4>2. at + 1 \in Int /\ at + k \in Int
        OBVIOUS
      <4>3. QED
        BY <4>1, <4>2, <1>1, SubSeqEmpty
    <3>2. QED
      BY <3>1, <2>1
  <2>2. CASE k # 0
    <3> DEFINE lo == at + 1
               hi == at + k
    <3>1. lo \in 1..m /\ hi \in 1..m /\ hi - lo + 1 = k /\ lo \in 1..(m + 1) /\ hi \in lo-1..m /\ lo \in Int
          /\ \A x \in 1..k : lo + x - 1 = at + x
      BY <2>2, <1>1, <1>3
    <3> HIDE DEF lo, hi
    <3>2. SubSeq(b, lo, hi) \in Seq(Octets) /\ Len(SubSeq(b, lo, hi)) = hi - lo + 1
          /\ \A x \in 1..(hi - lo + 1) : SubSeq(b, lo, hi)[x] = b[lo + x - 1]
      BY <3>1, <1>1, SubSeqProperties
    <3>3. QED
      BY <3>1, <3>2 DEF lo, hi
  <2>3. QED
    BY <2>1, <2>2
<1> HIDE DEF t
<1>5. /\ v \in Seq(Octets) /\ Len(v) = Len(s) + k
      /\ \A x \in 1..(Len(s) + k) : v[x] = IF x <= Len(s) THEN s[x] ELSE t[x - Len(s)]
  BY <1>4, ConcatProperties
<1> HIDE DEF v
<1>6. /\ off[1] = 0
      /\ \A i \in 1..n : off[i + 1] = off[i] + Len(Bytes(d[i]))
      /\ \A i, x \in 1..(n + 1) : i <= x => off[i] <= off[x]
      /\ \A i \in 1..n : \A j \in 1..Len(Bytes(d[i])) : off[i] + j <= Len(s) => s[off[i] + j] = Bytes(d[i])[j]
      /\ off[n + 1] = e
  BY <1>2 DEF LaidAt
<1> HIDE DEF n
<1>7. off[n] \in Nat /\ off[n] + m = e
  <2>1. n \in 1..(n + 1)
    BY <1>0
  <2>2. off[n] \in Nat
    BY <2>1
  <2>3. off[n + 1] = off[n] + m
    BY <1>0, <1>6 DEF n, b
  <2>4. QED
    BY <2>2, <2>3, <1>6
<1> HIDE DEF m
<1>8. Len(s) = off[n] + at
  BY <1>1, <1>3, <1>7, SMTT(30)
<1>9. Len(v) <= off[n + 1]
  BY <1>1, <1>3, <1>5, <1>6
<1>10. ASSUME NEW i \in 1..n, NEW j \in 1..Len(Bytes(d[i])), off[i] + j <= Len(v)
       PROVE  v[off[i] + j] = Bytes(d[i])[j]
  <2> DEFINE o == off[i]
             l == Len(Bytes(d[i]))
  <2>1. i \in 1..(n + 1) /\ i + 1 \in 1..(n + 1)
    BY <1>0
  <2>2. o \in Nat /\ l \in Nat /\ j \in 1..l /\ off[i + 1] = o + l
    BY <2>1, <1>0, <1>6
  <2>3. o + j \in Nat /\ o + j <= Len(v) /\ (o + j <= Len(s) => s[o + j] = Bytes(d[i])[j])
    BY <2>2, <1>6, <1>10, SMTT(30)
  <2> HIDE DEF o, l
  <2>4. CASE o + j <= Len(s)
    <3> DEFINE y == Len(s)
    <3>0. y \in Nat /\ o + j <= y
      BY <2>4, <1>3
    <3> HIDE DEF y
    <3>1. o + j \in 1..(y + k)
      BY <2>2, <3>0
    <3> DEFINE x == o + j
    <3>2. s[x] = Bytes(d[i])[j] /\ x \in 1..(Len(s) + k) /\ x <= Len(s)
      BY <3>1, <2>3, <2>4 DEF y
    <3> HIDE DEF x
    <3>3. v[x] = s[x]
      BY <3>2, <1>5
    <3>4. QED
      BY <3>2, <3>3 DEF x, o
  <2>5. CASE ~(o + j <= Len(s))
    <3>1. i = n
      <4>1. SUFFICES ASSUME i # n PROVE FALSE
        OBVIOUS
      <4>2. i + 1 <= n /\ n \in 1..(n + 1)
        BY <4>1, <1>0
      <4>3. off[i + 1] <= off[n]
        BY <4>2, <2>1, <1>6
      <4> DEFINE z == off[n]
      <4>4. o + l <= z /\ z \in Nat /\ Len(s) = z + at
        BY <4>3, <2>2, <1>7, <1>8
      <4> HIDE DEF z
      <4>5. QED
        BY <4>4, <2>2, <2>5
    <3>2. o = off[n] /\ l = m /\ Bytes(d[i]) = b
      BY <3>1 DEF o, l, m, b, n
    <3> DEFINE z == off[n]
               x == o + j
    <3>3. z \in Nat /\ Len(s) = z + at /\ o = z
      BY <3>2, <1>7, <1>8
    <3> HIDE DEF z, x
    <3>4. x \in 1..(Len(s) + k) /\ ~(x <= Len(s)) /\ x - Len(s) = j - at /\ j - at \in 1..k /\ at + (j - at) = j
      BY <3>3, <2>2, <2>3, <2>5, <1>3, <1>5 DEF x
    <3>5. v[x] = t[j - at] /\ t[j - at] = b[at + (j - at)]
      BY <3>4, <1>4, <1>5
    <3>6. QED
      BY <3>2, <3>4, <3>5 DEF x, o
  <2>6. QED
    BY <2>4, <2>5
<1>11. LaidAt(v, d, off)
  BY <1>6, <1>9, <1>10 DEF LaidAt, n
<1>12. Laid(v, d, e)
  BY <1>2, <1>6, <1>11 DEF Laid, n
<1>13. QED
  BY <1>12 DEF v, t, b, n

\* What a part of a sequence holds.
LEMMA PartFacts ==
    ASSUME NEW S, NEW b \in Seq(S), NEW lo \in Nat \ {0}, NEW hi \in Nat, lo <= hi + 1, hi <= Len(b)
    PROVE  /\ SubSeq(b, lo, hi) \in Seq(S) /\ Len(SubSeq(b, lo, hi)) = hi - lo + 1
           /\ \A x \in 1..(hi - lo + 1) : SubSeq(b, lo, hi)[x] = b[lo + x - 1]
<1>1. Len(b) \in Nat
  BY LenProperties
<1>2. CASE lo = hi + 1
  <2>1. SubSeq(b, lo, hi) = <<>>
    BY <1>2, SubSeqEmpty
  <2>2. hi - lo + 1 = 0
    BY <1>2
  <2>3. QED
    BY <2>1, <2>2
<1>3. CASE lo # hi + 1
  <2>1. lo \in 1..Len(b) /\ hi \in lo-1..Len(b) /\ hi \in 1..Len(b) /\ lo \in 1..(Len(b) + 1)
    BY <1>1, <1>3
  <2>2. QED
    BY <2>1, SubSeqProperties
<1>4. QED
  BY <1>2, <1>3

\* How many bytes of payload the header at the head of b announces.
Announced(b) == LET header == Decode(SubSeq(b, 1, HeaderLen)) IN 256 * header[1] + header[2]

\* The length is in the first two bytes.
LEMMA AnnouncedFacts ==
    ASSUME NEW b \in Seq(Octets), 4 <= Len(b)
    PROVE  /\ Announced(b) = 256 * ((b[1] - Shift) % 256) + ((b[2] - Shift) % 256)
           /\ Announced(b) \in Nat
<1> DEFINE h == SubSeq(b, 1, 4)
<1>1. Len(b) \in Nat
  BY LenProperties
<1>2. h \in Seq(Octets) /\ Len(h) = 4 /\ h[1] = b[1] /\ h[2] = b[2]
  <2>1. 1 <= 4 + 1 /\ 4 <= Len(b) /\ 1 \in Nat \ {0} /\ 4 \in Nat /\ 4 - 1 + 1 = 4
    OBVIOUS
  <2>2. h \in Seq(Octets) /\ Len(h) = 4 - 1 + 1 /\ \A x \in 1..(4 - 1 + 1) : h[x] = b[1 + x - 1]
    BY <2>1, PartFacts
  <2>3. 1 \in 1..(4 - 1 + 1) /\ 2 \in 1..(4 - 1 + 1) /\ 1 + 1 - 1 = 1 /\ 1 + 2 - 1 = 2
    OBVIOUS
  <2> HIDE DEF h
  <2>4. h[1] = b[1 + 1 - 1] /\ h[2] = b[1 + 2 - 1]
    BY <2>2, <2>3
  <2>5. QED
    BY <2>2, <2>3, <2>4
<1> HIDE DEF h
<1>3. 1 \in 1..Len(h) /\ 2 \in 1..Len(h) /\ 1 \in 1..Len(b) /\ 2 \in 1..Len(b)
  BY <1>1, <1>2
<1>4. Decode(h)[1] = (b[1] - Shift) % 256 /\ Decode(h)[2] = (b[2] - Shift) % 256
  BY <1>2, <1>3, DecodeFacts
<1>5. b[1] \in Octets /\ b[2] \in Octets
  BY <1>3, ElementOfSeq
<1>6. Announced(b) = 256 * Decode(h)[1] + Decode(h)[2]
  BY DEF Announced, HeaderLen, h
<1>7. (b[1] - Shift) % 256 \in Nat /\ (b[2] - Shift) % 256 \in Nat
  <2>1. \A o \in Octets : (o - Shift) % 256 \in Nat
    BY DEF Octets, Shift
  <2>2. QED
    BY <2>1, <1>5
<1> DEFINE x == (b[1] - Shift) % 256
           y == (b[2] - Shift) % 256
<1>8. x \in Nat /\ y \in Nat /\ Announced(b) = 256 * x + y
  BY <1>4, <1>6, <1>7
<1> HIDE DEF x, y
<1>9. Announced(b) \in Nat
  BY <1>8
<1>10. QED
  BY <1>8, <1>9 DEF x, y

\* The packet at the head of the stream is the first one that is due.
LEMMA LaidHead ==
    ASSUME NEW S, \A p \in S : Fits(p), NEW d \in Seq(S),
           NEW b \in Seq(Octets), NEW t \in Seq(Octets), NEW e, Laid(b \o t, d, e),
           4 <= Len(b), 4 + Announced(b) <= Len(b)
    PROVE  /\ d # <<>> /\ Announced(b) = Len(d[1].payload) /\ Announced(b) \in Nat
           /\ SubSeq(b, 1, 4 + Announced(b)) = Bytes(d[1])
           /\ Opened(Decode(SubSeq(b, 1, 4 + Announced(b)))) = d[1]
<1> DEFINE n == Len(d)
           v == b \o t
           w == Bytes(d[1])
           m == Len(w)
<1>0. n \in Nat /\ Len(b) \in Nat /\ Len(t) \in Nat
  BY LenProperties
<1>1. PICK off \in [1..(n + 1) -> Nat] : LaidAt(v, d, off) /\ off[n + 1] = e
  BY DEF Laid
<1>2. /\ Len(v) = Len(b) + Len(t)
      /\ \A x \in 1..(Len(b) + Len(t)) : v[x] = IF x <= Len(b) THEN b[x] ELSE t[x - Len(b)]
  BY ConcatProperties
<1> HIDE DEF v
<1>3. /\ off[1] = 0
      /\ \A i \in 1..n : \A j \in 1..Len(Bytes(d[i])) : off[i] + j <= Len(v) => v[off[i] + j] = Bytes(d[i])[j]
      /\ Len(v) <= off[n + 1]
  BY <1>1 DEF LaidAt
<1>4. 1 \in 1..n /\ d # <<>>
  <2> HIDE DEF n
  <2>1. n # 0
    BY <1>0, <1>2, <1>3
  <2>2. 1 \in 1..n
    BY <2>1, <1>0
  <2>3. d # <<>>
    BY <2>1 DEF n
  <2>4. QED
    BY <2>2, <2>3
<1>5. /\ Fits(d[1]) /\ w \in Seq(Octets) /\ m \in Nat /\ 4 <= m /\ m = 4 + Len(d[1].payload)
      /\ Len(d[1].payload) \in Nat
      /\ Opened(Decode(w)) = d[1]
      /\ 256 * ((w[1] - Shift) % 256) + ((w[2] - Shift) % 256) = Len(d[1].payload)
  <2>1. d[1] \in S /\ w \in Seq(Octets) /\ m \in Nat /\ 4 <= m /\ m = 4 + Len(d[1].payload)
    BY <1>4, PacketSeq
  <2>2. QED
    BY <2>1, BytesFacts
<1> HIDE DEF w, m
<1>6. ASSUME NEW j \in 1..m, j <= Len(b) PROVE b[j] = w[j]
  <2>1. off[1] + j <= Len(v) => v[off[1] + j] = w[j]
    BY <1>3, <1>4, <1>6 DEF w, m
  <2>2. off[1] + j = j /\ j <= Len(v) /\ j \in 1..(Len(b) + Len(t))
    BY <1>0, <1>2, <1>3, <1>5, <1>6
  <2>3. v[j] = b[j]
    BY <2>2, <1>2, <1>6
  <2>4. QED
    BY <2>1, <2>2, <2>3
<1>7. b[1] = w[1] /\ b[2] = w[2]
  <2>1. 1 \in 1..m /\ 2 \in 1..m /\ 1 <= Len(b) /\ 2 <= Len(b)
    BY <1>0, <1>5, SMTT(30)
  <2>2. QED
    BY <2>1, <1>6
<1>8. Announced(b) = Len(d[1].payload)
  <2>1. Announced(b) = 256 * ((b[1] - Shift) % 256) + ((b[2] - Shift) % 256)
    BY AnnouncedFacts
  <2>2. Announced(b) = 256 * ((w[1] - Shift) % 256) + ((w[2] - Shift) % 256)
    BY <1>7, <2>1, SMTT(30)
  <2>3. QED
    BY <1>5, <2>2, Zenon
<1>9. 4 + Announced(b) = m /\ m <= Len(b)
  BY <1>5, <1>8
<1>10. SubSeq(b, 1, m) = w
  <2> DEFINE h == SubSeq(b, 1, m)
  <2>1. m - 1 + 1 = m /\ 1 <= m + 1 /\ 1 \in Nat \ {0}
    BY <1>5
  <2>2. h \in Seq(Octets) /\ Len(h) = m /\ \A x \in 1..m : h[x] = b[1 + x - 1]
    <3>1. h \in Seq(Octets) /\ Len(h) = m - 1 + 1 /\ \A x \in 1..(m - 1 + 1) : h[x] = b[1 + x - 1]
      <4>1. m \in Nat /\ m <= Len(b) /\ 1 <= m + 1 /\ 1 \in Nat \ {0}
        BY <2>1, <1>5, <1>9
      <4>2. QED
        BY <4>1, PartFacts
    <3> HIDE DEF h
    <3>2. QED
      BY <3>1, <2>1
  <2> HIDE DEF h
  <2>3. ASSUME NEW x \in 1..m PROVE h[x] = w[x]
    <3>1. 1 + x - 1 = x /\ x <= Len(b)
      BY <1>0, <1>5, <1>9
    <3>2. h[x] = b[x] /\ b[x] = w[x]
      BY <3>1, <2>2, <1>6
    <3>3. QED
      BY <3>2
  <2>4. Len(w) = m
    BY DEF m
  <2>5. h = w
    <3>1. h \in Seq(Octets) /\ w \in Seq(Octets) /\ Len(h) = Len(w) /\ \A x \in 1..Len(h) : h[x] = w[x]
      BY <2>2, <2>3, <2>4, <1>5
    <3>2. QED
      BY <3>1, SeqEqual
  <2>6. QED
    BY <2>5 DEF h
<1>11. Announced(b) \in Nat
  BY <1>5, <1>8
<1>12. SubSeq(b, 1, 4 + Announced(b)) = w
  BY <1>9, <1>10
<1>13. QED
  BY <1>4, <1>5, <1>8, <1>11, <1>12 DEF w

\* What is left when it is read.
LEMMA LaidRest ==
    ASSUME NEW S, \A p \in S : Fits(p), NEW d \in Seq(S), d # <<>>,
           NEW b \in Seq(Octets), NEW t \in Seq(Octets), NEW e, Laid(b \o t, d, e),
           Len(Bytes(d[1])) <= Len(b)
    PROVE  LET m == Len(Bytes(d[1]))
               r == SubSeq(b, m + 1, Len(b)) \o t
           IN  /\ Laid(r, Tail(d), e - m) /\ Len(r) = Len(b \o t) - m
               /\ Tail(d) = <<>> => e = m
<1> DEFINE n == Len(d)
           v == b \o t
           m == Len(Bytes(d[1]))
           u == SubSeq(b, m + 1, Len(b))
           r == u \o t
           d2 == Tail(d)
<1>0. n \in Nat /\ Len(b) \in Nat /\ Len(t) \in Nat /\ n # 0 /\ 1 \in 1..n
  <2>1. n # 0
    BY EmptySeq
  <2>2. QED
    BY <2>1, LenProperties
<1>1. PICK off \in [1..(n + 1) -> Nat] : LaidAt(v, d, off) /\ off[n + 1] = e
  BY DEF Laid
<1>2. /\ Len(v) = Len(b) + Len(t)
      /\ \A x \in 1..(Len(b) + Len(t)) : v[x] = IF x <= Len(b) THEN b[x] ELSE t[x - Len(b)]
  BY ConcatProperties
<1> HIDE DEF v
<1>3. /\ off[1] = 0
      /\ \A i \in 1..n : off[i + 1] = off[i] + Len(Bytes(d[i]))
      /\ \A i, k \in 1..(n + 1) : i <= k => off[i] <= off[k]
      /\ \A i \in 1..n : \A j \in 1..Len(Bytes(d[i])) : off[i] + j <= Len(v) => v[off[i] + j] = Bytes(d[i])[j]
      /\ Len(v) <= off[n + 1] /\ off[n + 1] = e
  BY <1>1 DEF LaidAt
<1>4. /\ d2 \in Seq(S) /\ Len(d2) = n - 1 /\ \A i \in 1..(n - 1) : d2[i] = d[i + 1]
  BY HeadTailProperties
<1>5. m \in Nat /\ m <= Len(b) /\ \A i \in 1..n : Len(Bytes(d[i])) \in Nat
  BY <1>0, PacketSeq
<1>6. off[2] = m
  <2>1. off[1 + 1] = off[1] + m
    BY <1>0, <1>3
  <2>2. 1 + 1 = 2
    OBVIOUS
  <2> HIDE DEF m
  <2>3. QED
    BY <2>1, <2>2, <1>3, <1>5
<1> HIDE DEF d2, m, n
<1>7. u \in Seq(Octets) /\ Len(u) = Len(b) - m /\ \A x \in 1..(Len(b) - m) : u[x] = b[m + x]
  <2>1. Len(b) - (m + 1) + 1 = Len(b) - m /\ m + 1 \in Nat \ {0} /\ m + 1 <= Len(b) + 1 /\ Len(b) <= Len(b)
    BY <1>0, <1>5
  <2>2. /\ u \in Seq(Octets) /\ Len(u) = Len(b) - (m + 1) + 1
        /\ \A x \in 1..(Len(b) - (m + 1) + 1) : u[x] = b[(m + 1) + x - 1]
    BY <2>1, <1>0, PartFacts, SMTT(30)
  <2>3. \A x \in 1..(Len(b) - m) : (m + 1) + x - 1 = m + x
    BY <1>0, <1>5
  <2> HIDE DEF u
  <2>4. QED
    BY <2>1, <2>2, <2>3
<1> HIDE DEF u
<1>8. /\ r \in Seq(Octets) /\ Len(r) = Len(u) + Len(t)
      /\ \A x \in 1..(Len(u) + Len(t)) : r[x] = IF x <= Len(u) THEN u[x] ELSE t[x - Len(u)]
  BY <1>7, ConcatProperties
<1> HIDE DEF r
<1>9. Len(r) = Len(v) - m /\ Len(v) - m \in Nat
  BY <1>0, <1>2, <1>5, <1>7, <1>8
<1>10. ASSUME NEW x \in 1..(Len(v) - m) PROVE r[x] = v[m + x]
  <2>1. x \in 1..(Len(u) + Len(t)) /\ m + x \in 1..(Len(b) + Len(t))
    BY <1>0, <1>2, <1>5, <1>7, <1>10
  <2>2. CASE x <= Len(b) - m
    <3>1. r[x] = u[x] /\ u[x] = b[m + x] /\ v[m + x] = b[m + x]
      <4>1. x <= Len(u) /\ m + x <= Len(b) /\ x \in 1..(Len(b) - m)
        BY <2>1, <2>2, <1>0, <1>5, <1>7
      <4>2. QED
        BY <4>1, <2>1, <1>2, <1>7, <1>8
    <3>2. QED
      BY <3>1
  <2>3. CASE ~(x <= Len(b) - m)
    <3>1. ~(x <= Len(u)) /\ ~(m + x <= Len(b)) /\ x - Len(u) = (m + x) - Len(b)
      BY <2>1, <2>3, <1>0, <1>5, <1>7
    <3>2. r[x] = t[x - Len(u)]
      BY <3>1, <2>1, <1>8
    <3>3. v[m + x] = t[(m + x) - Len(b)]
      <4>1. PICK q : q = m + x
        OBVIOUS
      <4>2. q \in 1..(Len(b) + Len(t)) /\ ~(q <= Len(b))
        BY <4>1, <3>1, <2>1
      <4>3. v[q] = t[q - Len(b)]
        BY <4>2, <1>2
      <4>4. QED
        BY <4>1, <4>3
    <3>4. QED
      BY <3>1, <3>2, <3>3
  <2>4. QED
    BY <2>2, <2>3
<1> DEFINE off2 == [i \in 1..n |-> off[i + 1] - m]
<1>11. ASSUME NEW i \in 1..n
       PROVE  off2[i] = off[i + 1] - m /\ off2[i] \in Nat /\ off[i + 1] \in Nat /\ m <= off[i + 1]
  <2>1. i + 1 \in 1..(n + 1) /\ 2 \in 1..(n + 1) /\ 2 <= i + 1
    BY <1>0
  <2>2. off[2] <= off[i + 1] /\ off[i + 1] \in Nat
    BY <2>1, <1>3
  <2> DEFINE z == off[i + 1]
  <2>3. off2[i] = z - m /\ m <= z /\ z \in Nat
    BY <2>2, <1>6
  <2> HIDE DEF off2, z
  <2>4. off2[i] \in Nat
    BY <2>3, <1>5
  <2>5. QED
    BY <2>3, <2>4 DEF z
<1>12. off2 \in [1..n -> Nat]
  BY <1>11
<1> HIDE DEF off2
<1>13. off2[1] = 0
  <2>1. off2[1] = off[1 + 1] - m
    BY <1>0, <1>11
  <2>2. 1 + 1 = 2
    OBVIOUS
  <2>3. QED
    BY <2>1, <2>2, <1>5, <1>6
<1>14. ASSUME NEW i \in 1..(n - 1)
       PROVE  off2[i + 1] = off2[i] + Len(Bytes(d2[i])) /\ d2[i] = d[i + 1] /\ i + 1 \in 1..n /\ i \in 1..n
  <2>1. i \in 1..n /\ i + 1 \in 1..n /\ d2[i] = d[i + 1]
    BY <1>0, <1>4
  <2> DEFINE l == Len(Bytes(d[i + 1]))
             y == off[i + 1]
             z == off[(i + 1) + 1]
  <2>2. z = y + l /\ l \in Nat
    BY <2>1, <1>3, <1>5
  <2>3. off2[i] = y - m /\ off2[i + 1] = z - m /\ y \in Nat
    BY <2>1, <1>11
  <2> HIDE DEF l, y, z
  <2>4. off2[i + 1] = off2[i] + l
    BY <2>2, <2>3, <1>5
  <2>5. QED
    BY <2>1, <2>4 DEF l
<1>15. ASSUME NEW i \in 1..n, NEW k \in 1..n, i <= k PROVE off2[i] <= off2[k]
  <2>1. i + 1 \in 1..(n + 1) /\ k + 1 \in 1..(n + 1) /\ i + 1 <= k + 1
    BY <1>0, <1>15
  <2> DEFINE y == off[i + 1]
             z == off[k + 1]
  <2>2. y <= z /\ off2[i] = y - m /\ off2[k] = z - m /\ y \in Nat /\ z \in Nat
    BY <2>1, <1>3, <1>11
  <2> HIDE DEF y, z
  <2>3. QED
    BY <2>2, <1>5
<1>16. ASSUME NEW i \in 1..(n - 1), NEW j \in 1..Len(Bytes(d2[i])), off2[i] + j <= Len(r)
       PROVE  r[off2[i] + j] = Bytes(d2[i])[j]
  <2> DEFINE l == Len(Bytes(d[i + 1]))
             y == off[i + 1]
             x == off2[i] + j
             q == y + j
  <2>1. d2[i] = d[i + 1] /\ i + 1 \in 1..n /\ i \in 1..n
    BY <1>14
  <2>2. l \in Nat /\ j \in 1..l /\ y \in Nat /\ off2[i] = y - m /\ off2[i] \in Nat /\ m <= y /\ x = off2[i] + j
        /\ q = y + j /\ x <= Len(r)
    BY <2>1, <1>5, <1>11, <1>16
  <2>3. q <= Len(v) => v[q] = Bytes(d[i + 1])[j]
    BY <2>1, <1>3, <1>16
  <2> HIDE DEF l, y, x, q
  <2>4. x \in 1..(Len(v) - m) /\ m + x = q /\ q <= Len(v)
    BY <2>2, <1>5, <1>9
  <2>5. r[x] = v[q]
    BY <2>4, <1>10
  <2>6. QED
    BY <2>1, <2>3, <2>4, <2>5 DEF x
<1>17. Len(r) <= off2[n] /\ off2[n] = e - m
  <2>1. n \in 1..n
    BY <1>0
  <2> DEFINE z == off[n + 1]
  <2>2. off2[n] = z - m /\ z \in Nat /\ Len(v) <= z /\ z = e
    BY <2>1, <1>3, <1>11
  <2> HIDE DEF z
  <2>3. QED
    BY <2>2, <1>5, <1>9
<1>18. Len(d2) + 1 = n /\ Len(d2) = n - 1
  BY <1>0, <1>4
<1>19. LaidAt(r, d2, off2)
  BY <1>13, <1>14, <1>15, <1>16, <1>17, <1>18 DEF LaidAt
<1>20. Laid(r, d2, e - m)
  BY <1>12, <1>17, <1>18, <1>19 DEF Laid
<1>21. d2 = <<>> => e = m
  <2>1. ASSUME d2 = <<>> PROVE e = m
    <3>1. Len(d2) = 0
      BY <2>1
    <3>2. n = 1
      BY <3>1, <1>0, <1>18
    <3>3. off[2] = e
      BY <3>2, <1>3
    <3>4. QED
      BY <3>3, <1>6
  <2>2. QED
    BY <2>1
<1>22. QED
  BY <1>9, <1>20, <1>21 DEF r, d2, m, v, u

-----------------------------------------------------------------------------
\* The packets of the stream as fragments of the IP packets that are owed.

\* Reading p, when c fragments of the k-th owed packet are gathered, leads to c2 of the k2-th.
Carries(p, ow, k, c, k2, c2) ==
    \/ p.code # Code.DATA /\ k2 = k /\ c2 = c
    \/ /\ p.code = Code.DATA /\ k \in 1..Len(ow) /\ c \in 0..(Pieces(ow[k]) - 1)
       /\ p = Fragments(ow[k])[c + 1]
       /\ k2 = IF c + 1 = Pieces(ow[k]) THEN k + 1 ELSE k
       /\ c2 = IF c + 1 = Pieces(ow[k]) THEN 0 ELSE c + 1

\* Reading the packets of d one after another.
Walk(d, ow, pk, pc) ==
    /\ \A i, j \in 1..(Len(d) + 1) : i <= j => pk[i] <= pk[j]
    /\ \A i \in 1..Len(d) : Carries(d[i], ow, pk[i], pc[i], pk[i + 1], pc[i + 1])

\* c fragments of the first owed packet are gathered in r.
Gathered(r, ow, c) ==
    IF c = 0 THEN r = <<>>
    ELSE ow # <<>> /\ c < Pieces(ow[1]) /\ r = SubSeq(ow[1], 1, c * MaxData)

\* Reading d, with r gathered, hands on the packets of ow one after another, and comes to
\* fragment c of the k-th.
Follows(d, ow, r, k, c) ==
    \E pk, pc \in [1..(Len(d) + 1) -> Nat] :
        /\ pk[1] = 1 /\ Gathered(r, ow, pc[1]) /\ Walk(d, ow, pk, pc)
        /\ pk[Len(d) + 1] = k /\ pc[Len(d) + 1] = c

\* Nothing follows from nothing.
LEMMA FollowsNothing == Follows(<<>>, <<>>, <<>>, 1, 0)
<1> DEFINE pk == [i \in 1..1 |-> 1]
           pc == [i \in 1..1 |-> 0]
<1>1. Len(<<>>) = 0
  OBVIOUS
<1>2. pk \in [1..(Len(<<>>) + 1) -> Nat] /\ pc \in [1..(Len(<<>>) + 1) -> Nat] /\ pk[1] = 1 /\ pc[1] = 0
  BY <1>1
<1>3. Walk(<<>>, <<>>, pk, pc) /\ Gathered(<<>>, <<>>, 0)
  BY <1>1, <1>2 DEF Walk, Gathered
<1> HIDE DEF pk, pc
<1>4. QED
  BY <1>1, <1>2, <1>3 DEF Follows

\* The reader never goes back, and a last fragment leads to the next packet.
LEMMA FollowsBounds ==
    ASSUME NEW S, NEW d \in Seq(S), NEW ow, NEW r, NEW k, NEW c, Follows(d, ow, r, k, c)
    PROVE  /\ k \in Nat \ {0} /\ c \in Nat
           /\ d # <<>> /\ d[Len(d)].code = Code.DATA /\ c = 0 => k # 1
<1> DEFINE n == Len(d)
<1>1. n \in Nat
  BY LenProperties
<1>2. PICK pk, pc \in [1..(n + 1) -> Nat] :
          /\ pk[1] = 1 /\ Walk(d, ow, pk, pc)
          /\ pk[n + 1] = k /\ pc[n + 1] = c
  BY DEF Follows
<1>3. /\ \A i, j \in 1..(n + 1) : i <= j => pk[i] <= pk[j]
      /\ \A i \in 1..n : Carries(d[i], ow, pk[i], pc[i], pk[i + 1], pc[i + 1])
  BY <1>2 DEF Walk
<1>4. ASSUME d # <<>>, d[Len(d)].code = Code.DATA, c = 0 PROVE k # 1
  <2>1. n # 0
    BY <1>4, EmptySeq
  <2> HIDE DEF n
  <2>2. n \in 1..n /\ n \in 1..(n + 1)
    BY <2>1, <1>1
  <2>3. Carries(d[n], ow, pk[n], pc[n], k, c)
    BY <2>2, <1>2, <1>3
  <2>4. d[n].code = Code.DATA
    BY <1>4 DEF n
  <2>5. /\ pk[n] \in 1..Len(ow) /\ pc[n] \in Nat
        /\ k = IF pc[n] + 1 = Pieces(ow[pk[n]]) THEN pk[n] + 1 ELSE pk[n]
        /\ c = IF pc[n] + 1 = Pieces(ow[pk[n]]) THEN 0 ELSE pc[n] + 1
    BY <2>2, <2>3, <2>4 DEF Carries
  <2> DEFINE x == pk[n]
             y == pc[n]
             z == Pieces(ow[x])
  <2>6. /\ x \in 1..Len(ow) /\ y \in Nat /\ x \in Nat
        /\ k = (IF y + 1 = z THEN x + 1 ELSE x) /\ c = (IF y + 1 = z THEN 0 ELSE y + 1)
    BY <2>2, <2>5
  <2> HIDE DEF x, y, z
  <2>7. k = x + 1 /\ x # 0
    BY <2>6, <1>4
  <2>8. QED
    BY <2>6, <2>7
<1> HIDE DEF n
<1>5. 1 \in 1..(n + 1) /\ n + 1 \in 1..(n + 1) /\ 1 <= n + 1
  BY <1>1
<1>6. pk[1] <= pk[n + 1] /\ pk[n + 1] \in Nat /\ pc[n + 1] \in Nat
  BY <1>3, <1>5
<1>7. k \in Nat \ {0} /\ c \in Nat
  BY <1>2, <1>6
<1>8. QED
  BY <1>4, <1>7

\* A packet is added.
LEMMA FollowsNext ==
    ASSUME NEW S, NEW d \in Seq(S), NEW ow, NEW r, NEW k \in Nat, NEW c \in Nat, Follows(d, ow, r, k, c),
           NEW p \in S, NEW k2 \in Nat, NEW c2 \in Nat, k <= k2, Carries(p, ow, k, c, k2, c2)
    PROVE  Follows(Append(d, p), ow, r, k2, c2)
<1> DEFINE n == Len(d)
           d2 == Append(d, p)
<1>1. n \in Nat
  BY LenProperties
<1>2. PICK pk, pc \in [1..(n + 1) -> Nat] :
          /\ pk[1] = 1 /\ Gathered(r, ow, pc[1]) /\ Walk(d, ow, pk, pc)
          /\ pk[n + 1] = k /\ pc[n + 1] = c
  BY DEF Follows
<1>3. /\ \A i, j \in 1..(n + 1) : i <= j => pk[i] <= pk[j]
      /\ \A i \in 1..n : Carries(d[i], ow, pk[i], pc[i], pk[i + 1], pc[i + 1])
  BY <1>2 DEF Walk
<1>4. d2 \in Seq(S) /\ Len(d2) = n + 1 /\ (\A i \in 1..n : d2[i] = d[i]) /\ d2[n + 1] = p
  BY AppendProperties
<1> HIDE DEF d2, n
<1> DEFINE qk == [i \in 1..(n + 2) |-> IF i = n + 2 THEN k2 ELSE pk[i]]
           qc == [i \in 1..(n + 2) |-> IF i = n + 2 THEN c2 ELSE pc[i]]
<1>5. /\ qk \in [1..(n + 2) -> Nat] /\ qc \in [1..(n + 2) -> Nat]
      /\ \A i \in 1..(n + 1) : qk[i] = pk[i] /\ qc[i] = pc[i]
      /\ qk[n + 2] = k2 /\ qc[n + 2] = c2
  BY <1>1
<1> HIDE DEF qk, qc
<1>6. ASSUME NEW i \in 1..(n + 2), NEW j \in 1..(n + 2), i <= j PROVE qk[i] <= qk[j]
  <2>1. CASE j # n + 2
    <3>1. i \in 1..(n + 1) /\ j \in 1..(n + 1)
      BY <2>1, <1>1, <1>6
    <3>2. QED
      BY <3>1, <1>3, <1>5, <1>6
  <2>2. CASE j = n + 2 /\ i # n + 2
    <3>1. i \in 1..(n + 1) /\ n + 1 \in 1..(n + 1) /\ i <= n + 1
      BY <2>2, <1>1
    <3>2. pk[i] <= pk[n + 1] /\ qk[i] = pk[i] /\ pk[i] \in Nat
      BY <3>1, <1>3, <1>5
    <3>3. qk[i] <= k /\ qk[i] \in Nat
      BY <3>2, <1>2
    <3>4. QED
      BY <2>2, <3>3, <1>5
  <2>3. CASE j = n + 2 /\ i = n + 2
    BY <2>3, <1>5
  <2>4. QED
    BY <2>1, <2>2, <2>3
<1>7. ASSUME NEW i \in 1..(n + 1)
      PROVE  Carries(d2[i], ow, qk[i], qc[i], qk[i + 1], qc[i + 1])
  <2>1. CASE i = n + 1
    <3>1. i \in 1..(n + 1) /\ i + 1 = n + 2
      BY <2>1, <1>1
    <3>2. d2[i] = p /\ qk[i] = k /\ qc[i] = c /\ qk[i + 1] = k2 /\ qc[i + 1] = c2
      BY <2>1, <3>1, <1>2, <1>4, <1>5
    <3>3. QED
      BY <3>2
  <2>2. CASE i # n + 1
    <3>1. i \in 1..n /\ i \in 1..(n + 1) /\ i + 1 \in 1..(n + 1)
      BY <2>2, <1>1
    <3>2. d2[i] = d[i] /\ qk[i] = pk[i] /\ qc[i] = pc[i] /\ qk[i + 1] = pk[i + 1] /\ qc[i + 1] = pc[i + 1]
      BY <3>1, <1>4, <1>5
    <3>3. QED
      BY <3>1, <3>2, <1>3
  <2>3. QED
    BY <2>1, <2>2
<1>8. Len(d2) + 1 = n + 2 /\ Len(d2) = n + 1
  BY <1>1, <1>4
<1>9. Walk(d2, ow, qk, qc)
  BY <1>6, <1>7, <1>8 DEF Walk
<1>10. qk[1] = 1 /\ Gathered(r, ow, qc[1])
  <2>1. 1 \in 1..(n + 1)
    BY <1>1
  <2>2. QED
    BY <2>1, <1>2, <1>5
<1>11. Follows(d2, ow, r, k2, c2)
  BY <1>5, <1>8, <1>9, <1>10 DEF Follows
<1>12. QED
  BY <1>11 DEF d2

\* A packet is owed in addition.
LEMMA FollowsOwed ==
    ASSUME NEW d, NEW T, NEW ow \in Seq(T), NEW r, NEW k, NEW c, Follows(d, ow, r, k, c), NEW b \in T
    PROVE  Follows(d, Append(ow, b), r, k, c)
<1> DEFINE n == Len(d)
           w == Append(ow, b)
<1>1. PICK pk, pc \in [1..(n + 1) -> Nat] :
          /\ pk[1] = 1 /\ Gathered(r, ow, pc[1]) /\ Walk(d, ow, pk, pc)
          /\ pk[n + 1] = k /\ pc[n + 1] = c
  BY DEF Follows
<1>2. Len(ow) \in Nat /\ Len(w) = Len(ow) + 1 /\ (\A i \in 1..Len(ow) : w[i] = ow[i]) /\ w # <<>>
  <2>1. Len(ow) \in Nat /\ w \in Seq(T) /\ Len(w) = Len(ow) + 1 /\ (\A i \in 1..Len(ow) : w[i] = ow[i])
    BY AppendProperties, LenProperties
  <2> HIDE DEF w
  <2>2. w # <<>>
    <3>1. Len(w) # 0
      BY <2>1
    <3>2. QED
      BY <3>1
  <2>3. QED
    BY <2>1, <2>2
<1> HIDE DEF w, n
<1>3. ASSUME NEW p, NEW x, NEW y, NEW x2, NEW y2, Carries(p, ow, x, y, x2, y2)
      PROVE  Carries(p, w, x, y, x2, y2)
  <2>1. CASE p.code # Code.DATA
    BY <2>1, <1>3 DEF Carries
  <2>2. CASE p.code = Code.DATA
    <3>1. /\ x \in 1..Len(ow) /\ y \in 0..(Pieces(ow[x]) - 1) /\ p = Fragments(ow[x])[y + 1]
          /\ x2 = IF y + 1 = Pieces(ow[x]) THEN x + 1 ELSE x
          /\ y2 = IF y + 1 = Pieces(ow[x]) THEN 0 ELSE y + 1
      BY <2>2, <1>3 DEF Carries
    <3>2. w[x] = ow[x]
      BY <3>1, <1>2
    <3>3. x \in 1..Len(w)
      BY <3>1, <1>2
    <3>4. QED
      BY <2>2, <3>1, <3>2, <3>3 DEF Carries
  <2>3. QED
    BY <2>1, <2>2
<1>4. Walk(d, w, pk, pc)
  BY <1>1, <1>3 DEF Walk, n
<1>5. Gathered(r, w, pc[1])
  <2>1. CASE pc[1] = 0
    BY <2>1, <1>1 DEF Gathered
  <2>2. CASE pc[1] # 0
    <3>1. ow # <<>> /\ pc[1] < Pieces(ow[1]) /\ r = SubSeq(ow[1], 1, pc[1] * MaxData)
      BY <2>2, <1>1 DEF Gathered
    <3>2. Len(ow) # 0
      BY <3>1, EmptySeq
    <3>3. 1 \in 1..Len(ow)
      BY <3>2, <1>2
    <3>4. w[1] = ow[1]
      BY <3>3, <1>2
    <3>5. QED
      BY <2>2, <3>1, <3>4, <1>2 DEF Gathered
  <2>3. QED
    BY <2>1, <2>2
<1>6. Follows(d, w, r, k, c)
  BY <1>1, <1>4, <1>5 DEF Follows, n
<1>7. QED
  BY <1>6 DEF w

\* A function from its second argument on.
Later(f, n) == [i \in 1..n |-> f[i + 1]]

\* The walk goes on when the first packet is read,
LEMMA WalkTail ==
    ASSUME NEW S, NEW d \in Seq(S), d # <<>>, NEW ow,
           NEW pk \in [1..(Len(d) + 1) -> Nat], NEW pc \in [1..(Len(d) + 1) -> Nat], Walk(d, ow, pk, pc)
    PROVE  /\ Walk(Tail(d), ow, Later(pk, Len(d)), Later(pc, Len(d)))
           /\ Later(pk, Len(d)) \in [1..Len(d) -> Nat] /\ Later(pc, Len(d)) \in [1..Len(d) -> Nat]
           /\ Later(pk, Len(d))[1] = pk[2] /\ Later(pc, Len(d))[1] = pc[2]
           /\ Later(pk, Len(d))[Len(d)] = pk[Len(d) + 1] /\ Later(pc, Len(d))[Len(d)] = pc[Len(d) + 1]
<1> DEFINE n == Len(d)
           d2 == Tail(d)
           m == Len(d2)
           qk == Later(pk, n)
           qc == Later(pc, n)
<1>1. n \in Nat /\ m = n - 1 /\ m + 1 = n /\ n # 0 /\ \A i \in 1..m : d2[i] = d[i + 1]
  <2>1. n \in Nat /\ m = n - 1 /\ n # 0 /\ \A i \in 1..m : d2[i] = d[i + 1]
    BY LenProperties, HeadTailProperties, EmptySeq
  <2> HIDE DEF n, m, d2
  <2>2. m + 1 = n
    BY <2>1
  <2>3. QED
    BY <2>1, <2>2
<1>2. /\ \A i, j \in 1..(n + 1) : i <= j => pk[i] <= pk[j]
      /\ \A i \in 1..n : Carries(d[i], ow, pk[i], pc[i], pk[i + 1], pc[i + 1])
  BY DEF Walk
<1>3. pk \in [1..(n + 1) -> Nat] /\ pc \in [1..(n + 1) -> Nat]
  OBVIOUS
<1> HIDE DEF n, m, d2
<1>4. ASSUME NEW i \in 1..(m + 1)
      PROVE  /\ qk[i] = pk[i + 1] /\ qc[i] = pc[i + 1] /\ i + 1 \in 1..(n + 1)
             /\ qk[i] \in Nat /\ qc[i] \in Nat
  <2>1. i + 1 \in 1..(n + 1)
    BY <1>1
  <2>2. QED
    BY <2>1, <1>1, <1>3 DEF Later
<1>5. qk \in [1..n -> Nat] /\ qc \in [1..n -> Nat]
  BY <1>1, <1>4 DEF Later
<1> HIDE DEF qk, qc
<1>6. ASSUME NEW i \in 1..(m + 1), NEW j \in 1..(m + 1), i <= j PROVE qk[i] <= qk[j]
  <2>1. i + 1 <= j + 1
    BY <1>1, <1>6
  <2>2. QED
    BY <2>1, <1>2, <1>4
<1>7. ASSUME NEW i \in 1..m PROVE Carries(d2[i], ow, qk[i], qc[i], qk[i + 1], qc[i + 1])
  <2>1. i \in 1..(m + 1) /\ i + 1 \in 1..(m + 1) /\ i + 1 \in 1..n
    BY <1>1
  <2>2. QED
    BY <2>1, <1>1, <1>2, <1>4
<1>8. Walk(d2, ow, qk, qc)
  BY <1>6, <1>7 DEF Walk, m
<1>9. 1 \in 1..(m + 1) /\ m + 1 \in 1..(m + 1) /\ 1 + 1 = 2 /\ (m + 1) + 1 = n + 1
  BY <1>1
<1>10. qk[1] = pk[2] /\ qc[1] = pc[2] /\ qk[m + 1] = pk[n + 1] /\ qc[m + 1] = pc[n + 1]
  BY <1>4, <1>9
<1>11. qk[n] = pk[n + 1] /\ qc[n] = pc[n + 1]
  BY <1>1, <1>10
<1>12. QED
  BY <1>5, <1>8, <1>10, <1>11 DEF qk, qc, d2, n

\* and when the first IP packet is handed on.
LEMMA WalkDrop ==
    ASSUME NEW S, NEW d \in Seq(S), NEW T, NEW ow \in Seq(T), ow # <<>>,
           NEW pk \in [1..(Len(d) + 1) -> Nat], NEW pc \in [1..(Len(d) + 1) -> Nat], Walk(d, ow, pk, pc),
           pk[1] = 2
    PROVE  LET qk == [i \in 1..(Len(d) + 1) |-> pk[i] - 1]
           IN  /\ Walk(d, Tail(ow), qk, pc) /\ qk \in [1..(Len(d) + 1) -> Nat]
               /\ qk[1] = 1 /\ qk[Len(d) + 1] = pk[Len(d) + 1] - 1
<1> DEFINE n == Len(d)
           qk == [i \in 1..(n + 1) |-> pk[i] - 1]
           w == Tail(ow)
<1>1. n \in Nat
  BY LenProperties
<1>2. /\ \A i, j \in 1..(n + 1) : i <= j => pk[i] <= pk[j]
      /\ \A i \in 1..n : Carries(d[i], ow, pk[i], pc[i], pk[i + 1], pc[i + 1])
  BY DEF Walk
<1>3. pk \in [1..(n + 1) -> Nat] /\ pc \in [1..(n + 1) -> Nat]
  OBVIOUS
<1>4. Len(ow) \in Nat /\ Len(w) = Len(ow) - 1 /\ \A i \in 1..(Len(ow) - 1) : w[i] = ow[i + 1]
  BY LenProperties, HeadTailProperties
<1> HIDE DEF n, w
<1>5. ASSUME NEW i \in 1..(n + 1) PROVE qk[i] = pk[i] - 1 /\ pk[i] \in Nat /\ 2 <= pk[i] /\ qk[i] \in Nat
  <2>1. 1 \in 1..(n + 1) /\ 1 <= i
    BY <1>1
  <2>2. pk[1] <= pk[i] /\ pk[i] \in Nat
    BY <2>1, <1>2, <1>3
  <2> DEFINE x == pk[i]
  <2>3. 2 <= x /\ x \in Nat /\ qk[i] = x - 1
    BY <2>2
  <2> HIDE DEF x, qk
  <2>4. qk[i] \in Nat
    BY <2>3
  <2>5. QED
    BY <2>3, <2>4 DEF x
<1>6. qk \in [1..(n + 1) -> Nat]
  BY <1>5
<1> HIDE DEF qk
<1>7. ASSUME NEW i \in 1..(n + 1), NEW j \in 1..(n + 1), i <= j PROVE qk[i] <= qk[j]
  <2> DEFINE x == pk[i]
             y == pk[j]
  <2>1. x \in Nat /\ y \in Nat /\ x <= y /\ qk[i] = x - 1 /\ qk[j] = y - 1
    BY <1>2, <1>5, <1>7
  <2> HIDE DEF x, y
  <2>2. QED
    BY <2>1
<1>8. ASSUME NEW i \in 1..n PROVE Carries(d[i], w, qk[i], pc[i], qk[i + 1], pc[i + 1])
  <2>1. i \in 1..(n + 1) /\ i + 1 \in 1..(n + 1)
    BY <1>1
  <2> DEFINE x == pk[i]
             x2 == pk[i + 1]
             y == pc[i]
             y2 == pc[i + 1]
  <2>2. Carries(d[i], ow, x, y, x2, y2)
    BY <1>2
  <2>3. x \in Nat /\ x2 \in Nat /\ 2 <= x /\ qk[i] = x - 1 /\ qk[i + 1] = x2 - 1
    BY <2>1, <1>5
  <2> HIDE DEF x, x2, y, y2
  <2>4. CASE d[i].code # Code.DATA
    <3>1. x2 = x /\ y2 = y
      BY <2>2, <2>4 DEF Carries
    <3>2. QED
      BY <3>1, <2>3, <2>4 DEF Carries, y, y2
  <2>5. CASE d[i].code = Code.DATA
    <3>1. /\ x \in 1..Len(ow) /\ y \in 0..(Pieces(ow[x]) - 1) /\ d[i] = Fragments(ow[x])[y + 1]
          /\ x2 = IF y + 1 = Pieces(ow[x]) THEN x + 1 ELSE x
          /\ y2 = IF y + 1 = Pieces(ow[x]) THEN 0 ELSE y + 1
      BY <2>2, <2>5 DEF Carries
    <3>2. x - 1 \in 1..(Len(ow) - 1) /\ x - 1 \in 1..Len(w) /\ (x - 1) + 1 = x
      BY <3>1, <2>3, <1>4
    <3>3. w[x - 1] = ow[x]
      BY <3>2, <1>4
    <3>4. x2 - 1 = IF y + 1 = Pieces(w[x - 1]) THEN (x - 1) + 1 ELSE x - 1
      BY <3>1, <3>2, <3>3, <2>3
    <3>5. Carries(d[i], w, x - 1, y, x2 - 1, y2)
      BY <2>5, <3>1, <3>2, <3>3, <3>4 DEF Carries
    <3>6. QED
      BY <3>5, <2>3 DEF y, y2
  <2>6. QED
    BY <2>4, <2>5
<1>9. Walk(d, w, qk, pc)
  BY <1>7, <1>8 DEF Walk, n
<1>10. qk[1] = 1 /\ qk[n + 1] = pk[n + 1] - 1
  <2>1. 1 \in 1..(n + 1) /\ n + 1 \in 1..(n + 1) /\ 2 - 1 = 1
    BY <1>1
  <2>2. QED
    BY <2>1, <1>5
<1>11. QED
  BY <1>6, <1>9, <1>10 DEF qk, w, n

\* The first packet is read.
LEMMA FollowsRead ==
    ASSUME NEW S, NEW d \in Seq(S), d # <<>>, NEW ow \in Seq(IPPackets), NEW r, NEW k, NEW c,
           Follows(d, ow, r, k, c)
    PROVE  /\ d[1].code # Code.DATA => Follows(Tail(d), ow, r, k, c)
           /\ d[1].code = Code.DATA =>
                /\ ow # <<>>
                /\ d[1].more => Follows(Tail(d), ow, r \o d[1].payload, k, c)
                /\ ~d[1].more => /\ r \o d[1].payload = ow[1]
                                 /\ Follows(Tail(d), Tail(ow), <<>>, k - 1, c)
<1> DEFINE n == Len(d)
           d2 == Tail(d)
           m == Len(d2)
<1>1. PICK pk, pc \in [1..(n + 1) -> Nat] :
          /\ pk[1] = 1 /\ Gathered(r, ow, pc[1]) /\ Walk(d, ow, pk, pc)
          /\ pk[n + 1] = k /\ pc[n + 1] = c
  BY DEF Follows
<1> DEFINE qk == Later(pk, n)
           qc == Later(pc, n)
<1>2. /\ Walk(d2, ow, qk, qc) /\ qk \in [1..n -> Nat] /\ qc \in [1..n -> Nat]
      /\ qk[1] = pk[2] /\ qc[1] = pc[2] /\ qk[n] = pk[n + 1] /\ qc[n] = pc[n + 1]
  BY <1>1, WalkTail
<1>3. d2 \in Seq(S) /\ m + 1 = n
  <2>1. d2 \in Seq(S) /\ m = n - 1 /\ n \in Nat
    BY HeadTailProperties, LenProperties
  <2> HIDE DEF d2, m, n
  <2>2. QED
    BY <2>1
<1>4. Carries(d[1], ow, 1, pc[1], pk[2], pc[2]) /\ pc[1] \in Nat
  <2>1. n \in Nat /\ n # 0
    BY LenProperties, EmptySeq
  <2> HIDE DEF n
  <2>2. 1 \in 1..n /\ 1 + 1 = 2 /\ 1 \in 1..(n + 1)
    BY <2>1
  <2>3. Carries(d[1], ow, pk[1], pc[1], pk[1 + 1], pc[1 + 1])
    BY <2>2, <1>1 DEF Walk, n
  <2>4. QED
    BY <2>2, <2>3, <1>1
<1> HIDE DEF qk, qc, m, d2, n
<1> USE <1>3
<1>5. ASSUME d[1].code # Code.DATA PROVE Follows(d2, ow, r, k, c)
  <2>1. pk[2] = 1 /\ pc[2] = pc[1]
    BY <1>4, <1>5 DEF Carries
  <2>2. qk[1] = 1 /\ Gathered(r, ow, qc[1])
    BY <2>1, <1>1, <1>2
  <2>3. QED
    BY <2>2, <1>1, <1>2 DEF Follows, m
<1>6. ASSUME d[1].code = Code.DATA
      PROVE  /\ ow # <<>>
             /\ d[1].more => Follows(d2, ow, r \o d[1].payload, k, c)
             /\ ~d[1].more => r \o d[1].payload = ow[1] /\ Follows(d2, Tail(ow), <<>>, k - 1, c)
  <2> DEFINE b == ow[1]
             y == pc[1]
             all == r \o d[1].payload
  <2>1. /\ 1 \in 1..Len(ow) /\ y \in 0..(Pieces(b) - 1) /\ d[1] = Fragments(b)[y + 1]
        /\ pk[2] = IF y + 1 = Pieces(b) THEN 1 + 1 ELSE 1
        /\ pc[2] = IF y + 1 = Pieces(b) THEN 0 ELSE y + 1
    BY <1>4, <1>6 DEF Carries
  <2>2. b \in IPPackets /\ ow # <<>>
    <3>1. b \in IPPackets
      BY <2>1, ElementOfSeq
    <3>2. ow # <<>>
      BY <2>1
    <3>3. QED
      BY <3>1, <3>2
  <2> HIDE DEF b
  <2>3. r = SubSeq(b, 1, y * MaxData)
    <3>1. CASE y = 0
      <4>1. r = <<>>
        BY <3>1, <1>1 DEF Gathered
      <4>2. SubSeq(b, 1, 0 * MaxData) = <<>>
        BY <2>1, <2>2, Reassembly
      <4>3. QED
        BY <3>1, <4>1, <4>2
    <3>2. CASE y # 0
      BY <3>2, <1>1 DEF Gathered, b
    <3>3. QED
      BY <3>1, <3>2
  <2>4. /\ all = IF y + 1 = Pieces(b) THEN b ELSE SubSeq(b, 1, (y + 1) * MaxData)
        /\ d[1].more = (y + 1 # Pieces(b))
    <3> DEFINE f == Fragments(b)[y + 1]
    <3>1. /\ SubSeq(b, 1, y * MaxData) \o f.payload
                = IF y + 1 = Pieces(b) THEN b ELSE SubSeq(b, 1, (y + 1) * MaxData)
          /\ f.more = (y + 1 # Pieces(b))
      BY <2>1, <2>2, Reassembly, Zenon
    <3>2. d[1] = f
      BY <2>1
    <3> HIDE DEF f
    <3>3. QED
      BY <2>3, <3>1, <3>2, Zenon
  <2> HIDE DEF all
  <2>5. ASSUME d[1].more PROVE Follows(d2, ow, all, k, c)
    <3>1. y + 1 # Pieces(b)
      BY <2>4, <2>5
    <3>2. Pieces(b) \in Nat
      BY <2>2, PiecesFacts
    <3>3. y + 1 < Pieces(b) /\ y + 1 # 0
      BY <2>1, <3>1, <3>2
    <3>4. Gathered(all, ow, y + 1)
      BY <2>2, <2>4, <3>1, <3>3 DEF Gathered, b
    <3>5. qk[1] = 1 /\ qc[1] = y + 1
      BY <2>1, <3>1, <1>2
    <3>6. QED
      BY <3>4, <3>5, <1>1, <1>2 DEF Follows, m
  <2>6. ASSUME ~d[1].more PROVE all = b /\ Follows(d2, Tail(ow), <<>>, k - 1, c)
    <3>1. y + 1 = Pieces(b)
      BY <2>4, <2>6
    <3>2. all = b
      BY <3>1, <2>4
    <3>3. qk[1] = 2 /\ qc[1] = 0
      BY <2>1, <3>1, <1>2
    <3> DEFINE zk == [i \in 1..(m + 1) |-> qk[i] - 1]
    <3>4. /\ Walk(d2, Tail(ow), zk, qc) /\ zk \in [1..(m + 1) -> Nat]
          /\ zk[1] = 1 /\ zk[m + 1] = qk[m + 1] - 1
      BY <3>3, <2>2, <1>2, <1>3, WalkDrop DEF m
    <3> HIDE DEF zk
    <3>5. zk[m + 1] = k - 1 /\ Gathered(<<>>, Tail(ow), qc[1])
      BY <3>3, <3>4, <1>1, <1>2 DEF Gathered
    <3>6. Follows(d2, Tail(ow), <<>>, k - 1, c)
      BY <3>4, <3>5, <1>1, <1>2 DEF Follows, m
    <3>7. QED
      BY <3>2, <3>6
  <2>7. QED
    BY <2>2, <2>5, <2>6 DEF all, b
<1>7. QED
  BY <1>5, <1>6 DEF d2

-----------------------------------------------------------------------------
\* What a thread has still to write when it has written n bytes more.

\* Written so, a packet comes to its end; what is left then; and a packet none is written of.
Finishes(job, n) == job.at + n = Len(Bytes(job.frames[1]))
Left(job, n) == IF Finishes(job, n) THEN Tail(job.frames) ELSE job.frames
After(job, n) ==
    IF Left(job, n) = <<>> THEN Done
    ELSE [frames |-> Left(job, n), at |-> IF Finishes(job, n) THEN 0 ELSE job.at + n, ip |-> job.ip]
First(job) == job.at = 0 /\ job.frames = Fragments(job.ip)

\* No IP packet, no fragments.
LEMMA NoFragments == Fragments(<<>>) = <<>>
<1>1. Len(<<>>) = 0 /\ MaxData \in Nat \ {0}
  BY DeliveryConstants
<1>2. \A m \in Nat \ {0} : (0 + m - 1) \div m = 0
  <2>1. ASSUME NEW m \in Nat \ {0} PROVE (m - 1) \div m = 0
    OBVIOUS
  <2>2. ASSUME NEW m \in Nat \ {0} PROVE 0 + m - 1 = m - 1
    OBVIOUS
  <2>3. QED
    BY <2>1, <2>2
<1>3. (Len(<<>>) + MaxData - 1) \div MaxData = 0
  BY <1>1, <1>2
<1>4. 1..0 = {}
  OBVIOUS
<1> DEFINE piece(i) == Packet(Code.DATA, Session,
                              SubSeq(<<>>, (i - 1) * MaxData + 1,
                                     IF i * MaxData < Len(<<>>) THEN i * MaxData ELSE Len(<<>>)),
                              i * MaxData < Len(<<>>))
<1>5. Fragments(<<>>) = [i \in 1..((Len(<<>>) + MaxData - 1) \div MaxData) |-> piece(i)]
  BY DEF Fragments
<1> HIDE DEF piece
<1>6. Fragments(<<>>) = [i \in 1..0 |-> piece(i)]
  BY <1>3, <1>5
<1>7. QED
  BY <1>4, <1>6

\* What a thread has to write after n bytes.
LEMMA AfterFacts ==
    ASSUME NEW s, NEW w, NEW job, GoodJob(s, w, job), job.frames # <<>>,
           NEW n \in Nat \ {0}, job.at + n <= Len(Bytes(job.frames[1]))
    PROVE  LET next == After(job, n)
           IN  /\ GoodJob(s, w, next)
               /\ Finishes(job, n) => next.at = 0
               /\ ~Finishes(job, n) => /\ next.frames = job.frames /\ next.at = job.at + n /\ next.at > 0
                                   /\ next.frames # <<>>
               /\ Left(job, n) = <<>> => next = Done /\ (job.ip # <<>> => Written(job) + 1 = Pieces(job.ip))
               /\ Left(job, n) # <<>> => next.ip = job.ip
               /\ Left(job, n) # <<>> /\ job.ip # <<>> => Started(next) = Written(job) + 1
               /\ Left(job, n) = <<>> \/ job.ip = <<>> => Started(next) = 0
<1> DEFINE next == After(job, n)
           L == Len(Bytes(job.frames[1]))
           a == job.at
<1>1. L \in Nat /\ a \in Nat /\ a + n <= L
  BY FrameFacts DEF GoodJob
<1>2. CASE ~Finishes(job, n)
  <2> DEFINE part == [frames |-> job.frames, at |-> a + n, ip |-> job.ip]
  <2>1. Left(job, n) = job.frames
    BY <1>2 DEF Left
  <2>2. next = part
    BY <1>2, <2>1 DEF After
  <2>3. a + n # L
    BY <1>2 DEF Finishes
  <2> HIDE DEF L, a
  <2>4. a + n \in Nat /\ a + n < L /\ a + n > 0
    BY <1>1, <2>3
  <2>5. a + n \in Nat /\ a + n < Len(Bytes(job.frames[1])) /\ a + n > 0
    BY <2>4 DEF L
  <2>6. /\ GoodJob(s, w, part) /\ part.frames = job.frames /\ part.ip = job.ip /\ part.at = a + n
        /\ Started(part) = IF job.ip = <<>> THEN 0 ELSE Written(job) + 1
    BY <2>5, PartJob
  <2> HIDE DEF part, next
  <2>7. QED
    BY <1>2, <2>1, <2>2, <2>4, <2>6 DEF next, a
<1>3. CASE Finishes(job, n) /\ Tail(job.frames) # <<>>
  <2> DEFINE rest == [frames |-> Tail(job.frames), at |-> 0, ip |-> job.ip]
  <2>1. Left(job, n) = Tail(job.frames)
    BY <1>3 DEF Left
  <2>2. next = rest
    BY <1>3, <2>1 DEF After
  <2>3. /\ GoodJob(s, w, rest) /\ rest.ip = job.ip /\ rest.at = 0
        /\ Started(rest) = IF job.ip = <<>> THEN 0 ELSE Written(job) + 1
    BY <1>3, NextJob
  <2> HIDE DEF rest, next
  <2>4. QED
    BY <1>3, <2>1, <2>2, <2>3 DEF next
<1>4. CASE Finishes(job, n) /\ Tail(job.frames) = <<>>
  <2>1. Left(job, n) = <<>>
    BY <1>4 DEF Left
  <2>2. next = Done
    BY <2>1 DEF After
  <2>3. GoodJob(s, w, Done) /\ Started(Done) = 0 /\ Done.at = 0
    BY DoneIsGood DEF Done, Job
  <2>4. job.ip # <<>> => Written(job) + 1 = Pieces(job.ip)
    BY <1>4, LastJob
  <2> HIDE DEF next
  <2>5. QED
    BY <1>4, <2>1, <2>2, <2>3, <2>4 DEF next
<1>5. QED
  BY <1>2, <1>3, <1>4

-----------------------------------------------------------------------------
\* The invariant.

\* The types, with what each thread has still to write.
Typed ==
    /\ side \in {"server", "client"}
    /\ begun \in BOOLEAN /\ stop \in BOOLEAN /\ open \in BOOLEAN /\ reading \in BOOLEAN
    /\ cut \in BOOLEAN /\ garbled \in BOOLEAN
    /\ lock \in Writers \union {Nobody} /\ (side = "client" => lock = Nobody)
    /\ wire \in Seq(Octets) /\ Len(wire) <= WireSize /\ buf \in Seq(Octets)
    /\ due \in Seq(Sendable(side)) /\ owed \in Seq(IPPackets) /\ whole \in Nat /\ posted \in Nat
    /\ reasm = [s \in 0..7 |-> reasm[s]]
    /\ todo = [w \in Writers |-> todo[w]]
    /\ \A w \in Writers : GoodJob(side, w, todo[w])

\* Until the stream is garbled one packet at most is written in part.
OneAtATime == ~garbled => \A v, w \in Writers : Halfway(v) /\ Halfway(w) => v = w

\* What is due is e bytes long: it ends where the stream ends, but for what is left of a
\* packet written in part.
EndsAt(e) ==
    ~cut => /\ \A w \in Writers :
                   Halfway(w) =>
                       LET left == Len(Bytes(todo[w].frames[1])) - todo[w].at
                       IN  /\ due # <<>> /\ due[Len(due)] = todo[w].frames[1]
                           /\ e >= Len(buf \o wire) + left
                           /\ open => e = Len(buf \o wire) + left
            /\ open /\ (\A w \in Writers : ~Halfway(w)) => e = Len(buf \o wire)

\* Until the stream is garbled its bytes are those of what is due, laid one after another.
BytesFollow == ~garbled => \E e \in Nat : Laid(buf \o wire, due, e) /\ EndsAt(e)

\* Behind what is due the reader is where the writer of data is.
StandsAt(k, c) ==
    ~cut => LET job == todo[Data[side]]
            IN  IF 0 < Started(job) /\ Started(job) < Pieces(job.ip)
                THEN /\ owed # <<>> /\ owed[Len(owed)] = job.ip
                     /\ k = Len(owed) /\ c = Started(job)
                ELSE k = Len(owed) + 1 /\ c = 0

\* Until the stream is garbled what is due are fragments of what is owed, in order, from the
\* one the reader waits for.
PacketsFollow ==
    ~garbled => \E k, c \in Nat : Follows(due, owed, reasm[Session], k, c) /\ StandsAt(k, c)

\* Whole packets are owed, and the one that is being written is not among them; once the
\* stream is garbled nothing is promised.
Counted ==
    /\ whole <= Len(owed)
    /\ ~garbled /\ ~cut /\ Started(todo[Data[side]]) > 0 => whole < Len(owed)
    /\ garbled => due = <<>> /\ owed = <<>> /\ whole = 0

\* A packet that is not begun is counted.
WithinBound ==
    /\ posted <= MaxPackets
    /\ todo[Data[side]].ip # <<>> /\ Started(todo[Data[side]]) = 0 => posted < MaxPackets

\* The inductive invariant.
StreamInv ==
    /\ Typed /\ OneAtATime /\ BytesFollow /\ PacketsFollow /\ Counted /\ WithinBound
    /\ wrong = FALSE

\* One thread of each side writes data.
LEMMA DataWrites == side \in {"server", "client"} => Data[side] \in Writers
BY DEF Data, Writers

\* The bytes on the way.
LEMMA WireFacts ==
    ASSUME Typed
    PROVE  /\ buf \in Seq(Octets) /\ wire \in Seq(Octets) /\ buf \o wire \in Seq(Octets)
           /\ Len(buf \o wire) = Len(buf) + Len(wire) /\ Len(buf) \in Nat /\ Len(wire) \in Nat
           /\ Len(buf \o wire) \in Nat
<1>1. buf \in Seq(Octets) /\ wire \in Seq(Octets)
  BY DEF Typed
<1>2. /\ buf \o wire \in Seq(Octets) /\ Len(buf \o wire) = Len(buf) + Len(wire)
      /\ Len(buf) \in Nat /\ Len(wire) \in Nat
  BY <1>1, ConcatProperties, LenProperties
<1> DEFINE n == Len(buf \o wire)
           a == Len(buf)
           b == Len(wire)
<1>3. n = a + b /\ a \in Nat /\ b \in Nat
  BY <1>2
<1> HIDE DEF n, a, b
<1>4. n \in Nat
  BY <1>3
<1>5. QED
  BY <1>1, <1>2, <1>4 DEF n

\* What may be sent is a packet.
LEMMA AllFit == \A s : \A p \in Sendable(s) : Fits(p)
BY DEF Sendable

\* A thread takes a new job, or gives up the one it has.
LEMMA TodoStep ==
    ASSUME StreamInv, NEW w \in Writers, NEW job, GoodJob(side, w, job), job.at = 0, Started(job) = 0,
           todo' = [todo EXCEPT ![w] = job],
           cut' \/ (cut' = cut /\ ~Halfway(w) /\ (w = Data[side] => Started(todo[w]) = 0)),
           cut => cut', cut' \in BOOLEAN,
           job.ip # <<>> => posted < MaxPackets,
           begun' \in BOOLEAN, stop' \in BOOLEAN,
           lock' \in Writers \union {Nobody}, side = "client" => lock' = Nobody,
           UNCHANGED <<side, open, wire, buf, reading, reasm, due, owed, whole, wrong, posted, garbled>>
    PROVE  StreamInv'
<1>1. /\ todo = [v \in Writers |-> todo[v]] /\ \A v \in Writers : GoodJob(side, v, todo[v])
      /\ side \in {"server", "client"}
  BY DEF StreamInv, Typed
<1>2. todo'[w] = job /\ (\A v \in Writers : v # w => todo'[v] = todo[v]) /\ todo' = [v \in Writers |-> todo'[v]]
  BY <1>1
<1>3. ~Halfway(w)'
  BY <1>2 DEF Halfway
<1>4. \A v \in Writers : v # w => Halfway(v)' = Halfway(v)
  BY <1>2 DEF Halfway, Busy
<1>5. Typed'
  <2>1. \A v \in Writers : GoodJob(side, v, todo'[v])
    BY <1>1, <1>2
  <2>2. Sendable(side)' = Sendable(side) /\ \A v \in Writers : GoodJob(side, v, todo[v])' = GoodJob(side, v, todo'[v])
    BY DEF Sendable, GoodJob, Started, Written, CanSend, Rest
  <2>3. QED
    BY <1>2, <2>1, <2>2 DEF StreamInv, Typed
<1>6. OneAtATime'
  <2>1. garbled' = garbled
    OBVIOUS
  <2>2. ASSUME ~garbled, NEW u \in Writers, NEW v \in Writers, Halfway(u)', Halfway(v)' PROVE u = v
    <3>1. u # w /\ v # w
      BY <1>3, <2>2
    <3>2. Halfway(u) /\ Halfway(v)
      BY <1>4, <2>2, <3>1
    <3>3. QED
      BY <2>2, <3>2 DEF StreamInv, OneAtATime
  <2>3. QED
    BY <2>1, <2>2 DEF OneAtATime
<1>7. BytesFollow'
  <2>1. SUFFICES ASSUME ~garbled PROVE \E e \in Nat : Laid(buf \o wire, due, e) /\ EndsAt(e)'
    BY DEF BytesFollow
  <2>2. PICK e \in Nat : Laid(buf \o wire, due, e) /\ EndsAt(e)
    BY <2>1 DEF StreamInv, BytesFollow
  <2>3. EndsAt(e)'
    <3>1. SUFFICES ASSUME ~cut' PROVE EndsAt(e)'
      BY DEF EndsAt
    <3>2. ~cut /\ ~Halfway(w)
      BY <3>1
    <3>3. \A v \in Writers : Halfway(v)' <=> Halfway(v)
      BY <1>3, <1>4, <3>2
    <3>4. \A v \in Writers : Halfway(v) => todo'[v] = todo[v]
      BY <1>2, <3>2
    <3>5. QED
      BY <2>2, <3>2, <3>3, <3>4 DEF EndsAt
  <2>4. QED
    BY <2>2, <2>3
<1> DEFINE D == Data[side]
<1>8. D \in Writers /\ D' = D
  BY <1>1, DataWrites DEF Data
<1>9. ~cut' => Started(todo'[D]) = Started(todo[D]) /\ (Started(todo[D]) # 0 => todo'[D] = todo[D])
  BY <1>2, <1>8
<1>10. PacketsFollow'
  <2>1. SUFFICES ASSUME ~garbled
                 PROVE  \E k, c \in Nat : Follows(due, owed, reasm[Session], k, c) /\ StandsAt(k, c)'
    BY DEF PacketsFollow
  <2>2. PICK k, c \in Nat : Follows(due, owed, reasm[Session], k, c) /\ StandsAt(k, c)
    BY <2>1 DEF StreamInv, PacketsFollow
  <2>3. StandsAt(k, c)'
    <3>1. SUFFICES ASSUME ~cut' PROVE StandsAt(k, c)'
      BY DEF StandsAt
    <3>2. ~cut
      BY <3>1
    <3>3. CASE Started(todo[D]) # 0
      <4>1. todo'[D] = todo[D]
        BY <1>9, <3>1, <3>3
      <4>2. QED
        BY <1>8, <2>2, <3>2, <4>1 DEF StandsAt, Started, Written
    <3>4. CASE Started(todo[D]) = 0
      <4>1. Started(todo[D])' = 0
        BY <1>8, <1>9, <3>1, <3>4 DEF Started, Written
      <4>2. ~(0 < 0)
        OBVIOUS
      <4>3. k = Len(owed) + 1 /\ c = 0
        BY <2>2, <3>2, <3>4, <4>2 DEF StandsAt
      <4>4. QED
        BY <1>8, <4>1, <4>2, <4>3 DEF StandsAt
    <3>5. QED
      BY <3>3, <3>4
  <2>4. QED
    BY <2>2, <2>3
<1>11. Counted'
  <2>1. ~cut' /\ Started(todo'[D]) > 0 => ~cut /\ Started(todo[D]) > 0
    BY <1>9
  <2>2. Started(todo[D])' = Started(todo'[D])
    BY <1>8 DEF Started, Written
  <2>3. QED
    BY <1>8, <2>1, <2>2 DEF StreamInv, Counted
<1>12. WithinBound'
  <2>1. Started(todo[D])' = Started(todo'[D])
    BY <1>8 DEF Started, Written
  <2>2. todo'[D].ip # <<>> /\ Started(todo'[D]) = 0 => posted < MaxPackets
    <3>1. CASE D = w
      BY <1>2, <3>1
    <3>2. CASE D # w
      BY <1>2, <1>8, <3>2 DEF StreamInv, WithinBound
    <3>3. QED
      BY <3>1, <3>2
  <2>3. QED
    BY <1>8, <2>1, <2>2 DEF StreamInv, WithinBound
<1>13. QED
  BY <1>5, <1>6, <1>7, <1>10, <1>11, <1>12 DEF StreamInv

-----------------------------------------------------------------------------
\* Writing.

\* w writes n bytes of its packet.
Writing(w, n) ==
    /\ todo[w].frames # <<>> /\ open
    /\ todo[w].at + n <= Len(Bytes(todo[w].frames[1])) /\ Len(wire) + n <= WireSize
    /\ wire' = wire \o SubSeq(Bytes(todo[w].frames[1]), todo[w].at + 1, todo[w].at + n)
    /\ todo' = [todo EXCEPT ![w] = After(todo[w], n)]
    /\ lock' = IF Left(todo[w], n) = <<>> /\ lock = w THEN Nobody ELSE lock
    /\ garbled' = (garbled \/ cut \/ \E v \in Writers \ {w} : Halfway(v))
    /\ posted' = IF First(todo[w]) THEN posted + 1 ELSE posted
    /\ garbled' => due' = <<>> /\ owed' = <<>> /\ whole' = 0
    /\ ~garbled' =>
         /\ due' = IF todo[w].at = 0 THEN Append(due, todo[w].frames[1]) ELSE due
         /\ owed' = IF First(todo[w]) THEN Append(owed, todo[w].ip) ELSE owed
         /\ whole' = IF Left(todo[w], n) = <<>> /\ todo[w].ip # <<>> THEN whole + 1 ELSE whole
    /\ UNCHANGED <<side, begun, stop, open, cut, buf, reading, reasm, wrong>>

\* The action writes some bytes.
LEMMA WriteIsWriting ==
    ASSUME StreamInv, NEW w \in Writers, Write(w)
    PROVE  \E n \in Nat \ {0} : Writing(w, n)
<1> DEFINE frame == todo[w].frames[1]
           bytes == Bytes(frame)
           at == todo[w].at
           room == WireSize - Len(wire)
           n == IF Len(bytes) - at < room THEN Len(bytes) - at ELSE room
           ends == at + n = Len(bytes)
           left == IF ends THEN Tail(todo[w].frames) ELSE todo[w].frames
           first == at = 0 /\ todo[w].frames = Fragments(todo[w].ip)
<1>1. /\ Busy(w) /\ open /\ room > 0
      /\ wire' = wire \o SubSeq(bytes, at + 1, at + n)
      /\ todo' = [todo EXCEPT ![w] = IF left = <<>> THEN Done
                        ELSE [frames |-> left, at |-> IF ends THEN 0 ELSE at + n, ip |-> todo[w].ip]]
      /\ IF left = <<>> THEN Release(w) ELSE UNCHANGED lock
      /\ garbled' = (garbled \/ cut \/ \E v \in Writers \ {w} : Halfway(v))
      /\ posted' = IF first THEN posted + 1 ELSE posted
      /\ IF garbled' THEN due' = <<>> /\ owed' = <<>> /\ whole' = 0
         ELSE /\ due' = IF at = 0 THEN Append(due, frame) ELSE due
              /\ owed' = IF first THEN Append(owed, todo[w].ip) ELSE owed
              /\ whole' = IF left = <<>> /\ todo[w].ip # <<>> THEN whole + 1 ELSE whole
      /\ UNCHANGED <<side, begun, stop, open, cut, atReader>>
  BY DEF Write
<1> HIDE DEF n
<1>2. Finishes(todo[w], n) = ends /\ Left(todo[w], n) = left
  BY DEF Finishes, Left
<1>3. todo' = [todo EXCEPT ![w] = After(todo[w], n)]
  BY <1>1, <1>2 DEF After, Finishes, Left
<1>4. todo[w].frames # <<>> /\ GoodJob(side, w, todo[w])
  BY <1>1 DEF Busy, StreamInv, Typed
<1>5. at \in 0..(Len(bytes) - 1) /\ Len(bytes) \in Nat
  BY <1>4, FrameFacts
<1>6. Len(wire) \in Nat /\ WireSize \in Nat
  BY WireFacts, DeliveryConstants DEF StreamInv
<1> DEFINE L == Len(bytes)
           k == Len(wire)
           a == at
<1>7. n \in Nat \ {0} /\ a + n <= L /\ k + n <= WireSize
  <2>1. n = (IF L - a < room THEN L - a ELSE room) /\ room = WireSize - k /\ room > 0
    BY <1>1 DEF n
  <2>2. L \in Nat /\ a \in 0..(L - 1) /\ k \in Nat /\ WireSize \in Nat
    BY <1>5, <1>6
  <2> HIDE DEF L, k, a, room
  <2>3. QED
    BY <2>1, <2>2
<1>8. lock' = IF Left(todo[w], n) = <<>> /\ lock = w THEN Nobody ELSE lock
  BY <1>1, <1>2 DEF Release
<1>9. First(todo[w]) = first
  BY DEF First
<1>10. UNCHANGED <<side, begun, stop, open, cut, buf, reading, reasm, wrong>>
  BY <1>1 DEF atReader
<1>11. /\ garbled' => due' = <<>> /\ owed' = <<>> /\ whole' = 0
       /\ ~garbled' =>
            /\ due' = IF todo[w].at = 0 THEN Append(due, todo[w].frames[1]) ELSE due
            /\ owed' = IF First(todo[w]) THEN Append(owed, todo[w].ip) ELSE owed
            /\ whole' = IF Left(todo[w], n) = <<>> /\ todo[w].ip # <<>> THEN whole + 1 ELSE whole
  <2> HIDE DEF first, left
  <2>1. QED
    BY <1>1, <1>2, <1>9
<1>12. posted' = IF First(todo[w]) THEN posted + 1 ELSE posted
  <2> HIDE DEF first
  <2>1. QED
    BY <1>1, <1>9
<1> HIDE DEF room, left, first, ends
<1>13. Writing(w, n)
  BY <1>1, <1>3, <1>4, <1>7, <1>8, <1>10, <1>11, <1>12 DEF Writing
<1>14. QED
  BY <1>7, <1>13

\* The thread that writes, and its packet.
LEMMA WriterFacts ==
    ASSUME StreamInv, NEW w \in Writers, NEW n \in Nat \ {0}, Writing(w, n)
    PROVE  /\ GoodJob(side, w, todo[w]) /\ todo[w].frames # <<>>
           /\ todo[w].frames[1] \in Sendable(side) /\ Fits(todo[w].frames[1])
           /\ Bytes(todo[w].frames[1]) \in Seq(Octets) /\ Len(Bytes(todo[w].frames[1])) \in Nat
           /\ todo[w].at \in Nat /\ todo[w].at < Len(Bytes(todo[w].frames[1]))
           /\ todo[w].ip \in Seq(Octets)
           /\ todo'[w] = After(todo[w], n) /\ \A v \in Writers : v # w => todo'[v] = todo[v]
           /\ todo' = [v \in Writers |-> todo'[v]]
<1>1. GoodJob(side, w, todo[w]) /\ todo[w].frames # <<>> /\ todo = [v \in Writers |-> todo[v]]
  BY DEF Writing, StreamInv, Typed
<1>2. /\ todo[w].frames[1] \in Sendable(side) /\ Fits(todo[w].frames[1])
      /\ Bytes(todo[w].frames[1]) \in Seq(Octets) /\ Len(Bytes(todo[w].frames[1])) \in Nat
  BY <1>1, FrameFacts
<1>3. todo[w].at \in Nat /\ todo[w].at < Len(Bytes(todo[w].frames[1])) /\ todo[w].ip \in Seq(Octets)
  BY <1>1 DEF GoodJob
<1>4. todo' = [todo EXCEPT ![w] = After(todo[w], n)]
  BY DEF Writing
<1>5. todo'[w] = After(todo[w], n) /\ (\A v \in Writers : v # w => todo'[v] = todo[v])
      /\ todo' = [v \in Writers |-> todo'[v]]
  <2> DEFINE next == After(todo[w], n)
  <2> HIDE DEF next
  <2>1. todo' = [todo EXCEPT ![w] = next]
    BY <1>4 DEF next
  <2>2. QED
    BY <1>1, <2>1 DEF next
<1>6. QED
  BY <1>1, <1>2, <1>3, <1>5

\* Whose frame is whose.
LEMMA FirstFacts ==
    ASSUME StreamInv, NEW w \in Writers, NEW n \in Nat \ {0}, Writing(w, n)
    PROVE  LET job == todo[w]
           IN  /\ job.ip = <<>> => ~First(job) /\ job.frames[1].code # Code.DATA
               /\ job.ip # <<>> =>
                    /\ w = Data[side] /\ job.ip \in IPPackets
                    /\ Written(job) \in 0..(Pieces(job.ip) - 1) /\ Pieces(job.ip) \in Nat \ {0}
                    /\ job.frames[1] = Fragments(job.ip)[Written(job) + 1]
                    /\ job.frames[1].code = Code.DATA
                    /\ First(job) <=> Started(job) = 0
                    /\ Started(job) = IF job.at > 0 THEN Written(job) + 1 ELSE Written(job)
<1> DEFINE job == todo[w]
<1>1. GoodJob(side, w, job) /\ job.frames # <<>> /\ job.ip \in Seq(Octets) /\ job.at \in Nat
  BY WriterFacts
<1> HIDE DEF job
<1>2. ASSUME job.ip = <<>> PROVE ~First(job) /\ job.frames[1].code # Code.DATA
  BY <1>1, <1>2, FrameFacts, NoFragments DEF First
<1>3. ASSUME job.ip # <<>>
      PROVE  /\ w = Data[side] /\ job.ip \in IPPackets
             /\ Written(job) \in 0..(Pieces(job.ip) - 1) /\ Pieces(job.ip) \in Nat \ {0}
             /\ job.frames[1] = Fragments(job.ip)[Written(job) + 1]
             /\ job.frames[1].code = Code.DATA
             /\ (First(job) <=> Started(job) = 0)
             /\ Started(job) = IF job.at > 0 THEN Written(job) + 1 ELSE Written(job)
  <2>1. job.ip \in IPPackets /\ w = Data[side] /\ job.frames = Rest(job.ip, Written(job))
    BY <1>1, <1>3 DEF GoodJob, IPPackets
  <2>2. /\ Written(job) \in 0..(Pieces(job.ip) - 1) /\ Pieces(job.ip) \in Nat \ {0}
        /\ job.frames[1] = Fragments(job.ip)[Written(job) + 1]
    BY <1>1, <1>3, <2>1, FrameFacts, PiecesFacts
  <2> DEFINE q == Written(job)
             p == Pieces(job.ip)
  <2>3. q \in 0..(p - 1) /\ p \in Nat
    BY <2>2
  <2>4. q + 1 \in 1..p
    <3> HIDE DEF q, p
    <3>1. QED
      BY <2>3
  <2>5. job.frames[1].code = Code.DATA
    BY <2>1, <2>2, <2>4, FragmentFacts
  <2>6. job.frames = Fragments(job.ip) <=> q = 0
    BY <2>1, <2>2, RestFacts, ZenonT(60)
  <2>7. Started(job) = IF job.at > 0 THEN q + 1 ELSE q
    BY <1>3 DEF Started
  <2>8. First(job) <=> job.at = 0 /\ q = 0
    BY <2>6 DEF First
  <2> DEFINE a == job.at
             st == Started(job)
  <2>9. a \in Nat /\ st = IF a > 0 THEN q + 1 ELSE q
    BY <1>1, <2>7
  <2>10. st = 0 <=> a = 0 /\ q = 0
    <3> HIDE DEF q, p, a, st
    <3>1. QED
      BY <2>3, <2>9
  <2>11. First(job) <=> Started(job) = 0
    BY <2>8, <2>10
  <2>12. QED
    BY <2>1, <2>2, <2>5, <2>7, <2>11
<1>4. QED
  BY <1>2, <1>3 DEF job

\* What depends on the side stays.
LEMMA SideStays ==
    ASSUME side' = side
    PROVE  /\ Sendable(side)' = Sendable(side) /\ Data[side]' = Data[side]
           /\ \A v \in Writers : GoodJob(side, v, todo[v])' <=> GoodJob(side, v, todo'[v])
           /\ \A v \in Writers : Started(todo[v])' = Started(todo'[v])
BY DEF Sendable, GoodJob, Started, Written, CanSend, Rest, Data

\* Writing keeps the types,
LEMMA WriteTyped ==
    ASSUME StreamInv, NEW w \in Writers, NEW n \in Nat \ {0}, Writing(w, n)
    PROVE  Typed'
<1> DEFINE f == todo[w].frames[1]
           bytes == Bytes(f)
           at == todo[w].at
           piece == SubSeq(bytes, at + 1, at + n)
<1>1. /\ GoodJob(side, w, todo[w]) /\ todo[w].frames # <<>> /\ f \in Sendable(side)
      /\ bytes \in Seq(Octets) /\ Len(bytes) \in Nat /\ at \in Nat /\ todo[w].ip \in Seq(Octets)
      /\ todo'[w] = After(todo[w], n) /\ (\A v \in Writers : v # w => todo'[v] = todo[v])
      /\ todo' = [v \in Writers |-> todo'[v]]
  BY WriterFacts
<1>2. at + n <= Len(bytes) /\ Len(wire) + n <= WireSize /\ wire' = wire \o piece
  BY DEF Writing
<1>3. piece \in Seq(Octets) /\ Len(piece) = n
  <2> DEFINE L == Len(bytes)
             lo == at + 1
             hi == at + n
             a == at
  <2>1. a \in Nat /\ a + n <= L /\ L \in Nat /\ lo = a + 1 /\ hi = a + n
    BY <1>1, <1>2
  <2> HIDE DEF L, a, lo, hi
  <2>2. lo \in Nat \ {0} /\ hi \in Nat /\ lo <= hi + 1 /\ hi <= L /\ hi - lo + 1 = n
    BY <2>1
  <2>3. SubSeq(bytes, lo, hi) \in Seq(Octets) /\ Len(SubSeq(bytes, lo, hi)) = hi - lo + 1
    BY <1>1, <2>2, PartFacts DEF L
  <2>4. QED
    BY <2>2, <2>3 DEF lo, hi
<1> HIDE DEF piece
<1>4. wire' \in Seq(Octets) /\ Len(wire') <= WireSize
  <2>1. wire \in Seq(Octets)
    BY DEF StreamInv, Typed
  <2>2. wire \o piece \in Seq(Octets) /\ Len(wire \o piece) = Len(wire) + Len(piece)
    BY <2>1, <1>3, ConcatProperties
  <2>3. QED
    BY <2>2, <1>2, <1>3
<1>5. \A v \in Writers : GoodJob(side, v, todo'[v])
  <2>1. GoodJob(side, w, After(todo[w], n))
    BY <1>1, <1>2, AfterFacts
  <2>2. \A v \in Writers : GoodJob(side, v, todo[v])
    BY DEF StreamInv, Typed
  <2>3. QED
    BY <1>1, <2>1, <2>2
<1>6. due' \in Seq(Sendable(side)) /\ owed' \in Seq(IPPackets) /\ whole' \in Nat
  <2>1. due \in Seq(Sendable(side)) /\ owed \in Seq(IPPackets) /\ whole \in Nat
    BY DEF StreamInv, Typed
  <2>2. CASE garbled'
    <3>1. due' = <<>> /\ owed' = <<>> /\ whole' = 0
      BY <2>2 DEF Writing
    <3>2. QED
      BY <3>1
  <2>3. CASE ~garbled'
    <3>1. /\ due' = IF todo[w].at = 0 THEN Append(due, f) ELSE due
          /\ owed' = IF First(todo[w]) THEN Append(owed, todo[w].ip) ELSE owed
          /\ whole' = IF Left(todo[w], n) = <<>> /\ todo[w].ip # <<>> THEN whole + 1 ELSE whole
      BY <2>3 DEF Writing
    <3>2. due' \in Seq(Sendable(side))
      <4> DEFINE S == Sendable(side)
      <4>1. Append(due, f) \in Seq(S)
        <5> HIDE DEF S, f
        <5>1. QED
          BY <1>1, <2>1, AppendProperties DEF S
      <4>2. QED
        BY <3>1, <2>1, <4>1
    <3>3. owed' \in Seq(IPPackets)
      <4>1. First(todo[w]) => todo[w].ip \in IPPackets
        BY FirstFacts
      <4>2. First(todo[w]) => Append(owed, todo[w].ip) \in Seq(IPPackets)
        BY <4>1, <2>1, AppendProperties
      <4>3. QED
        BY <3>1, <2>1, <4>2
    <3>4. whole' \in Nat
      <4> HIDE DEF f
      <4>1. whole' = whole \/ whole' = whole + 1
        BY <3>1
      <4>2. QED
        BY <2>1, <4>1
    <3>5. QED
      BY <3>2, <3>3, <3>4
  <2>4. QED
    BY <2>2, <2>3
<1>7. posted' \in Nat /\ lock' \in Writers \union {Nobody} /\ (side = "client" => lock' = Nobody)
  <2>1. (posted' = posted \/ posted' = posted + 1) /\ (lock' = lock \/ lock' = Nobody)
    BY DEF Writing
  <2>2. posted \in Nat /\ lock \in Writers \union {Nobody} /\ (side = "client" => lock = Nobody)
    BY DEF StreamInv, Typed
  <2>3. QED
    BY <2>1, <2>2
<1>8. garbled' \in BOOLEAN
  BY DEF Writing
<1>9. UNCHANGED <<side, begun, stop, open, cut, buf, reading, reasm, wrong>>
  BY DEF Writing
<1>10. Sendable(side)' = Sendable(side) /\ \A v \in Writers : GoodJob(side, v, todo[v])' <=> GoodJob(side, v, todo'[v])
  BY <1>9, SideStays
<1>11. QED
  BY <1>1, <1>4, <1>5, <1>6, <1>7, <1>8, <1>9, <1>10 DEF StreamInv, Typed

\* Unless the stream is garbled, no one else has a packet written in part.
LEMMA WriteAlone ==
    ASSUME StreamInv, NEW w \in Writers, NEW n \in Nat \ {0}, Writing(w, n), ~garbled'
    PROVE  /\ ~garbled /\ ~cut /\ ~cut' /\ open
           /\ \A v \in Writers : v # w => ~Halfway(v) /\ ~Halfway(v)'
           /\ Halfway(w) <=> todo[w].at > 0
           /\ Halfway(w)' <=> ~Finishes(todo[w], n)
<1>1. ~garbled /\ ~cut /\ ~cut' /\ open /\ \A v \in Writers : v # w => ~Halfway(v)
  BY DEF Writing
<1>2. /\ GoodJob(side, w, todo[w]) /\ todo[w].frames # <<>>
      /\ todo'[w] = After(todo[w], n) /\ (\A v \in Writers : v # w => todo'[v] = todo[v])
      /\ todo[w].at + n <= Len(Bytes(todo[w].frames[1]))
  BY WriterFacts DEF Writing
<1>3. \A v \in Writers : v # w => ~Halfway(v)'
  BY <1>1, <1>2 DEF Halfway, Busy
<1>4. Halfway(w) <=> todo[w].at > 0
  BY <1>2 DEF Halfway, Busy
<1> DEFINE next == After(todo[w], n)
<1>5. /\ Finishes(todo[w], n) => next.at = 0
      /\ ~Finishes(todo[w], n) => next.at > 0 /\ next.frames # <<>>
  BY <1>2, AfterFacts
<1>6. Halfway(w)' <=> ~Finishes(todo[w], n)
  <2>1. Halfway(w)' <=> next.frames # <<>> /\ next.at > 0
    BY <1>2 DEF Halfway, Busy
  <2> HIDE DEF next
  <2>2. QED
    BY <1>5, <2>1
<1>7. QED
  BY <1>1, <1>3, <1>4, <1>6

\* and one packet at most in part.
LEMMA WriteOne ==
    ASSUME StreamInv, NEW w \in Writers, NEW n \in Nat \ {0}, Writing(w, n)
    PROVE  OneAtATime'
<1>1. SUFFICES ASSUME ~garbled', NEW u \in Writers, NEW v \in Writers, Halfway(u)', Halfway(v)' PROVE u = v
  BY DEF OneAtATime
<1>2. u = w /\ v = w
  BY <1>1, WriteAlone
<1>3. QED
  BY <1>2

\* Joining bytes in any order.
LEMMA Regroup ==
    ASSUME NEW a \in Seq(Octets), NEW b \in Seq(Octets), NEW c \in Seq(Octets)
    PROVE  a \o (b \o c) = (a \o b) \o c
BY ConcatAssociative, SMTT(30)

\* The bytes written are the next of what is due.
LEMMA WriteBytes ==
    ASSUME StreamInv, NEW w \in Writers, NEW n \in Nat \ {0}, Writing(w, n)
    PROVE  BytesFollow'
<1> DEFINE f == todo[w].frames[1]
           bytes == Bytes(f)
           L == Len(bytes)
           at == todo[w].at
           piece == SubSeq(bytes, at + 1, at + n)
           s == buf \o wire
           S == Sendable(side)
<1>1. SUFFICES ASSUME ~garbled'
               PROVE  \E e \in Nat : Laid(buf' \o wire', due', e) /\ EndsAt(e)'
  BY DEF BytesFollow
<1>2. /\ ~garbled /\ ~cut /\ open /\ (\A v \in Writers : v # w => ~Halfway(v) /\ ~Halfway(v)')
      /\ (Halfway(w) <=> at > 0) /\ (Halfway(w)' <=> ~Finishes(todo[w], n))
  BY <1>1, WriteAlone
<1>3. /\ GoodJob(side, w, todo[w]) /\ todo[w].frames # <<>> /\ f \in S /\ bytes \in Seq(Octets)
      /\ L \in Nat /\ at \in Nat /\ at < L /\ todo'[w] = After(todo[w], n)
  BY WriterFacts
<1>4. /\ at + n <= L /\ wire' = wire \o piece /\ buf' = buf /\ open' = open
      /\ due' = IF at = 0 THEN Append(due, f) ELSE due
  BY <1>1 DEF Writing
<1>5. PICK e0 \in Nat : Laid(s, due, e0) /\ EndsAt(e0)
  BY <1>2 DEF StreamInv, BytesFollow
<1>6. /\ due \in Seq(S) /\ s \in Seq(Octets) /\ Len(s) \in Nat /\ buf \in Seq(Octets) /\ wire \in Seq(Octets)
      /\ \A p \in S : Fits(p)
  BY WireFacts, AllFit DEF StreamInv, Typed
<1> HIDE DEF S, L, s
<1>7. PICK e \in Nat : e = Len(s) + L - at
  <2>1. Len(s) + L - at \in Nat
    BY <1>3, <1>6
  <2>2. QED
    BY <2>1
<1>8. due' \in Seq(S) /\ due' # <<>> /\ due'[Len(due')] = f /\ Laid(s, due', e)
  <2>1. CASE at = 0
    <3>1. due' = Append(due, f)
      BY <1>4, <2>1
    <3> HIDE DEF f
    <3>2. Append(due, f) \in Seq(S) /\ Len(Append(due, f)) = Len(due) + 1 /\ Len(due) \in Nat
          /\ Append(due, f)[Len(due) + 1] = f
      BY <1>3, <1>6, AppendProperties, LenProperties
    <3>3. Append(due, f) # <<>>
      <4> DEFINE d == Append(due, f)
                 m == Len(due)
      <4>1. Len(d) = m + 1 /\ m \in Nat
        BY <3>2
      <4> HIDE DEF d, m
      <4>2. Len(d) # 0
        BY <4>1
      <4>3. QED
        BY <4>2 DEF d
    <3>4. \A v \in Writers : ~Halfway(v)
      <4>1. ~(at > 0)
        BY <2>1
      <4>2. QED
        BY <4>1, <1>2
    <3>5. e0 = Len(s)
      BY <3>4, <1>2, <1>5 DEF EndsAt, s
    <3>6. Laid(s, due, Len(s))
      BY <3>5, <1>5
    <3>7. Laid(s, Append(due, f), Len(s) + Len(Bytes(f)))
      BY <3>6, <1>3, <1>6, LaidNext
    <3>8. e = Len(s) + Len(Bytes(f))
      <4>1. \A x \in Nat : Len(s) + x - 0 = Len(s) + x
        BY <1>6
      <4>2. QED
        BY <4>1, <2>1, <1>3, <1>7 DEF L
    <3>9. QED
      BY <3>1, <3>2, <3>3, <3>7, <3>8
  <2>2. CASE at # 0
    <3>1. due' = due
      BY <1>4, <2>2
    <3>2. Halfway(w)
      <4>1. at > 0
        BY <1>3, <2>2
      <4>2. QED
        BY <4>1, <1>2
    <3>3. due # <<>> /\ due[Len(due)] = f /\ e0 = Len(s) + (L - at)
      BY <3>2, <1>2, <1>5 DEF EndsAt, s, L
    <3>4. e0 = e
      <4> DEFINE a == at
      <4>1. a \in Nat /\ e0 = Len(s) + (L - a) /\ e = Len(s) + L - a
        BY <1>3, <1>7, <3>3
      <4> HIDE DEF a
      <4>2. QED
        BY <4>1, <1>3, <1>6
    <3>5. QED
      BY <3>1, <3>3, <3>4, <1>5, <1>6
  <2>3. QED
    BY <2>1, <2>2
<1>9. Laid(s \o piece, due', e)
  <2>1. at + n <= Len(Bytes(due'[Len(due')])) /\ e = Len(s) + Len(Bytes(due'[Len(due')])) - at
    BY <1>4, <1>7, <1>8 DEF L
  <2> DEFINE d == due'
             a == at
  <2>2. /\ d \in Seq(S) /\ d # <<>> /\ Laid(s, d, e) /\ a \in Nat /\ n \in Nat
        /\ a + n <= Len(Bytes(d[Len(d)])) /\ e = Len(s) + Len(Bytes(d[Len(d)])) - a
    BY <2>1, <1>3, <1>8
  <2> HIDE DEF d, a
  <2>3. Laid(s \o SubSeq(Bytes(d[Len(d)]), a + 1, a + n), d, e)
    BY <2>2, <1>6, LaidOn
  <2>4. QED
    BY <2>3, <1>8 DEF d, a
<1>10. piece \in Seq(Octets) /\ Len(piece) = n
  <2> DEFINE lo == at + 1
             hi == at + n
             a == at
  <2>1. a \in Nat /\ a + n <= L /\ L \in Nat /\ lo = a + 1 /\ hi = a + n
    BY <1>3, <1>4
  <2> HIDE DEF a, lo, hi
  <2>2. lo \in Nat \ {0} /\ hi \in Nat /\ lo <= hi + 1 /\ hi <= L /\ hi - lo + 1 = n
    BY <2>1
  <2>3. SubSeq(bytes, lo, hi) \in Seq(Octets) /\ Len(SubSeq(bytes, lo, hi)) = hi - lo + 1
    BY <1>3, <2>2, PartFacts DEF L
  <2>4. QED
    BY <2>2, <2>3 DEF lo, hi
<1> HIDE DEF piece
<1>11. buf' \o wire' = s \o piece /\ Len(s \o piece) = Len(s) + n
  <2>1. buf \o (wire \o piece) = (buf \o wire) \o piece
    BY <1>6, <1>10, Regroup, SMTT(30)
  <2>2. Len(s \o piece) = Len(s) + Len(piece)
    BY <1>6, <1>10, ConcatProperties
  <2>3. QED
    BY <2>1, <2>2, <1>4, <1>10 DEF s
<1>12. EndsAt(e)'
  <2>1. CASE Finishes(todo[w], n)
    <3>1. at + n = L
      BY <2>1 DEF Finishes, L
    <3>2. \A v \in Writers : ~Halfway(v)'
      BY <2>1, <1>2
    <3>3. e = Len(s) + n
      <4> DEFINE a == at
                 l == Len(s)
      <4>1. a \in Nat /\ l \in Nat /\ L \in Nat /\ a + n = L /\ e = l + L - a
        BY <3>1, <1>3, <1>6, <1>7
      <4> HIDE DEF a, l
      <4>2. e = l + n
        BY <4>1
      <4>3. QED
        BY <4>2 DEF l
    <3>4. e = Len(buf' \o wire')
      BY <3>3, <1>11
    <3>5. QED
      BY <3>2, <3>4 DEF EndsAt
  <2>2. CASE ~Finishes(todo[w], n)
    <3>1. todo'[w].frames = todo[w].frames /\ todo'[w].at = at + n
      <4> DEFINE next == After(todo[w], n)
      <4>1. at + n <= Len(Bytes(todo[w].frames[1]))
        BY <1>4 DEF L
      <4>2. next.frames = todo[w].frames /\ next.at = todo[w].at + n
        BY <2>2, <1>3, <4>1, AfterFacts
      <4> HIDE DEF next
      <4>3. todo'[w] = next
        BY <1>3 DEF next
      <4>4. QED
        BY <4>2, <4>3
    <3>2. e = (Len(s) + n) + (L - (at + n))
      BY <1>3, <1>6, <1>7, SMTT(30)
    <3> DEFINE rest == Len(Bytes(todo'[w].frames[1])) - todo'[w].at
    <3>3. rest = L - (at + n)
      BY <3>1 DEF L
    <3>4. e = Len(buf' \o wire') + rest
      BY <3>2, <3>3, <1>11
    <3>5. due' # <<>> /\ due'[Len(due')] = todo'[w].frames[1]
      BY <3>1, <1>8
    <3>6. e >= e
      BY <1>7
    <3> HIDE DEF rest
    <3>7. Halfway(w)' /\ e >= Len(buf' \o wire') + rest
      BY <3>4, <3>6, <2>2, <1>2
    <3>8. \A v \in Writers : Halfway(v)' => v = w
      BY <1>2
    <3>9. QED
      BY <3>4, <3>5, <3>7, <3>8 DEF EndsAt, rest
  <2>3. QED
    BY <2>1, <2>2
<1>13. Laid(buf' \o wire', due', e)
  BY <1>9, <1>11
<1>14. QED
  BY <1>7, <1>12, <1>13

\* What is left of the packet, and how far it is.
LEMMA WriteNext ==
    ASSUME StreamInv, NEW w \in Writers, NEW n \in Nat \ {0}, Writing(w, n)
    PROVE  LET job == todo[w]
               next == todo'[w]
           IN  /\ Left(job, n) = <<>> => next.ip = <<>> /\ (job.ip # <<>> => Written(job) + 1 = Pieces(job.ip))
               /\ Left(job, n) # <<>> => next.ip = job.ip
               /\ Left(job, n) # <<>> /\ job.ip # <<>> => Started(next) = Written(job) + 1
               /\ Left(job, n) = <<>> \/ job.ip = <<>> => Started(next) = 0
<1> DEFINE job == todo[w]
           next == After(job, n)
<1>1. /\ GoodJob(side, w, job) /\ job.frames # <<>> /\ todo'[w] = next
      /\ job.at + n <= Len(Bytes(job.frames[1]))
  BY WriterFacts DEF Writing
<1>2. /\ Left(job, n) = <<>> => next = Done /\ (job.ip # <<>> => Written(job) + 1 = Pieces(job.ip))
      /\ Left(job, n) # <<>> => next.ip = job.ip
      /\ Left(job, n) # <<>> /\ job.ip # <<>> => Started(next) = Written(job) + 1
      /\ Left(job, n) = <<>> \/ job.ip = <<>> => Started(next) = 0
  BY <1>1, AfterFacts
<1>3. Done.ip = <<>>
  BY DEF Done, Job
<1> HIDE DEF next
<1>4. QED
  BY <1>1, <1>2, <1>3

\* The packets stay in step: nothing of an IP packet is written.
LEMMA WriteOther ==
    ASSUME StreamInv, NEW w \in Writers, NEW n \in Nat \ {0}, Writing(w, n), todo[w].ip = <<>>
    PROVE  PacketsFollow' /\ Counted' /\ WithinBound'
<1> DEFINE D == Data[side]
           f == todo[w].frames[1]
           S == Sendable(side)
<1>1. ~First(todo[w]) /\ f.code # Code.DATA
  BY FirstFacts
<1>2. D \in Writers /\ UNCHANGED <<side, cut, reasm>>
  BY DataWrites DEF StreamInv, Typed, Writing
<1>3. Started(todo'[w]) = 0 /\ todo'[w].ip = <<>> /\ Started(todo[w]) = 0
  BY WriteNext DEF Started
<1>4. \A v \in Writers : v # w => todo'[v] = todo[v]
  BY WriterFacts
<1>5. Started(todo'[D]) = Started(todo[D]) /\ todo'[D].ip = todo[D].ip
      /\ (Started(todo[D]) # 0 => todo'[D] = todo[D])
  BY <1>2, <1>3, <1>4
<1>6. D' = D /\ \A v \in Writers : Started(todo[v])' = Started(todo'[v])
  BY <1>2, SideStays
<1>7. posted' = posted
  BY <1>1 DEF Writing
<1>8. WithinBound'
  BY <1>2, <1>5, <1>6, <1>7 DEF StreamInv, WithinBound
<1>9. CASE garbled'
  <2>1. due' = <<>> /\ owed' = <<>> /\ whole' = 0
    BY <1>9 DEF Writing
  <2>2. Len(<<>>) = 0 /\ 0 <= 0
    OBVIOUS
  <2>3. QED
    BY <1>8, <1>9, <2>1, <2>2 DEF PacketsFollow, Counted
<1>10. CASE ~garbled'
  <2>1. ~garbled /\ ~cut
    BY <1>10, WriteAlone
  <2>2. /\ due' = (IF todo[w].at = 0 THEN Append(due, f) ELSE due) /\ owed' = owed /\ whole' = whole
    BY <1>1, <1>10 DEF Writing
  <2>3. Counted'
    BY <1>2, <1>5, <1>6, <1>10, <2>1, <2>2 DEF StreamInv, Counted
  <2>4. PICK k \in Nat, c \in Nat : Follows(due, owed, reasm[Session], k, c) /\ StandsAt(k, c)
    BY <2>1 DEF StreamInv, PacketsFollow
  <2>5. Follows(due', owed', reasm[Session], k, c)
    <3>1. due \in Seq(S) /\ f \in S
      BY WriterFacts DEF StreamInv, Typed
    <3>2. Carries(f, owed, k, c, k, c) /\ k <= k
      BY <1>1 DEF Carries
    <3> HIDE DEF S, f
    <3>3. Follows(Append(due, f), owed, reasm[Session], k, c)
      BY <2>4, <3>1, <3>2, FollowsNext
    <3>4. QED
      BY <2>2, <2>4, <3>3
  <2>6. StandsAt(k, c)'
    <3>1. CASE Started(todo[D]) # 0
      <4>1. todo'[D] = todo[D]
        BY <1>5, <3>1
      <4>2. Pieces(todo[D].ip)' = Pieces(todo[D].ip)
        BY <1>6, <4>1 DEF Pieces
      <4>3. Started(todo[D])' = Started(todo[D]) /\ (todo[D])' = todo[D]
        BY <1>2, <1>6, <4>1
      <4>4. QED
        BY <1>6, <2>1, <2>2, <2>4, <4>2, <4>3 DEF StandsAt
    <3>2. CASE Started(todo[D]) = 0
      <4>1. Started(todo[D])' = 0
        BY <1>2, <1>5, <1>6, <3>2
      <4>2. ~(0 < 0)
        OBVIOUS
      <4>3. k = Len(owed) + 1 /\ c = 0
        BY <2>1, <2>4, <3>2, <4>2 DEF StandsAt
      <4>4. QED
        BY <1>6, <2>2, <4>1, <4>2, <4>3 DEF StandsAt
    <3>3. QED
      BY <3>1, <3>2
  <2>7. PacketsFollow'
    BY <1>2, <2>5, <2>6 DEF PacketsFollow
  <2>8. QED
    BY <1>8, <2>3, <2>7
<1>11. QED
  BY <1>9, <1>10

\* Where the writer of data is, after a step.
LEMMA StandsNext ==
    ASSUME side' = side, NEW w, w = Data[side], NEW k, NEW c
    PROVE  StandsAt(k, c)' <=>
              (~cut' => IF 0 < Started(todo'[w]) /\ Started(todo'[w]) < Pieces(todo'[w].ip)
                        THEN /\ owed' # <<>> /\ owed'[Len(owed')] = todo'[w].ip
                             /\ k = Len(owed') /\ c = Started(todo'[w])
                        ELSE k = Len(owed') + 1 /\ c = 0)
BY DEF StandsAt, Started, Written, Pieces, Data

\* The packets stay in step: a fragment is written.
LEMMA WriteFragment ==
    ASSUME StreamInv, NEW w \in Writers, NEW n \in Nat \ {0}, Writing(w, n), todo[w].ip # <<>>
    PROVE  PacketsFollow' /\ Counted' /\ WithinBound'
<1> DEFINE job == todo[w]
           next == todo'[w]
           ip == job.ip
           f == job.frames[1]
           q == Written(job)
           p == Pieces(ip)
           S == Sendable(side)
<1>1. /\ w = Data[side] /\ ip \in IPPackets /\ q \in 0..(p - 1) /\ p \in Nat \ {0}
      /\ f = Fragments(ip)[q + 1] /\ f.code = Code.DATA
      /\ (First(job) <=> Started(job) = 0)
      /\ Started(job) = IF job.at > 0 THEN q + 1 ELSE q
      /\ ip # <<>>
  BY FirstFacts
<1>2. /\ Left(job, n) = <<>> => next.ip = <<>> /\ q + 1 = p
      /\ Left(job, n) # <<>> => next.ip = ip /\ Started(next) = q + 1
      /\ Left(job, n) = <<>> => Started(next) = 0
  BY WriteNext
<1>3. job.at \in Nat /\ f \in S /\ UNCHANGED <<side, cut, reasm>>
  BY WriterFacts DEF Writing
<1>4. Data[side]' = w /\ Started(todo[w])' = Started(next) /\ (todo[w])' = next
  <2>1. Data[side]' = w
    BY <1>1, <1>3, SideStays
  <2>2. Started(todo[w])' = Started(todo'[w])
    BY <1>3, SideStays
  <2>3. QED
    BY <2>1, <2>2
<1>5. /\ posted' = (IF First(job) THEN posted + 1 ELSE posted) /\ posted \in Nat
      /\ posted <= MaxPackets /\ (Started(job) = 0 => posted < MaxPackets) /\ MaxPackets \in Nat
  BY <1>1, DeliveryConstants DEF Writing, StreamInv, WithinBound, Typed
<1>6. /\ whole \in Nat /\ owed \in Seq(IPPackets) /\ due \in Seq(S) /\ Len(owed) \in Nat
  BY LenProperties DEF StreamInv, Typed
<1> HIDE DEF job, next, ip, f, q, p, S
<1>7. Started(next) # 0 \/ next.ip = <<>>
  BY <1>1, <1>2
<1>8. posted' <= MaxPackets
  BY <1>1, <1>5
<1>9. WithinBound'
  BY <1>4, <1>7, <1>8 DEF WithinBound
<1>10. CASE garbled'
  <2>1. due' = <<>> /\ owed' = <<>> /\ whole' = 0
    BY <1>10 DEF Writing
  <2>2. Len(<<>>) = 0 /\ 0 <= 0
    OBVIOUS
  <2>3. QED
    BY <1>9, <1>10, <2>1, <2>2 DEF PacketsFollow, Counted
<1>11. CASE ~garbled'
  <2>1. ~garbled /\ ~cut
    BY <1>11, WriteAlone
  <2>2. /\ due' = (IF job.at = 0 THEN Append(due, f) ELSE due)
        /\ owed' = (IF First(job) THEN Append(owed, ip) ELSE owed)
        /\ whole' = (IF Left(job, n) = <<>> THEN whole + 1 ELSE whole)
    BY <1>1, <1>11 DEF Writing, job, f, ip
  <2>3. whole <= Len(owed) /\ (Started(job) > 0 => whole < Len(owed))
    BY <1>1, <2>1 DEF StreamInv, Counted, job
  <2>4. First(job) => Len(Append(owed, ip)) = Len(owed) + 1
    BY <1>1, <1>6, AppendProperties
  <2>5. Counted'
    <3>1. Started(job) > 0 \/ First(job)
      BY <1>1, <1>3
    <3>2. whole < Len(owed')
      <4>1. CASE First(job)
        BY <4>1, <1>6, <2>2, <2>3, <2>4
      <4>2. CASE ~First(job)
        BY <4>2, <2>2, <2>3, <3>1
      <4>3. QED
        BY <4>1, <4>2
    <3>3. Len(owed') \in Nat
      BY <1>6, <2>2, <2>4
    <3>4. CASE Left(job, n) = <<>>
      <4>1. whole' <= Len(owed') /\ ~(Started(next) > 0)
        BY <3>2, <3>3, <3>4, <1>2, <1>6, <2>2
      <4>2. QED
        BY <4>1, <1>4, <1>11 DEF Counted
    <3>5. CASE Left(job, n) # <<>>
      <4>1. whole' <= Len(owed') /\ whole' < Len(owed')
        BY <3>2, <3>3, <3>5, <1>6, <2>2
      <4>2. QED
        BY <4>1, <1>11 DEF Counted
    <3>6. QED
      BY <3>4, <3>5
  <2>6. PICK k \in Nat, c \in Nat : Follows(due, owed, reasm[Session], k, c) /\ StandsAt(k, c)
    BY <2>1 DEF StreamInv, PacketsFollow
  <2>7. IF 0 < Started(job) /\ Started(job) < p
        THEN owed # <<>> /\ owed[Len(owed)] = ip /\ k = Len(owed) /\ c = Started(job)
        ELSE k = Len(owed) + 1 /\ c = 0
    BY <1>1, <2>1, <2>6 DEF StandsAt, job, p, ip
  <2>8. PICK k2 \in Nat, c2 \in Nat :
            /\ k2 = (IF q + 1 = p THEN Len(owed') + 1 ELSE Len(owed'))
            /\ c2 = (IF q + 1 = p THEN 0 ELSE q + 1)
    <3>1. Len(owed') \in Nat
      BY <1>6, <2>2, <2>4
    <3>2. (IF q + 1 = p THEN Len(owed') + 1 ELSE Len(owed')) \in Nat
          /\ (IF q + 1 = p THEN 0 ELSE q + 1) \in Nat
      BY <3>1, <1>1
    <3>3. QED
      BY <3>2
  <2>9. ASSUME job.at = 0
        PROVE  /\ Follows(due, owed', reasm[Session], Len(owed'), q)
               /\ Len(owed') \in Nat \ {0} /\ owed'[Len(owed')] = ip /\ owed' \in Seq(IPPackets)
    <3>1. Started(job) = q
      BY <1>1, <2>9
    <3>2. CASE First(job)
      <4>1. q = 0 /\ owed' = Append(owed, ip)
        BY <1>1, <2>2, <3>1, <3>2
      <4>2. k = Len(owed) + 1 /\ c = 0
        BY <2>7, <3>1, <4>1
      <4>3. Follows(due, Append(owed, ip), reasm[Session], k, c)
        BY <1>1, <1>6, <2>6, FollowsOwed
      <4>4. /\ Append(owed, ip) \in Seq(IPPackets) /\ Len(Append(owed, ip)) = Len(owed) + 1
            /\ Append(owed, ip)[Len(owed) + 1] = ip
        BY <1>1, <1>6, AppendProperties
      <4>5. Len(owed) + 1 \in Nat \ {0}
        BY <1>6
      <4>6. QED
        BY <4>1, <4>2, <4>3, <4>4, <4>5
    <3>3. CASE ~First(job)
      <4>1. 0 < q /\ q < p /\ owed' = owed
        BY <1>1, <2>2, <3>1, <3>3
      <4>2. owed # <<>> /\ owed[Len(owed)] = ip /\ k = Len(owed) /\ c = q
        BY <2>7, <3>1, <4>1
      <4>3. Len(owed) # 0
        BY <1>6, <4>2, EmptySeq
      <4>4. QED
        BY <1>6, <2>6, <4>1, <4>2, <4>3
    <3>4. QED
      BY <3>2, <3>3
  <2>10. ASSUME job.at # 0
         PROVE  /\ k2 = k /\ c2 = c /\ owed' = owed /\ due' = due
                /\ q + 1 # p => owed # <<>> /\ owed[Len(owed)] = ip
    <3>1. Started(job) = q + 1
      BY <1>1, <1>3, <2>10
    <3>2. ~First(job)
      BY <1>1, <3>1
    <3>3. owed' = owed /\ due' = due
      BY <2>2, <2>10, <3>2
    <3>4. q + 1 # p => 0 < q + 1 /\ q + 1 < p
      BY <1>1
    <3>5. q + 1 = p => ~(q + 1 < p)
      BY <1>1
    <3>6. QED
      BY <2>7, <2>8, <3>1, <3>3, <3>4, <3>5
  <2>11. Follows(due', owed', reasm[Session], k2, c2)
    <3>1. CASE job.at = 0
      <4> DEFINE o == owed'
                 l == Len(owed')
      <4>1. /\ Follows(due, o, reasm[Session], l, q) /\ l \in Nat \ {0} /\ o[l] = ip
            /\ l = Len(o)
        BY <3>1, <2>9
      <4>2. /\ k2 = (IF q + 1 = p THEN l + 1 ELSE l)
            /\ c2 = (IF q + 1 = p THEN 0 ELSE q + 1)
        BY <2>8
      <4>3. due' = Append(due, f)
        BY <3>1, <2>2
      <4> HIDE DEF o, l
      <4>4. l \in 1..Len(o) /\ l <= k2 /\ q \in Nat /\ l \in Nat
        BY <4>1, <4>2, <1>1
      <4>5. Carries(f, o, l, q, k2, c2)
        BY <4>1, <4>2, <4>4, <1>1 DEF Carries, p
      <4>6. Follows(Append(due, f), o, reasm[Session], k2, c2)
        BY <4>1, <4>4, <4>5, <1>3, <1>6, FollowsNext
      <4>7. QED
        BY <4>3, <4>6 DEF o
    <3>2. CASE job.at # 0
      BY <3>2, <2>6, <2>10
    <3>3. QED
      BY <3>1, <3>2
  <2>12. StandsAt(k2, c2)'
    <3>1. IF 0 < Started(next) /\ Started(next) < Pieces(next.ip)
          THEN owed' # <<>> /\ owed'[Len(owed')] = next.ip /\ k2 = Len(owed') /\ c2 = Started(next)
          ELSE k2 = Len(owed') + 1 /\ c2 = 0
      <4>1. CASE q + 1 = p
        <5>1. k2 = Len(owed') + 1 /\ c2 = 0
          BY <4>1, <2>8
        <5>2. ~(0 < Started(next) /\ Started(next) < Pieces(next.ip))
          <6>1. CASE Left(job, n) = <<>>
            <7>1. Started(next) = 0
              BY <6>1, <1>2
            <7>2. QED
              BY <7>1
          <6>2. CASE Left(job, n) # <<>>
            <7>1. Started(next) = p /\ Pieces(next.ip) = p
              BY <6>2, <4>1, <1>2 DEF p
            <7>2. ~(p < p)
              BY <1>1
            <7>3. QED
              BY <7>1, <7>2
          <6>3. QED
            BY <6>1, <6>2
        <5>3. QED
          BY <5>1, <5>2
      <4>2. CASE q + 1 # p
        <5>1. Left(job, n) # <<>> /\ next.ip = ip /\ Started(next) = q + 1
          BY <4>2, <1>2
        <5>2. Pieces(next.ip) = p
          BY <5>1 DEF p
        <5>3. 0 < q + 1 /\ q + 1 < p
          BY <4>2, <1>1
        <5>4. k2 = Len(owed') /\ c2 = q + 1
          BY <4>2, <2>8
        <5>5. owed' # <<>> /\ owed'[Len(owed')] = ip
          <6>1. CASE job.at = 0
            <7>1. Len(owed') # 0 /\ owed'[Len(owed')] = ip
              BY <6>1, <2>9
            <7>2. QED
              BY <7>1
          <6>2. CASE job.at # 0
            BY <6>2, <4>2, <2>10
          <6>3. QED
            BY <6>1, <6>2
        <5>6. QED
          BY <5>1, <5>2, <5>3, <5>4, <5>5
      <4>3. QED
        BY <4>1, <4>2
    <3>2. QED
      BY <3>1, <1>1, <1>3, StandsNext DEF next
  <2>13. PacketsFollow'
    <3>1. reasm' = reasm
      BY <1>3
    <3>2. QED
      BY <3>1, <2>11, <2>12 DEF PacketsFollow
  <2>14. QED
    BY <1>9, <2>5, <2>13
<1>12. QED
  BY <1>10, <1>11

\* So writing keeps the invariant.
LEMMA WriteStreamStep ==
    ASSUME StreamInv, NEW w \in Writers, Write(w)
    PROVE  StreamInv'
<1>1. PICK n \in Nat \ {0} : Writing(w, n)
  BY WriteIsWriting
<1>2. Typed' /\ OneAtATime' /\ BytesFollow'
  BY <1>1, WriteTyped, WriteOne, WriteBytes
<1>3. PacketsFollow' /\ Counted' /\ WithinBound'
  BY <1>1, WriteOther, WriteFragment
<1>4. wrong' = FALSE
  BY <1>1 DEF Writing, StreamInv
<1>5. QED
  BY <1>2, <1>3, <1>4 DEF StreamInv

-----------------------------------------------------------------------------
\* Reading.

\* A complete packet is in the buffer.
LEMMA CompleteFacts ==
    ASSUME StreamInv, Complete
    PROVE  /\ PayloadLen = Announced(buf) /\ PayloadLen \in Nat
           /\ 4 <= Len(buf) /\ 4 + PayloadLen <= Len(buf) /\ Len(buf) \in Nat
           /\ SubSeq(buf, 4 + PayloadLen + 1, Len(buf)) \in Seq(Octets)
<1>1. PayloadLen = Announced(buf)
  BY DEF PayloadLen, Announced
<1>2. 4 <= Len(buf) /\ 4 + PayloadLen <= Len(buf)
  BY DEF Complete, HeaderLen
<1>3. buf \in Seq(Octets) /\ Len(buf) \in Nat
  BY WireFacts DEF StreamInv
<1>4. Announced(buf) \in Nat
  BY <1>2, <1>3, AnnouncedFacts
<1> DEFINE a == PayloadLen
           n == Len(buf)
<1>5. a \in Nat /\ 4 + a <= n /\ n \in Nat
  BY <1>1, <1>2, <1>3, <1>4
<1> HIDE DEF a
<1>6. 4 + a + 1 \in Nat \ {0} /\ 4 + a + 1 <= n + 1
  BY <1>5
<1>7. SubSeq(buf, 4 + a + 1, n) \in Seq(Octets)
  <2>1. n <= Len(buf)
    BY <1>3
  <2>2. QED
    BY <2>1, <1>3, <1>5, <1>6, PartFacts
<1>8. QED
  BY <1>1, <1>2, <1>3, <1>5, <1>7 DEF a

\* The steps of ReadPacket, in one piece.
Reading(p, all) ==
    /\ reading' \in BOOLEAN
    /\ p = Opened(Decode(SubSeq(buf, 1, 4 + PayloadLen))) /\ all = reasm[p.session] \o p.payload
    /\ reasm' = IF Accepts(p) /\ p.code = Code.DATA
                THEN [reasm EXCEPT ![p.session] = Remainder(p, all)] ELSE reasm
    /\ wrong' = (wrong \/ ~(garbled \/ ( /\ Accepts(p) /\ due # <<>> /\ p = Head(due)
                                         /\ Accepts(p) /\ p.code = Code.DATA /\ ~p.more
                                               => owed # <<>> /\ all = Head(owed))))
    /\ due' = IF due = <<>> THEN <<>> ELSE Tail(due)
    /\ IF Accepts(p) /\ p.code = Code.DATA /\ ~p.more /\ owed # <<>>
       THEN owed' = Tail(owed) /\ whole' = IF whole = 0 THEN 0 ELSE whole - 1
       ELSE UNCHANGED <<owed, whole>>
    /\ buf' = SubSeq(buf, 4 + PayloadLen + 1, Len(buf))
    /\ UNCHANGED <<side, begun, stop, open, todo, lock, controls, posted, cut, garbled, wire>>

\* The action reads one packet.
LEMMA ReadIsReading ==
    ASSUME StreamInv, ReadPacket
    PROVE  Complete /\ \E p, all : Reading(p, all)
<1>1. Complete
  BY DEF ReadPacket
<1> DEFINE p == Opened(Decode(SubSeq(buf, 1, HeaderLen + PayloadLen)))
           all == reasm[p.session] \o p.payload
<1>2. /\ Handle(p) /\ buf' = SubSeq(buf, HeaderLen + PayloadLen + 1, Len(buf)) /\ UNCHANGED <<threads, wire>>
  BY DEF ReadPacket
<1>3. begun \in BOOLEAN
  BY DEF StreamInv, Typed
<1> HIDE DEF p
<1>4. reading' \in BOOLEAN
  BY <1>2, <1>3 DEF Handle
<1>5. Reading(p, all)
  BY <1>2, <1>4 DEF Handle, Reading, threads, p, HeaderLen
<1>6. QED
  BY <1>1, <1>5

\* Reading keeps what the writers rely on.
LEMMA ReadTyped ==
    ASSUME StreamInv, Complete, NEW p, NEW all, Reading(p, all)
    PROVE  Typed' /\ OneAtATime' /\ WithinBound'
<1>1. UNCHANGED <<side, begun, stop, open, todo, lock, posted, cut, garbled, wire>> /\ reading' \in BOOLEAN
  BY DEF Reading
<1>2. buf' \in Seq(Octets)
  BY CompleteFacts DEF Reading
<1>3. reasm' = [s \in 0..7 |-> reasm'[s]]
  <2>1. reasm = [s \in 0..7 |-> reasm[s]]
    BY DEF StreamInv, Typed
  <2>2. reasm' = reasm \/ \E x, y : reasm' = [reasm EXCEPT ![x] = y]
    BY DEF Reading
  <2>3. QED
    BY <2>1, <2>2
<1>4. due' \in Seq(Sendable(side)) /\ owed' \in Seq(IPPackets) /\ whole' \in Nat
  <2>1. due \in Seq(Sendable(side)) /\ owed \in Seq(IPPackets) /\ whole \in Nat
    BY DEF StreamInv, Typed
  <2>2. due' = (IF due = <<>> THEN <<>> ELSE Tail(due))
    BY DEF Reading
  <2>3. (owed' = owed \/ (owed # <<>> /\ owed' = Tail(owed)))
        /\ (whole' = whole \/ whole' = IF whole = 0 THEN 0 ELSE whole - 1)
    BY DEF Reading
  <2>4. due' \in Seq(Sendable(side))
    <3> DEFINE S == Sendable(side)
    <3> HIDE DEF S
    <3>1. due \in Seq(S)
      BY <2>1 DEF S
    <3>2. CASE due = <<>>
      <4>1. due' = <<>>
        BY <2>2, <3>2
      <4>2. <<>> \in Seq(S)
        OBVIOUS
      <4>3. QED
        BY <4>1, <4>2 DEF S
    <3>3. CASE due # <<>>
      <4>1. Tail(due) \in Seq(S)
        BY <3>1, <3>3, HeadTailProperties
      <4>2. QED
        BY <4>1, <2>2, <3>3 DEF S
    <3>4. QED
      BY <3>2, <3>3
  <2>5. owed' \in Seq(IPPackets)
    BY <2>1, <2>3, HeadTailProperties
  <2>6. whole' \in Nat
    BY <2>1, <2>3
  <2>7. QED
    BY <2>4, <2>5, <2>6
<1>5. /\ Sendable(side)' = Sendable(side) /\ Data[side]' = Data[side]
      /\ \A v \in Writers : GoodJob(side, v, todo[v])' <=> GoodJob(side, v, todo[v])
      /\ \A v \in Writers : Started(todo[v])' = Started(todo[v])
  BY <1>1, SideStays
<1>6. Typed'
  BY <1>1, <1>2, <1>3, <1>4, <1>5 DEF StreamInv, Typed
<1>7. OneAtATime'
  BY <1>1 DEF StreamInv, OneAtATime, Halfway, Busy
<1>8. WithinBound'
  <2>1. Data[side] \in Writers
    BY DataWrites DEF StreamInv, Typed
  <2>2. QED
    BY <1>1, <1>5, <2>1 DEF StreamInv, WithinBound
<1>9. QED
  BY <1>6, <1>7, <1>8

\* Once the stream is garbled nothing is promised.
LEMMA ReadGarbled ==
    ASSUME StreamInv, Complete, NEW p, NEW all, Reading(p, all), garbled
    PROVE  StreamInv'
<1>1. due = <<>> /\ owed = <<>> /\ whole = 0
  BY DEF StreamInv, Counted
<1>2. due' = <<>> /\ owed' = <<>> /\ whole' = 0 /\ garbled' = garbled
  BY <1>1 DEF Reading
<1>3. wrong' = FALSE
  BY DEF Reading, StreamInv
<1>4. Len(<<>>) = 0 /\ 0 <= 0
  OBVIOUS
<1>5. QED
  BY <1>2, <1>3, <1>4, ReadTyped DEF StreamInv, BytesFollow, PacketsFollow, Counted

\* The packet read is the one that is due.
LEMMA ReadDue ==
    ASSUME StreamInv, Complete, NEW p, NEW all, Reading(p, all), ~garbled
    PROVE  /\ due # <<>> /\ p = due[1] /\ p = Head(due) /\ due' = Tail(due)
           /\ p \in Sendable(side) /\ Accepts(p) /\ p.session = Session
           /\ Len(Bytes(p)) = 4 + PayloadLen /\ Len(Bytes(p)) <= Len(buf)
<1> DEFINE S == Sendable(side)
<1>1. PICK e \in Nat : Laid(buf \o wire, due, e)
  BY DEF StreamInv, BytesFollow
<1>2. /\ due \in Seq(S) /\ buf \in Seq(Octets) /\ wire \in Seq(Octets) /\ \A x \in S : Fits(x)
  BY AllFit DEF StreamInv, Typed
<1>3. /\ PayloadLen = Announced(buf) /\ 4 <= Len(buf) /\ 4 + Announced(buf) <= Len(buf)
  BY CompleteFacts
<1> HIDE DEF S
<1>4. /\ due # <<>> /\ Announced(buf) = Len(due[1].payload) /\ Announced(buf) \in Nat
      /\ SubSeq(buf, 1, 4 + Announced(buf)) = Bytes(due[1])
      /\ Opened(Decode(SubSeq(buf, 1, 4 + Announced(buf)))) = due[1]
  BY <1>1, <1>2, <1>3, LaidHead
<1>5. p = due[1] /\ due' = Tail(due)
  BY <1>3, <1>4 DEF Reading
<1>6. Head(due) = due[1] /\ due[1] \in S
  <2>1. Len(due) \in Nat /\ Len(due) # 0
    BY <1>2, <1>4, LenProperties, EmptySeq
  <2>2. 1 \in 1..Len(due)
    BY <2>1
  <2>3. due[1] \in S
    BY <1>2, <2>2, ElementOfSeq
  <2>4. Head(due) = due[1]
    BY <1>2, <1>4, HeadTailProperties
  <2>5. QED
    BY <2>3, <2>4
<1>7. Accepts(p) /\ p.session = Session
  BY <1>5, <1>6 DEF S, Sendable, Accepts, Frames
<1>8. Len(Bytes(p)) = 4 + Len(p.payload)
  BY <1>2, <1>5, <1>6, BytesFacts DEF HeaderLen
<1>9. Len(Bytes(p)) = 4 + PayloadLen
  BY <1>3, <1>4, <1>5, <1>8
<1>10. QED
  BY <1>3, <1>4, <1>5, <1>6, <1>7, <1>9 DEF S

\* A packet that is written in part is not read, and is still the last one.
LEMMA ReadBytes ==
    ASSUME StreamInv, Complete, NEW p, NEW all, Reading(p, all), ~garbled
    PROVE  /\ BytesFollow'
           /\ ~cut => \A w \in Writers : Halfway(w) =>
                         Tail(due) # <<>> /\ Tail(due)[Len(Tail(due))] = todo[w].frames[1]
<1> DEFINE S == Sendable(side)
           m == Len(Bytes(p))
           s == buf \o wire
           d == Tail(due)
<1>1. /\ due # <<>> /\ p = due[1] /\ due' = Tail(due) /\ p \in S
      /\ m = 4 + PayloadLen /\ m <= Len(buf) /\ PayloadLen \in Nat
  BY ReadDue, CompleteFacts
<1>2. /\ due \in Seq(S) /\ s \in Seq(Octets) /\ Len(s) \in Nat /\ buf \in Seq(Octets) /\ wire \in Seq(Octets)
      /\ Len(s) = Len(buf) + Len(wire) /\ Len(buf) \in Nat /\ Len(wire) \in Nat
      /\ \A x \in S : Fits(x)
  BY WireFacts, AllFit DEF StreamInv, Typed
<1>3. /\ UNCHANGED <<open, todo, cut, garbled, wire>>
      /\ buf' = SubSeq(buf, m + 1, Len(buf))
  <2>1. buf' = SubSeq(buf, 4 + PayloadLen + 1, Len(buf)) /\ UNCHANGED <<open, todo, cut, garbled, wire>>
    BY DEF Reading
  <2>2. QED
    BY <1>1, <2>1
<1>4. PICK e \in Nat : Laid(s, due, e) /\ EndsAt(e)
  BY DEF StreamInv, BytesFollow
<1>5. m \in Nat
  BY <1>1
<1> DEFINE r == SubSeq(buf, m + 1, Len(buf)) \o wire
<1>6. Laid(r, d, e - m) /\ Len(r) = Len(s) - m /\ (d = <<>> => e = m)
  <2> HIDE DEF S
  <2>1. Len(Bytes(due[1])) <= Len(buf)
    BY <1>1
  <2>2. LET x == Len(Bytes(due[1]))
            y == SubSeq(buf, x + 1, Len(buf)) \o wire
        IN  /\ Laid(y, Tail(due), e - x) /\ Len(y) = Len(buf \o wire) - x
            /\ Tail(due) = <<>> => e = x
    BY <2>1, <1>1, <1>2, <1>4, LaidRest
  <2>3. QED
    BY <2>2, <1>1
<1>7. buf' \o wire' = r
  BY <1>3
<1> HIDE DEF r, s
<1>8. Len(s) <= e
  <2>1. PICK off \in [1..(Len(due) + 1) -> Nat] : LaidAt(s, due, off) /\ off[Len(due) + 1] = e
    BY <1>4 DEF Laid
  <2>2. QED
    BY <2>1 DEF LaidAt
<1>9. PICK e2 \in Nat : e2 = e - m
  <2>1. m <= Len(s)
    <3> HIDE DEF m
    <3>1. QED
      BY <1>1, <1>2, <1>5
  <2> HIDE DEF m
  <2>2. e - m \in Nat
    BY <2>1, <1>2, <1>5, <1>8
  <2>3. QED
    BY <2>2
<1>10. Laid(buf' \o wire', due', e2)
  BY <1>1, <1>6, <1>7, <1>9
<1>11. /\ Len(due) \in Nat /\ Len(d) = Len(due) - 1 /\ \A i \in 1..Len(d) : d[i] = due[i + 1]
  BY <1>1, <1>2, HeadTailProperties, LenProperties
<1>12. ASSUME ~cut, NEW w \in Writers, Halfway(w)
       PROVE  LET left == Len(Bytes(todo[w].frames[1])) - todo[w].at
              IN  /\ d # <<>> /\ d[Len(d)] = todo[w].frames[1]
                  /\ left \in Nat \ {0} /\ e >= Len(s) + left /\ (open => e = Len(s) + left)
  <2> DEFINE f == todo[w].frames[1]
             left == Len(Bytes(f)) - todo[w].at
  <2>1. due[Len(due)] = f /\ e >= Len(s) + left /\ (open => e = Len(s) + left)
    BY <1>4, <1>12 DEF EndsAt, s
  <2>2. left \in Nat \ {0}
    <3>1. GoodJob(side, w, todo[w]) /\ todo[w].frames # <<>>
      BY <1>12 DEF StreamInv, Typed, Halfway, Busy
    <3>2. Len(Bytes(f)) \in Nat /\ todo[w].at \in 0..(Len(Bytes(f)) - 1)
      BY <3>1, FrameFacts
    <3> DEFINE x == Len(Bytes(f))
               y == todo[w].at
    <3>3. x \in Nat /\ y \in 0..(x - 1) /\ left = x - y
      BY <3>2
    <3> HIDE DEF x, y, left
    <3>4. QED
      BY <3>3
  <2> HIDE DEF left
  <2>3. d # <<>>
    <3>1. SUFFICES ASSUME d = <<>> PROVE FALSE
      OBVIOUS
    <3>2. e = m
      BY <3>1, <1>6
    <3>3. e <= Len(buf)
      BY <3>2, <1>1
    <3>4. QED
      BY <3>3, <2>1, <2>2, <1>2
  <2>4. Len(d) # 0 /\ Len(d) \in Nat
    <3>1. d \in Seq(S)
      BY <1>1, <1>2, HeadTailProperties
    <3> HIDE DEF S, d
    <3>2. QED
      BY <3>1, <2>3, EmptySeq, LenProperties
  <2>5. Len(d) \in 1..Len(d) /\ Len(d) + 1 = Len(due)
    <3> DEFINE x == Len(d)
               y == Len(due)
    <3>1. x = y - 1 /\ y \in Nat /\ x # 0 /\ x \in Nat
      BY <1>11, <2>4
    <3> HIDE DEF x, y
    <3>2. x \in 1..x /\ x + 1 = y
      BY <3>1
    <3>3. QED
      BY <3>2 DEF x, y
  <2>6. d[Len(d)] = due[Len(due)]
    BY <1>11, <2>5
  <2>7. QED
    BY <2>1, <2>2, <2>3, <2>6 DEF left
<1> HIDE DEF d
<1>13. EndsAt(e2)'
  <2>1. SUFFICES ASSUME ~cut PROVE EndsAt(e2)'
    BY <1>3 DEF EndsAt
  <2>2. Len(buf' \o wire') = Len(s) - m
    BY <1>6, <1>7
  <2>3. ASSUME NEW w \in Writers, Halfway(w)
        PROVE  LET left == Len(Bytes(todo[w].frames[1])) - todo[w].at
               IN  /\ due' # <<>> /\ due'[Len(due')] = todo[w].frames[1]
                   /\ e2 >= Len(buf' \o wire') + left /\ (open => e2 = Len(buf' \o wire') + left)
    <3> DEFINE left == Len(Bytes(todo[w].frames[1])) - todo[w].at
    <3>1. /\ d # <<>> /\ d[Len(d)] = todo[w].frames[1]
          /\ left \in Nat \ {0} /\ e >= Len(s) + left /\ (open => e = Len(s) + left)
      BY <2>1, <2>3, <1>12
    <3>2. due' = d
      BY <1>1 DEF d
    <3> HIDE DEF left, m
    <3>3. e2 >= (Len(s) - m) + left /\ (open => e2 = (Len(s) - m) + left)
      BY <3>1, <1>2, <1>5, <1>9
    <3>4. QED
      BY <3>1, <3>2, <3>3, <2>2 DEF left
  <2>4. ASSUME open, \A w \in Writers : ~Halfway(w)
        PROVE  e2 = Len(buf' \o wire')
    <3>1. e = Len(s)
      BY <2>1, <2>4, <1>4 DEF EndsAt, s
    <3>2. QED
      BY <3>1, <2>2, <1>9
  <2>5. \A w \in Writers : Halfway(w)' <=> Halfway(w)
    BY <1>3 DEF Halfway, Busy
  <2>6. QED
    BY <1>3, <2>3, <2>4, <2>5 DEF EndsAt
<1>14. BytesFollow'
  BY <1>10, <1>13 DEF BytesFollow
<1>15. QED
  BY <1>12, <1>14 DEF d

\* The packets stay in step, and what is handed on is what is owed.
LEMMA ReadPackets ==
    ASSUME StreamInv, Complete, NEW p, NEW all, Reading(p, all), ~garbled
    PROVE  PacketsFollow' /\ Counted' /\ wrong' = FALSE
<1> DEFINE S == Sendable(side)
           D == Data[side]
           job == todo[D]
           st == Started(job)
           r == reasm[Session]
           d == Tail(due)
<1>1. /\ due # <<>> /\ p = due[1] /\ p = Head(due) /\ due' = d /\ p \in S /\ Accepts(p) /\ p.session = Session
  BY ReadDue
<1>2. due \in Seq(S) /\ owed \in Seq(IPPackets) /\ whole \in Nat /\ d \in Seq(S) /\ Len(owed) \in Nat
  BY <1>1, HeadTailProperties, LenProperties DEF StreamInv, Typed
<1>3. UNCHANGED <<side, todo, cut, garbled>>
  BY DEF Reading
<1>4. PICK k \in Nat, c \in Nat : Follows(due, owed, r, k, c) /\ StandsAt(k, c)
  BY DEF StreamInv, PacketsFollow
<1>5. /\ p.code # Code.DATA => Follows(d, owed, r, k, c)
      /\ p.code = Code.DATA =>
            /\ owed # <<>>
            /\ p.more => Follows(d, owed, r \o p.payload, k, c)
            /\ ~p.more => r \o p.payload = owed[1] /\ Follows(d, Tail(owed), <<>>, k - 1, c)
  <2> HIDE DEF S, r
  <2>1. QED
    BY <1>1, <1>2, <1>4, FollowsRead
<1>6. all = r \o p.payload /\ reasm = [s \in 0..7 |-> reasm[s]] /\ Session \in 0..7
  BY <1>1, DeliveryConstants DEF Reading, StreamInv, Typed
<1>7. ~cut => IF 0 < st /\ st < Pieces(job.ip)
              THEN owed # <<>> /\ owed[Len(owed)] = job.ip /\ k = Len(owed) /\ c = st
              ELSE k = Len(owed) + 1 /\ c = 0
  BY <1>4 DEF StandsAt
<1>8. D \in Writers /\ todo'[D] = job
  BY <1>3, DataWrites DEF StreamInv, Typed
<1>9. \A x, y : StandsAt(x, y)' <=>
          (~cut => IF 0 < st /\ st < Pieces(job.ip)
                   THEN owed' # <<>> /\ owed'[Len(owed')] = job.ip /\ x = Len(owed') /\ y = st
                   ELSE x = Len(owed') + 1 /\ y = 0)
  BY <1>3, <1>8, StandsNext
<1>10. whole <= Len(owed) /\ (~cut /\ st > 0 => whole < Len(owed))
  BY DEF StreamInv, Counted
<1>11. Data[side]' = D /\ Started(todo[D])' = st
  BY <1>3, <1>8, SideStays
<1>12. CASE ~(p.code = Code.DATA /\ ~p.more)
  <2>1. UNCHANGED <<owed, whole>> /\ wrong' = FALSE
    BY <1>1, <1>12 DEF Reading, StreamInv
  <2>2. Counted'
    BY <1>3, <1>10, <1>11, <2>1 DEF StreamInv, Counted
  <2>3. StandsAt(k, c)'
    BY <1>7, <1>9, <2>1
  <2>4. Follows(d, owed, reasm'[Session], k, c)
    <3>1. CASE p.code # Code.DATA
      <4>1. reasm' = reasm
        BY <3>1 DEF Reading
      <4>2. QED
        BY <1>5, <3>1, <4>1
    <3>2. CASE p.code = Code.DATA /\ p.more
      <4>1. reasm' = [reasm EXCEPT ![Session] = all]
        BY <3>2, <1>1 DEF Reading, Remainder
      <4> HIDE DEF r
      <4>2. reasm'[Session] = all
        BY <4>1, <1>6
      <4>3. QED
        BY <1>5, <1>6, <3>2, <4>2
    <3>3. QED
      BY <1>12, <3>1, <3>2
  <2>5. PacketsFollow'
    BY <1>1, <2>1, <2>3, <2>4 DEF PacketsFollow
  <2>6. QED
    BY <2>1, <2>2, <2>5
<1>13. CASE p.code = Code.DATA /\ ~p.more
  <2>1. owed # <<>> /\ r \o p.payload = owed[1] /\ Follows(d, Tail(owed), <<>>, k - 1, c)
    BY <1>5, <1>13
  <2>2. Head(owed) = owed[1] /\ all = Head(owed)
    <3>1. Head(owed) = owed[1]
      BY <1>2, <2>1, HeadTailProperties
    <3>2. QED
      BY <1>6, <2>1, <3>1
  <2>3. wrong' = FALSE /\ owed' = Tail(owed) /\ whole' = IF whole = 0 THEN 0 ELSE whole - 1
    BY <1>1, <1>13, <2>1, <2>2 DEF Reading, StreamInv
  <2>4. reasm'[Session] = <<>>
    <3>1. reasm' = [reasm EXCEPT ![Session] = <<>>]
      BY <1>1, <1>13 DEF Reading, Remainder
    <3> HIDE DEF r
    <3>2. QED
      BY <3>1, <1>6
  <2>5. /\ Len(owed') = Len(owed) - 1 /\ owed' \in Seq(IPPackets) /\ Len(owed') \in Nat
        /\ \A i \in 1..Len(owed') : owed'[i] = owed[i + 1]
    <3>1. /\ Len(Tail(owed)) = Len(owed) - 1 /\ Tail(owed) \in Seq(IPPackets)
          /\ \A i \in 1..Len(Tail(owed)) : Tail(owed)[i] = owed[i + 1]
      BY <1>2, <2>1, HeadTailProperties
    <3>2. Len(Tail(owed)) \in Nat
      BY <3>1, LenProperties
    <3>3. QED
      BY <2>3, <3>1, <3>2
  <2>6. /\ k - 1 \in Nat \ {0} /\ c \in Nat
        /\ d # <<>> /\ d[Len(d)].code = Code.DATA /\ c = 0 => k - 1 # 1
    <3> HIDE DEF S, d
    <3>1. PICK x : x = k - 1
      OBVIOUS
    <3>2. Follows(d, Tail(owed), <<>>, x, c)
      BY <2>1, <3>1
    <3>3. x \in Nat \ {0} /\ c \in Nat /\ (d # <<>> /\ d[Len(d)].code = Code.DATA /\ c = 0 => x # 1)
      BY <1>2, <3>2, FollowsBounds
    <3>4. QED
      BY <3>1, <3>3
  <2> HIDE DEF st, d, r
  <2>7. StandsAt(k - 1, c)'
    <3>1. SUFFICES ASSUME ~cut PROVE StandsAt(k - 1, c)'
      BY <1>9
    <3>2. PICK x : x = k - 1
      OBVIOUS
    <3>3. CASE 0 < st /\ st < Pieces(job.ip)
      <4>1. owed[Len(owed)] = job.ip /\ k = Len(owed) /\ c = st
        BY <1>7, <3>1, <3>3
      <4>2. x = Len(owed') /\ Len(owed') # 0
        BY <4>1, <3>2, <2>5, <2>6
      <4>3. Len(owed') \in 1..Len(owed') /\ Len(owed') + 1 = Len(owed) /\ owed' # <<>>
        <5>1. Len(owed') \in 1..Len(owed') /\ Len(owed') + 1 = Len(owed)
          BY <4>2, <2>5, <1>2
        <5>2. owed' # <<>>
          BY <4>2
        <5>3. QED
          BY <5>1, <5>2
      <4>4. owed'[Len(owed')] = job.ip
        BY <4>1, <4>3, <2>5
      <4>5. StandsAt(x, c)'
        BY <1>9, <3>3, <4>1, <4>2, <4>3, <4>4
      <4>6. QED
        BY <4>5, <3>2
    <3>4. CASE ~(0 < st /\ st < Pieces(job.ip))
      <4>1. k = Len(owed) + 1 /\ c = 0
        BY <1>7, <3>1, <3>4
      <4>2. x = Len(owed') + 1
        BY <4>1, <3>2, <2>5, <1>2
      <4>3. StandsAt(x, c)'
        BY <1>9, <3>4, <4>1, <4>2
      <4>4. QED
        BY <4>3, <3>2
    <3>5. QED
      BY <3>3, <3>4
  <2>8. PacketsFollow'
    <3>1. PICK x \in Nat : x = k - 1
      BY <2>6
    <3>2. Follows(due', owed', reasm'[Session], x, c) /\ StandsAt(x, c)'
      BY <1>1, <2>1, <2>3, <2>4, <2>7, <3>1
    <3>3. QED
      BY <3>2 DEF PacketsFollow
  <2>9. whole' <= Len(owed')
    BY <1>2, <1>10, <2>1, <2>3, <2>5
  <2>10. ASSUME ~cut, st > 0 PROVE whole' < Len(owed')
    <3>1. whole < Len(owed)
      BY <1>10, <2>10
    <3>2. Len(owed') # 0
      <4>1. CASE 0 < st /\ st < Pieces(job.ip)
        <5>1. k = Len(owed)
          BY <1>7, <2>10, <4>1
        <5>2. QED
          BY <5>1, <2>5, <2>6, <1>2
      <4>2. CASE ~(0 < st /\ st < Pieces(job.ip))
        <5>1. k = Len(owed) + 1 /\ c = 0
          BY <1>7, <2>10, <4>2
        <5>2. GoodJob(side, D, job)
          BY <1>8 DEF StreamInv, Typed
        <5>3. job.ip # <<>> /\ st = IF job.at > 0 THEN Written(job) + 1 ELSE Written(job)
          <6>1. ~(0 > 0)
            OBVIOUS
          <6>2. QED
            BY <2>10, <6>1 DEF st, Started
        <5>4. /\ Written(job) \in 0..(Pieces(job.ip) - 1) /\ job.frames = Rest(job.ip, Written(job))
              /\ job.ip \in IPPackets /\ job.at \in Nat
          BY <5>2, <5>3 DEF GoodJob, IPPackets
        <5>5. /\ Rest(job.ip, Written(job)) # <<>> /\ Pieces(job.ip) \in Nat
              /\ Rest(job.ip, Written(job))[1] = Fragments(job.ip)[Written(job) + 1]
          BY <5>4, RestFacts, PiecesFacts
        <5> DEFINE q == Written(job)
                   n == Pieces(job.ip)
                   a == job.at
        <5>6. q \in 0..(n - 1) /\ n \in Nat /\ a \in Nat /\ st = (IF a > 0 THEN q + 1 ELSE q) /\ ~(0 < st /\ st < n)
          BY <4>2, <5>3, <5>4, <5>5
        <5>7. a > 0 /\ q + 1 \in 1..n
          <6> HIDE DEF q, n, a
          <6>1. QED
            BY <5>6, <2>10
        <5>8. Halfway(D)
          BY <5>4, <5>5, <5>7 DEF Halfway, Busy
        <5>9. d # <<>> /\ d[Len(d)] = job.frames[1]
          BY <5>8, <1>8, <2>10, ReadBytes DEF d
        <5>10. job.frames[1].code = Code.DATA
          BY <5>4, <5>5, <5>7, FragmentFacts
        <5>11. k - 1 # 1
          BY <5>1, <5>9, <5>10, <2>6
        <5>12. QED
          BY <5>1, <5>11, <2>5, <2>6, <1>2
      <4>3. QED
        BY <4>1, <4>2
    <3>3. QED
      BY <3>1, <3>2, <1>2, <2>3, <2>5
  <2>11. Counted'
    BY <1>3, <1>11, <2>9, <2>10 DEF Counted
  <2>12. QED
    BY <2>3, <2>8, <2>11
<1>14. QED
  BY <1>12, <1>13

\* So reading keeps the invariant.
LEMMA ReadStep == ASSUME StreamInv, ReadPacket PROVE StreamInv'
<1>1. Complete
  BY ReadIsReading
<1>2. PICK p, all : Reading(p, all)
  BY ReadIsReading
<1>3. CASE garbled
  BY <1>1, <1>2, <1>3, ReadGarbled
<1>4. CASE ~garbled
  BY <1>1, <1>2, <1>4, ReadTyped, ReadBytes, ReadPackets DEF StreamInv
<1>5. QED
  BY <1>3, <1>4

-----------------------------------------------------------------------------
\* The other steps.

\* A thread with nothing to write has begun nothing.
LEMMA IdleFacts ==
    ASSUME StreamInv, NEW w \in Writers, ~Busy(w)
    PROVE  todo[w] = Done /\ Started(todo[w]) = 0 /\ ~Halfway(w)
<1>1. todo[w] = Done
  BY DEF StreamInv, Typed, GoodJob, Busy
<1>2. Started(Done) = 0
  BY DoneIsGood
<1>3. QED
  BY <1>1, <1>2 DEF Halfway

\* A step that leaves the connection and the jobs alone.
LEMMA QuietStep ==
    ASSUME StreamInv, begun' \in BOOLEAN, stop' \in BOOLEAN, reading' \in BOOLEAN,
           UNCHANGED <<side, open, todo, lock, wire, buf, reasm, due, owed, whole, posted, cut, garbled, wrong>>
    PROVE  StreamInv'
<1>1. /\ Sendable(side)' = Sendable(side) /\ Data[side]' = Data[side]
      /\ \A v \in Writers : GoodJob(side, v, todo[v])' <=> GoodJob(side, v, todo[v])
      /\ \A v \in Writers : Started(todo[v])' = Started(todo[v])
  BY SideStays
<1>2. Data[side] \in Writers
  BY DataWrites DEF StreamInv, Typed
<1>3. Typed'
  BY <1>1 DEF StreamInv, Typed
<1>4. OneAtATime'
  BY DEF StreamInv, OneAtATime, Halfway, Busy
<1>5. BytesFollow'
  <2>1. \A e : EndsAt(e)' <=> EndsAt(e)
    BY DEF EndsAt, Halfway, Busy
  <2>2. QED
    BY <2>1 DEF StreamInv, BytesFollow
<1>6. PacketsFollow'
  <2>1. \A k, c : StandsAt(k, c)' <=> StandsAt(k, c)
    <3>1. \A k, c : StandsAt(k, c)' <=>
              (~cut' => IF 0 < Started(todo'[Data[side]]) /\ Started(todo'[Data[side]]) < Pieces(todo'[Data[side]].ip)
                        THEN /\ owed' # <<>> /\ owed'[Len(owed')] = todo'[Data[side]].ip
                             /\ k = Len(owed') /\ c = Started(todo'[Data[side]])
                        ELSE k = Len(owed') + 1 /\ c = 0)
      BY StandsNext
    <3>2. todo' = todo /\ owed' = owed /\ cut' = cut
      OBVIOUS
    <3>3. QED
      BY <3>1, <3>2 DEF StandsAt
  <2>2. QED
    BY <2>1 DEF StreamInv, PacketsFollow
<1>7. Counted' /\ WithinBound'
  BY <1>1, <1>2 DEF StreamInv, Counted, WithinBound
<1>8. QED
  BY <1>3, <1>4, <1>5, <1>6, <1>7 DEF StreamInv

\* A packet read from the network is bytes.
LEMMA IPBytesFacts ==
    ASSUME NEW i \in Nat, NEW n \in Nat \ {0}
    PROVE  IPBytes(i, n) \in IPPackets
<1>1. IPBytes(i, n) = [k \in 1..n |-> (16 * i + k) % 256]
  BY DEF IPBytes
<1>2. \A k \in 1..n : (16 * i + k) % 256 \in Octets
  BY DEF Octets
<1>3. IPBytes(i, n) \in [1..n -> Octets]
  BY <1>1, <1>2
<1>4. IPBytes(i, n) \in Seq(Octets)
  BY <1>3
<1>5. IPBytes(i, n) # <<>>
  <2>1. DOMAIN IPBytes(i, n) = 1..n
    BY <1>1
  <2>2. 1 \in 1..n
    OBVIOUS
  <2>3. DOMAIN <<>> = 1..0
    OBVIOUS
  <2>4. 1 \notin 1..0
    OBVIOUS
  <2>5. QED
    BY <2>1, <2>2, <2>3, <2>4, Zenon
<1>6. QED
  BY <1>4, <1>5 DEF IPPackets

\* A packet of IP to send,
LEMMA SendDataStep == ASSUME StreamInv, NEW n \in Lengths, SendData(n) PROVE StreamInv'
<1> DEFINE w == Data[side]
           ip == IPBytes(posted + 1, n)
           job == Job(Fragments(ip), ip)
<1>1. /\ ~Busy(w) /\ posted < MaxPackets /\ todo' = [todo EXCEPT ![w] = job] /\ Take(w)
      /\ UNCHANGED <<side, begun, stop, open, posted, cut, garbled, wire, atReader, owing>>
  BY DEF SendData
<1>2. side \in {"server", "client"} /\ w \in Writers /\ n \in Nat \ {0} /\ posted \in Nat
  BY DataWrites, DeliveryConstants DEF StreamInv, Typed
<1>3. ip \in IPPackets
  <2>1. posted + 1 \in Nat
    BY <1>2
  <2>2. QED
    BY <1>2, <2>1, IPBytesFacts
<1> HIDE DEF ip
<1>4. GoodJob(side, w, job) /\ job.at = 0 /\ Started(job) = 0
  BY <1>2, <1>3, DataJob
<1>5. Started(todo[w]) = 0 /\ ~Halfway(w)
  BY <1>1, <1>2, IdleFacts
<1>6. lock' \in Writers \union {Nobody} /\ (side = "client" => lock' = Nobody)
  BY <1>1, <1>2 DEF Take, StreamInv, Typed
<1>7. begun' \in BOOLEAN /\ stop' \in BOOLEAN /\ cut' \in BOOLEAN /\ cut' = cut
  BY <1>1 DEF StreamInv, Typed
<1>8. UNCHANGED <<side, open, wire, buf, reading, reasm, due, owed, whole, wrong, posted, garbled>>
  BY <1>1 DEF atReader, owing
<1> HIDE DEF job, w
<1>9. PICK v \in Writers : v = w
  BY <1>2
<1>10. PICK j : j = job
  OBVIOUS
<1>11. /\ GoodJob(side, v, j) /\ j.at = 0 /\ Started(j) = 0 /\ todo' = [todo EXCEPT ![v] = j]
       /\ Started(todo[v]) = 0 /\ ~Halfway(v)
  BY <1>1, <1>4, <1>5, <1>9, <1>10
<1>12. cut' \/ (cut' = cut /\ ~Halfway(v) /\ (v = Data[side] => Started(todo[v]) = 0))
  BY <1>7, <1>11
<1>13. (cut => cut') /\ (j.ip # <<>> => posted < MaxPackets)
  BY <1>1, <1>7
<1>14. QED
  BY <1>6, <1>7, <1>8, <1>11, <1>12, <1>13, TodoStep

\* a packet of another kind,
LEMMA SendControlStep ==
    ASSUME StreamInv, NEW w \in Writers, NEW p \in Sends(w), SendControl(w, p)
    PROVE  StreamInv'
<1> DEFINE job == Job(<<p>>, <<>>)
<1>1. /\ Working(w) /\ ~Busy(w) /\ todo' = [todo EXCEPT ![w] = job] /\ Take(w)
      /\ UNCHANGED <<side, begun, stop, open, posted, cut, garbled, wire, atReader, owing>>
  BY DEF SendControl
<1>2. side \in {"server", "client"}
  BY DEF StreamInv, Typed
<1>3. p \in Sendable(side) /\ p.code # Code.DATA
  BY <1>1, <1>2, ControlSendable
<1>4. CanSend(side, w)
  BY <1>1 DEF Working, CanSend
<1>5. GoodJob(side, w, job) /\ job.at = 0 /\ Started(job) = 0 /\ job.ip = <<>>
  <2>1. job.ip = <<>>
    BY DEF Job
  <2>2. QED
    BY <1>3, <1>4, <2>1, ControlJob
<1>6. Started(todo[w]) = 0 /\ ~Halfway(w)
  BY <1>1, IdleFacts
<1>7. lock' \in Writers \union {Nobody} /\ (side = "client" => lock' = Nobody)
  BY <1>1, <1>2 DEF Take, StreamInv, Typed
<1>8. begun' \in BOOLEAN /\ stop' \in BOOLEAN /\ cut' \in BOOLEAN /\ cut' = cut
  BY <1>1 DEF StreamInv, Typed
<1>9. UNCHANGED <<side, open, wire, buf, reading, reasm, due, owed, whole, wrong, posted, garbled>>
  BY <1>1 DEF atReader, owing
<1> HIDE DEF job
<1>10. PICK j : j = job
  OBVIOUS
<1>11. /\ GoodJob(side, w, j) /\ j.at = 0 /\ Started(j) = 0 /\ todo' = [todo EXCEPT ![w] = j]
       /\ j.ip = <<>>
  BY <1>1, <1>5, <1>10
<1>12. cut' \/ (cut' = cut /\ ~Halfway(w) /\ (w = Data[side] => Started(todo[w]) = 0))
  BY <1>6, <1>8
<1>13. (cut => cut') /\ (j.ip # <<>> => posted < MaxPackets)
  BY <1>8, <1>11
<1>14. QED
  BY <1>7, <1>8, <1>9, <1>11, <1>12, <1>13, TodoStep

\* and sendall failing.
LEMMA SendFailsStep == ASSUME StreamInv, NEW w \in Writers, SendFails(w) PROVE StreamInv'
<1>1. /\ Busy(w) /\ todo' = [todo EXCEPT ![w] = Done] /\ Release(w)
      /\ stop' = (stop \/ todo[w].ip # <<>>)
      /\ cut' = (cut \/ todo[w].at > 0 \/ (todo[w].ip # <<>> /\ todo[w].frames # Fragments(todo[w].ip)))
      /\ UNCHANGED <<side, begun, open, posted, garbled, wire, atReader, owing>>
  BY DEF SendFails
<1>2. GoodJob(side, w, todo[w]) /\ todo[w].frames # <<>>
  BY <1>1 DEF StreamInv, Typed, Busy
<1>3. GoodJob(side, w, Done) /\ Done.at = 0 /\ Started(Done) = 0 /\ Done.ip = <<>>
  BY DoneIsGood DEF Done, Job
<1>4. ASSUME ~cut' PROVE cut' = cut /\ ~Halfway(w) /\ Started(todo[w]) = 0
  <2>1. /\ ~cut /\ ~(todo[w].at > 0)
        /\ todo[w].ip # <<>> => todo[w].frames = Fragments(todo[w].ip)
    BY <1>1, <1>4
  <2>2. cut' = cut
    <3>1. cut = FALSE
      BY <2>1 DEF StreamInv, Typed
    <3>2. cut' \in BOOLEAN
      BY <1>1, Zenon
    <3>3. cut' = FALSE
      BY <1>4, <3>2
    <3>4. QED
      BY <3>1, <3>3
  <2>3. Started(todo[w]) = 0
    <3>1. CASE todo[w].ip = <<>>
      BY <3>1 DEF Started
    <3>2. CASE todo[w].ip # <<>>
      <4> DEFINE q == Written(todo[w])
      <4>1. /\ todo[w].ip \in IPPackets /\ q \in 0..(Pieces(todo[w].ip) - 1)
            /\ todo[w].frames = Rest(todo[w].ip, q)
        BY <1>2, <3>2 DEF GoodJob, IPPackets
      <4> HIDE DEF q
      <4>2. q = 0
        BY <2>1, <3>2, <4>1, RestFacts
      <4>3. QED
        BY <2>1, <4>2 DEF Started, q
    <3>3. QED
      BY <3>1, <3>2
  <2>4. QED
    BY <2>1, <2>2, <2>3 DEF Halfway
<1>5. lock' \in Writers \union {Nobody} /\ (side = "client" => lock' = Nobody)
  BY <1>1 DEF Release, StreamInv, Typed
<1>6. begun' \in BOOLEAN /\ stop' \in BOOLEAN /\ cut' \in BOOLEAN /\ (cut => cut')
  BY <1>1 DEF StreamInv, Typed
<1>7. UNCHANGED <<side, open, wire, buf, reading, reasm, due, owed, whole, wrong, posted, garbled>>
  BY <1>1 DEF atReader, owing
<1> HIDE DEF Done
<1>8. QED
  BY <1>1, <1>3, <1>4, <1>5, <1>6, <1>7, TodoStep

\* What is in the connection moves on, or is lost behind what was read.
LEMMA MoveStep ==
    ASSUME StreamInv, wire' \in Seq(Octets), Len(wire') <= WireSize, buf' \in Seq(Octets),
           open' \in BOOLEAN, open' => open,
           \/ buf' \o wire' = buf \o wire
           \/ buf' = buf /\ wire' = <<>> /\ open' = FALSE,
           UNCHANGED <<side, begun, stop, reading, todo, lock, reasm, due, owed, whole, posted, cut, garbled, wrong>>
    PROVE  StreamInv'
<1>1. /\ Sendable(side)' = Sendable(side) /\ Data[side]' = Data[side]
      /\ \A v \in Writers : GoodJob(side, v, todo[v])' <=> GoodJob(side, v, todo[v])
      /\ \A v \in Writers : Started(todo[v])' = Started(todo[v])
  BY SideStays
<1>2. Data[side] \in Writers
  BY DataWrites DEF StreamInv, Typed
<1>3. Typed'
  BY <1>1 DEF StreamInv, Typed
<1>4. OneAtATime'
  BY DEF StreamInv, OneAtATime, Halfway, Busy
<1>5. PacketsFollow'
  <2>1. \A k, c : StandsAt(k, c)' <=> StandsAt(k, c)
    <3>1. \A k, c : StandsAt(k, c)' <=>
              (~cut' => IF 0 < Started(todo'[Data[side]]) /\ Started(todo'[Data[side]]) < Pieces(todo'[Data[side]].ip)
                        THEN /\ owed' # <<>> /\ owed'[Len(owed')] = todo'[Data[side]].ip
                             /\ k = Len(owed') /\ c = Started(todo'[Data[side]])
                        ELSE k = Len(owed') + 1 /\ c = 0)
      BY StandsNext
    <3>2. todo' = todo /\ owed' = owed /\ cut' = cut
      OBVIOUS
    <3>3. QED
      BY <3>1, <3>2 DEF StandsAt
  <2>2. QED
    BY <2>1 DEF StreamInv, PacketsFollow
<1>6. Counted' /\ WithinBound'
  BY <1>1, <1>2 DEF StreamInv, Counted, WithinBound
<1>7. BytesFollow'
  <2>1. SUFFICES ASSUME ~garbled
                 PROVE  \E e \in Nat : Laid(buf' \o wire', due, e) /\ EndsAt(e)'
    BY DEF BytesFollow
  <2>2. PICK e \in Nat : Laid(buf \o wire, due, e) /\ EndsAt(e)
    BY <2>1 DEF StreamInv, BytesFollow
  <2>3. CASE buf' \o wire' = buf \o wire
    <3>1. EndsAt(e)'
      BY <2>2, <2>3 DEF EndsAt, Halfway, Busy
    <3>2. QED
      BY <2>2, <2>3, <3>1
  <2>4. CASE buf' = buf /\ wire' = <<>> /\ open' = FALSE
    <3>1. buf' \o wire' = buf
      <4>1. buf \o <<>> = buf
        BY WireFacts, ConcatEmptySeq DEF StreamInv
      <4>2. QED
        BY <2>4, <4>1
    <3>2. Laid(buf, due, e)
      <4> DEFINE S == Sendable(side)
      <4>1. due \in Seq(S) /\ (\A x \in S : Fits(x)) /\ buf \in Seq(Octets) /\ wire \in Seq(Octets)
        BY AllFit DEF StreamInv, Typed
      <4> HIDE DEF S
      <4>2. QED
        BY <2>2, <4>1, LaidPrefix
    <3>3. EndsAt(e)'
      <4>1. SUFFICES ASSUME ~cut PROVE EndsAt(e)'
        BY DEF EndsAt
      <4>2. ASSUME NEW w \in Writers, Halfway(w)
            PROVE  LET left == Len(Bytes(todo[w].frames[1])) - todo[w].at
                   IN  /\ due # <<>> /\ due[Len(due)] = todo[w].frames[1]
                       /\ e >= Len(buf) + left
        <5> DEFINE f == todo[w].frames[1]
                   left == Len(Bytes(f)) - todo[w].at
        <5>1. due # <<>> /\ due[Len(due)] = f /\ e >= Len(buf \o wire) + left
          BY <4>1, <4>2, <2>2 DEF EndsAt
        <5>2. left \in Int
          <6>1. GoodJob(side, w, todo[w]) /\ todo[w].frames # <<>>
            BY <4>2 DEF StreamInv, Typed, Halfway, Busy
          <6>2. Len(Bytes(f)) \in Nat /\ todo[w].at \in 0..(Len(Bytes(f)) - 1)
            BY <6>1, FrameFacts
          <6> DEFINE x == Len(Bytes(f))
                     y == todo[w].at
          <6>3. x \in Nat /\ y \in 0..(x - 1) /\ left = x - y
            BY <6>2
          <6> HIDE DEF x, y, left
          <6>4. QED
            BY <6>3
        <5> HIDE DEF left
        <5> DEFINE x == Len(buf \o wire)
                   y == Len(buf)
                   z == Len(wire)
        <5>3. x = y + z /\ y \in Nat /\ z \in Nat /\ e >= x + left
          BY <5>1, WireFacts DEF StreamInv
        <5> HIDE DEF x, y, z
        <5>4. e >= y + left
          BY <5>2, <5>3
        <5>5. QED
          BY <5>1, <5>4 DEF y, left
      <4>3. \A w \in Writers : Halfway(w)' <=> Halfway(w)
        BY DEF Halfway, Busy
      <4>4. QED
        BY <2>4, <3>1, <4>2, <4>3 DEF EndsAt
    <3>4. QED
      BY <3>1, <3>2, <3>3
  <2>5. QED
    BY <2>3, <2>4
<1>8. QED
  BY <1>3, <1>4, <1>5, <1>6, <1>7 DEF StreamInv

\* Starting, stopping, closing and filling the buffer.
LEMMA OtherStreamStep ==
    ASSUME StreamInv, Begin \/ Stop \/ Close \/ Fill \/ EndOfStream \/ UNCHANGED vars
    PROVE  StreamInv'
<1>1. CASE Begin \/ Stop \/ EndOfStream \/ UNCHANGED vars
  <2>1. begun \in BOOLEAN /\ stop \in BOOLEAN /\ reading \in BOOLEAN
    BY DEF StreamInv, Typed
  <2>2. /\ begun' \in BOOLEAN /\ stop' \in BOOLEAN /\ reading' \in BOOLEAN
        /\ UNCHANGED <<side, open, todo, lock, wire, buf, reasm, due, owed, whole, posted, cut, garbled, wrong>>
    BY <1>1, <2>1 DEF Begin, Stop, EndOfStream, vars, threads, atReader, owing
  <2>3. QED
    BY <2>2, QuietStep
<1>2. CASE Fill
  <2>1. /\ buf' = buf \o wire /\ wire' = <<>>
        /\ UNCHANGED <<side, begun, stop, reading, todo, lock, reasm, due, owed, whole, posted, cut, garbled,
                       wrong, open>>
    BY <1>2 DEF Fill, threads, owing
  <2>2. buf \o wire \in Seq(Octets) /\ (buf \o wire) \o <<>> = buf \o wire
    BY WireFacts, ConcatEmptySeq DEF StreamInv
  <2>3. wire' \in Seq(Octets) /\ Len(wire') <= WireSize
    <3>1. Len(<<>>) = 0 /\ 0 <= WireSize /\ <<>> \in Seq(Octets)
      BY DeliveryConstants
    <3>2. QED
      BY <2>1, <3>1
  <2>4. buf' \o wire' = buf \o wire /\ open' \in BOOLEAN
    BY <2>1, <2>2 DEF StreamInv, Typed
  <2>5. QED
    BY <2>1, <2>2, <2>3, <2>4, MoveStep
<1>3. CASE Close
  <2>1. /\ open' = FALSE /\ wire' \in {wire, <<>>} /\ buf' = buf
        /\ UNCHANGED <<side, begun, stop, reading, todo, lock, reasm, due, owed, whole, posted, cut, garbled, wrong>>
    BY <1>3 DEF Close, atReader, owing
  <2>2. wire \in Seq(Octets) /\ Len(wire) <= WireSize /\ buf \in Seq(Octets)
    BY DEF StreamInv, Typed
  <2>3. Len(<<>>) = 0 /\ 0 <= WireSize /\ <<>> \in Seq(Octets)
    BY DeliveryConstants
  <2>4. wire' \in Seq(Octets) /\ Len(wire') <= WireSize /\ buf' \in Seq(Octets)
        /\ open' \in BOOLEAN /\ (open' => open)
        /\ (buf' \o wire' = buf \o wire \/ (buf' = buf /\ wire' = <<>> /\ open' = FALSE))
    <3>1. CASE wire' = wire
      BY <3>1, <2>1, <2>2
    <3>2. CASE wire' = <<>>
      BY <3>2, <2>1, <2>2, <2>3
    <3>3. QED
      BY <2>1, <3>1, <3>2
  <2>5. QED
    BY <2>1, <2>4, MoveStep
<1>4. QED
  BY <1>1, <1>2, <1>3

\* Every step keeps the invariant,
LEMMA StreamInvStep == StreamInv /\ [Next]_vars => StreamInv'
<1> SUFFICES ASSUME StreamInv, [Next]_vars PROVE StreamInv'
  OBVIOUS
<1>1. ASSUME NEW n \in Lengths, SendData(n) PROVE StreamInv'
  BY <1>1, SendDataStep
<1>2. ASSUME NEW w \in Writers, NEW p \in Sends(w), SendControl(w, p) PROVE StreamInv'
  BY <1>2, SendControlStep
<1>3. ASSUME NEW w \in Writers, Write(w) PROVE StreamInv'
  BY <1>3, WriteStreamStep
<1>4. ASSUME NEW w \in Writers, SendFails(w) PROVE StreamInv'
  BY <1>4, SendFailsStep
<1>5. CASE ReadPacket
  BY <1>5, ReadStep
<1>6. CASE Begin \/ Stop \/ Close \/ Fill \/ EndOfStream \/ UNCHANGED vars
  BY <1>6, OtherStreamStep
<1> QED
  BY <1>1, <1>2, <1>3, <1>4, <1>5, <1>6 DEF Next, Read

\* and it holds at the start.
LEMMA StreamInvInit == Init => StreamInv
<1> SUFFICES ASSUME Init PROVE StreamInv
  OBVIOUS
<1>1. \A w \in Writers : todo[w] = Done
  BY DEF Init
<1>2. Len(<<>>) = 0 /\ 0 <= WireSize /\ 0 <= MaxPackets /\ Session \in 0..7 /\ WireSize \in Nat /\ 0 <= 0
  BY DeliveryConstants
<1>3. side \in {"server", "client"} /\ Data[side] \in Writers
  BY DataWrites DEF Init
<1>4. /\ wire = <<>> /\ buf = <<>> /\ due = <<>> /\ owed = <<>> /\ whole = 0 /\ posted = 0
      /\ cut = FALSE /\ garbled = FALSE /\ wrong = FALSE
      /\ reasm = [s \in 0..7 |-> <<>>] /\ todo = [w \in Writers |-> Done]
  BY DEF Init
<1>5. \A w \in Writers : GoodJob(side, w, Done) /\ Started(Done) = 0 /\ ~Halfway(w) /\ Done.ip = <<>>
  BY <1>1, DoneIsGood DEF Halfway, Busy, Done, Job
<1>6. Typed
  <2>1. <<>> \in Seq(Octets) /\ <<>> \in Seq(Sendable(side)) /\ <<>> \in Seq(IPPackets)
    OBVIOUS
  <2>2. /\ begun \in BOOLEAN /\ stop \in BOOLEAN /\ open \in BOOLEAN /\ reading \in BOOLEAN
        /\ cut \in BOOLEAN /\ garbled \in BOOLEAN /\ lock = Nobody
    BY DEF Init
  <2>3. todo = [w \in Writers |-> todo[w]] /\ reasm = [s \in 0..7 |-> reasm[s]]
    BY <1>4
  <2> HIDE DEF Done
  <2>4. \A w \in Writers : GoodJob(side, w, todo[w])
    BY <1>1, <1>5
  <2>5. QED
    BY <1>2, <1>3, <1>4, <2>1, <2>2, <2>3, <2>4 DEF Typed
<1>7. OneAtATime
  BY <1>5 DEF OneAtATime
<1>8. BytesFollow
  <2>1. <<>> \o <<>> = <<>>
    OBVIOUS
  <2>2. Laid(buf \o wire, due, 0)
    BY <1>4, <2>1, LaidNothing
  <2>3. EndsAt(0)
    BY <1>2, <1>4, <1>5, <2>1 DEF EndsAt
  <2>4. QED
    BY <2>2, <2>3 DEF BytesFollow
<1>9. Started(todo[Data[side]]) = 0 /\ todo[Data[side]].ip = <<>>
  BY <1>1, <1>3, <1>5
<1>10. PacketsFollow
  <2>1. reasm[Session] = <<>>
    BY <1>2, <1>4
  <2>2. Follows(due, owed, reasm[Session], 1, 0)
    BY <1>4, <2>1, FollowsNothing
  <2>3. ~(0 < 0) /\ 0 + 1 = 1
    OBVIOUS
  <2>4. StandsAt(1, 0)
    BY <1>2, <1>4, <1>9, <2>3 DEF StandsAt
  <2>5. QED
    BY <2>2, <2>4 DEF PacketsFollow
<1>11. Counted
  <2>1. ~(0 > 0)
    OBVIOUS
  <2>2. QED
    BY <1>2, <1>4, <1>9, <2>1 DEF Counted
<1>12. WithinBound
  BY <1>2, <1>4, <1>9 DEF WithinBound
<1>13. QED
  BY <1>4, <1>6, <1>7, <1>8, <1>10, <1>11, <1>12 DEF StreamInv

\* Whatever the threads of a side write, in whatever pieces the connection takes it: until a
\* packet was abandoned part way or two writers met, the reader parses the packets that were
\* written and hands on the IP packets that went in (_FrameReader.read_packet, _fragment and
\* _handle_data).
THEOREM PacketsArrive == Spec => []StreamArrives
<1>1. StreamInv => StreamArrives
  BY DEF StreamInv, StreamArrives
<1> QED
  BY <1>1, StreamInvInit, StreamInvStep, PTL DEF Spec

\* The types of the connection, with what is left of a packet and what is in the socket.
THEOREM TypeCorrect == Spec => []TypeOK
<1>1. StreamInv => TypeOK
  <2> SUFFICES ASSUME StreamInv PROVE TypeOK
    OBVIOUS
  <2>1. /\ side \in {"server", "client"}
        /\ {begun, stop, open, reading, cut, garbled, wrong} \subseteq BOOLEAN
        /\ lock \in Writers \union {Nobody} /\ (side = "client" => lock = Nobody)
        /\ Len(wire) <= WireSize /\ whole <= Len(owed) /\ posted <= MaxPackets
    BY DEF StreamInv, Typed, Counted, WithinBound
  <2>2. \A w \in Writers : Busy(w) => Working(w) /\ todo[w].at < Len(Bytes(todo[w].frames[1]))
    BY DEF StreamInv, Typed, GoodJob, CanSend, Working, Busy
  <2>3. \A i \in DOMAIN wire : wire[i] \in 0..255
    <3>1. wire \in Seq(Octets)
      BY DEF StreamInv, Typed
    <3>2. \A i \in DOMAIN wire : wire[i] \in Octets
      BY <3>1, ElementOfSeq
    <3>3. QED
      BY <3>2 DEF Octets
  <2>4. QED
    BY <2>1, <2>2, <2>3 DEF TypeOK
<1> QED
  BY <1>1, StreamInvInit, StreamInvStep, PTL DEF Spec

=============================================================================
