------------------------------ MODULE VPNPacket ------------------------------
(***************************************************************************)
(* The packets of the control protocol: VPNPacket.py of the server and of  *)
(* the client, and the cipher around them.  A packet is a sequence of      *)
(* bytes: two of length, one of code, session and fragment flag, one that  *)
(* is reserved, and the payload.  The JSON texts are one byte here, and a  *)
(* text is UTF-8 when all its bytes are ASCII.                             *)
(***************************************************************************)
EXTENDS Integers, Sequences

Code == [DATA |-> 0, KEEP_ALIVE |-> 1, AUTH_REQUEST |-> 2, AUTH_SUCCESS |-> 3,
         AUTH_FAILED |-> 4, QUOTA_REQUEST |-> 5, QUOTA_RESPONSE |-> 6, DISCONNECT |-> 7,
         STATUS |-> 8, ERROR |-> 9, GET_IP |-> 10, ASSIGN_IP |-> 11, GET_NEW_IP |-> 12,
         REGISTER_REQUEST |-> 13, REGISTER_SUCCESS |-> 14, ANNOUNCE_IP |-> 15]

HeaderLen == 4
Shift == 5
Credentials == <<123>>
Text == <<46>>
FourBytes == <<0, 0, 0, 253>>

-----------------------------------------------------------------------------
\* Cesar

\* Mutant of Encode: the sum is not reduced.
EncodeUnreduced(bytes) == [i \in DOMAIN bytes |-> bytes[i] + Shift]

Encode(bytes) == [i \in DOMAIN bytes |-> (bytes[i] + Shift) % 256]
Decode(bytes) == [i \in DOMAIN bytes |-> (bytes[i] - Shift) % 256]

-----------------------------------------------------------------------------
\* Building.

Packet(code, session, payload, more) ==
    [code |-> code, session |-> session, more |-> more, payload |-> payload]

Malformed == Packet(16, 0, <<>>, FALSE)

Control(code, session, payload) == Packet(code, session, payload, FALSE)

\* Mutant of Built: the flag is shifted with the session.
BuiltAside(p) ==
    <<Len(p.payload) \div 256, Len(p.payload) % 256,
      16 * p.code + ((2 * p.session + (IF p.more THEN 2 ELSE 0)) % 16), 0>> \o p.payload

\* _build_packet
Built(p) ==
    <<Len(p.payload) \div 256, Len(p.payload) % 256,
      16 * p.code + 2 * p.session + (IF p.more THEN 1 ELSE 0), 0>> \o p.payload

\* What the server may send before a session has begun, and during one.
ServerOpening(session) ==
    {Control(Code.AUTH_SUCCESS, session, <<>>), Control(Code.ERROR, session, Text),
     Control(Code.ASSIGN_IP, session, Text), Control(Code.GET_NEW_IP, session, <<>>),
     Control(Code.REGISTER_SUCCESS, session, <<>>),
     Control(Code.QUOTA_RESPONSE, session, FourBytes)}
ServerControl(session) ==
    {Control(Code.QUOTA_RESPONSE, session, FourBytes), Control(Code.STATUS, session, Text),
     Control(Code.ERROR, session, Text), Control(Code.DISCONNECT, session, <<>>)}

\* What the client may send before a session has begun, and during one.
ClientOpening(session) ==
    {Control(Code.REGISTER_REQUEST, session, Credentials),
     Control(Code.AUTH_REQUEST, session, Credentials), Control(Code.GET_IP, session, <<>>),
     Control(Code.ANNOUNCE_IP, session, Text), Control(Code.QUOTA_REQUEST, session, FourBytes),
     Control(Code.DISCONNECT, session, <<>>)}
KeepAlive(session) == Control(Code.KEEP_ALIVE, session, <<>>)
ClientError(session) == Control(Code.ERROR, session, Text)
ClientControl(session) ==
    {Control(Code.QUOTA_REQUEST, session, FourBytes), Control(Code.STATUS, session, <<>>),
     Control(Code.DISCONNECT, session, <<>>)}

-----------------------------------------------------------------------------
\* Parsing.

\* _parse_header_and_payload
Opened(bytes) ==
    IF Len(bytes) < HeaderLen \/ bytes[4] # 0
       \/ Len(bytes) # HeaderLen + 256 * bytes[1] + bytes[2]
    THEN Malformed
    ELSE Packet(bytes[3] \div 16, (bytes[3] \div 2) % 8,
                SubSeq(bytes, HeaderLen + 1, Len(bytes)), bytes[3] % 2 = 1)

IsText(payload) == \A i \in DOMAIN payload : payload[i] < 128

\* _SERVER_RECEIVABLE
ServerReceivable ==
    {Code.DATA, Code.KEEP_ALIVE, Code.AUTH_REQUEST, Code.QUOTA_REQUEST, Code.DISCONNECT,
     Code.STATUS, Code.ERROR, Code.GET_IP, Code.REGISTER_REQUEST, Code.ANNOUNCE_IP}

\* ServerVPNPacket.parse, of an opened packet
ServerAccepts(p) ==
    /\ p # Malformed
    /\ p.code \in ServerReceivable
    /\ p.code \in {Code.AUTH_REQUEST, Code.REGISTER_REQUEST} => p.payload = Credentials
    /\ p.code = Code.QUOTA_REQUEST => Len(p.payload) = 4
    /\ p.code \in {Code.ERROR, Code.ANNOUNCE_IP} => IsText(p.payload)
    /\ p.code = Code.ANNOUNCE_IP => p.payload # <<>>
    /\ p.code \in {Code.KEEP_ALIVE, Code.DISCONNECT, Code.GET_IP} => p.payload = <<>>

\* _CLIENT_RECEIVABLE
ClientReceivable ==
    {Code.DATA, Code.AUTH_SUCCESS, Code.AUTH_FAILED, Code.QUOTA_RESPONSE, Code.DISCONNECT,
     Code.STATUS, Code.ERROR, Code.ASSIGN_IP, Code.GET_NEW_IP, Code.REGISTER_SUCCESS}

\* ClientVPNPacket.parse, of an opened packet
ClientAccepts(p) ==
    /\ p # Malformed
    /\ p.code \in ClientReceivable
    /\ p.code = Code.QUOTA_RESPONSE => Len(p.payload) = 4
    /\ p.code \in {Code.ASSIGN_IP, Code.ERROR} => IsText(p.payload)
    /\ p.code = Code.ASSIGN_IP => p.payload # <<>>
    /\ p.code \in {Code.AUTH_SUCCESS, Code.AUTH_FAILED, Code.DISCONNECT, Code.GET_NEW_IP,
                   Code.REGISTER_SUCCESS} => p.payload = <<>>

=============================================================================
