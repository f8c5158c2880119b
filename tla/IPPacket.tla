------------------------------- MODULE IPPacket -------------------------------
(***************************************************************************)
(* The part of an IPv4 packet that Packet.py reads and rewrites: the       *)
(* endpoints and the two checksums.  A word has WordSize values instead of *)
(* 2^16; the header fields that never change are left out of the sums,     *)
(* and the payload is one word.  An ICMP echo message has an identifier,   *)
(* kept in `sport`, and no other port.                                     *)
(***************************************************************************)
EXTENDS Naturals

CONSTANT WordSize

ASSUME WordConstant == WordSize \in Nat \ {0, 1}

ICMP == 1
TCP == 6
UDP == 17
Protocols == {ICMP, TCP, UDP}

Words == 0..(WordSize - 1)

Packets == [proto : Protocols, src : Words, dst : Words, sport : Words, dport : Words,
            body : Words, ipsum : Words, l4sum : Words]

-----------------------------------------------------------------------------

\* The loop of _checksum: the carry is added back until there is none.
Folded(total) ==
    LET fold[n \in 0..total] ==
            IF n < WordSize THEN n ELSE fold[(n % WordSize) + (n \div WordSize)]
    IN  fold[total]

\* _checksum of words with this sum.
Checksum(total) == WordSize - 1 - Folded(total)

IPTotal(p) == p.proto + p.src + p.dst

\* The segment with its pseudo header, or the ICMP message.
L4Total(p) ==
    IF p.proto = ICMP THEN p.sport + p.body
    ELSE p.src + p.dst + p.proto + p.sport + p.dport + p.body

\* _recalc_ip_checksum
WithIPSum(p) == [p EXCEPT !.ipsum = Checksum(IPTotal(p))]

\* _recalc_l4_checksum: a UDP checksum of zero would say that there is none.
\* _recalc_icmp_checksum is the same without that case.
WithL4Sum(p) ==
    LET sum == Checksum(L4Total(p))
    IN  [p EXCEPT !.l4sum = IF p.proto = UDP /\ sum = 0 THEN WordSize - 1 ELSE sum]

\* _refresh_checksums: an ICMP message has no pseudo header.
Refreshed(p) == IF p.proto = ICMP THEN WithIPSum(p) ELSE WithL4Sum(WithIPSum(p))

\* set_source, set_destination and set_icmp_id; ICMP has no port to write.
WithSource(p, ip, port) ==
    Refreshed([p EXCEPT !.src = ip, !.sport = IF p.proto = ICMP THEN @ ELSE port])
WithDestination(p, ip, port) ==
    Refreshed([p EXCEPT !.dst = ip, !.dport = IF p.proto = ICMP THEN @ ELSE port])
WithIdentifier(p, id) == WithIPSum(WithL4Sum([p EXCEPT !.sport = id]))

-----------------------------------------------------------------------------

\* What a receiver checks, by the definition of the checksum: the one's complement
\* sum of everything, the checksum included, is minus zero.
Verified(total, sum) == total + sum > 0 /\ (total + sum) % (WordSize - 1) = 0

Verifies(p) ==
    /\ Verified(IPTotal(p), p.ipsum)
    /\ Verified(L4Total(p), p.l4sum)
    /\ p.proto = UDP => p.l4sum # 0

=============================================================================
