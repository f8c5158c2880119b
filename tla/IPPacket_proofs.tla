--------------------------- MODULE IPPacket_proofs ----------------------------
(***************************************************************************)
(* The checksums of IPPacket, for words of any size.  The loop that folds  *)
(* the carry is a recursive function; what it returns is shown by          *)
(* induction, in the form that a set of naturals has a least element.      *)
(***************************************************************************)
EXTENDS IPPacket, Integers, WellFoundedInduction, TLAPS

NatLess == {ss \in Nat \X Nat : ss[1] < ss[2]}

\* Induction over the naturals for a set.
LEMMA StrongInduction ==
    ASSUME NEW S, \A n \in Nat : (\A m \in Nat : m < n => m \in S) => n \in S
    PROVE  Nat \subseteq S
<1> DEFINE T == Nat \ S
<1>1. IsWellFoundedOn(NatLess, Nat)
  BY NatLessThanWellFounded DEF OpToRel, NatLess
<1>2. SUFFICES ASSUME T # {} PROVE FALSE
  OBVIOUS
<1>3. PICK x \in T : \A y \in T : <<y, x>> \notin NatLess
  <2>1. T \subseteq Nat
    OBVIOUS
  <2> HIDE DEF T
  <2>2. QED
    BY <1>1, <1>2, <2>1, WFMin
<1>4. \A m \in Nat : m < x => m \in S
  BY <1>3 DEF NatLess
<1>5. QED
  BY <1>3, <1>4

-----------------------------------------------------------------------------
\* The sum.

\* A turn of the loop takes a multiple of WordSize - 1 from a sum that has a carry, and
\* leaves less, but never zero.
LEMMA CarryAdded ==
    ASSUME NEW n \in Nat, n >= WordSize
    PROVE  LET m == (n % WordSize) + (n \div WordSize)
           IN  /\ m \in 1..(n - 1)
               /\ n \div WordSize \in Nat
               /\ n = m + (n \div WordSize) * (WordSize - 1)
<1> DEFINE w == WordSize
           q == n \div w
           r == n % w
<1>1. w \in Nat /\ w >= 2 /\ n >= w
  BY WordConstant
<1>2. q \in Nat /\ r \in 0..(w - 1) /\ n = w * q + r
  BY <1>1
<1> HIDE DEF w, q, r
<1>3. q >= 1
  BY <1>1, <1>2
<1>4. w * q - q = q * (w - 1)
  BY <1>1, <1>2
<1>5. q * (w - 1) >= 1
  BY <1>1, <1>2, <1>3
<1>6. n = (r + q) + q * (w - 1)
  BY <1>1, <1>2, <1>4
<1>7. r + q \in 1..(n - 1)
  BY <1>1, <1>2, <1>3, <1>5, <1>6
<1>8. QED
  BY <1>2, <1>6, <1>7 DEF w, q, r

\* Multiples of the modulus do not matter.
LEMMA Remainder ==
    ASSUME NEW z \in Nat \ {0}, NEW m \in Nat, NEW k \in Nat
    PROVE  (m + k * z) % z = m % z
<1> DEFINE q == m \div z
           r == m % z
<1>1. q \in Nat /\ r \in 0..(z - 1) /\ m = z * q + r
  OBVIOUS
<1> HIDE DEF q, r
<1>2. m + k * z = z * (q + k) + r
  BY <1>1
<1>3. q + k \in Nat
  BY <1>1
<1>4. (z * (q + k) + r) % z = r
  BY <1>1, <1>3
<1>5. QED
  BY <1>2, <1>4 DEF r

\* v is what a sum of n folds to: the same, up to multiples of WordSize - 1, in one word,
\* and zero for zero only.
FoldsTo(n, v) ==
    /\ v \in Words
    /\ v = 0 => n = 0
    /\ \E k \in Nat : n = v + k * (WordSize - 1)

\* The recursive equation of the loop has a solution: the remainder in 1..WordSize - 1.
LEMMA LoopEnds ==
    ASSUME NEW total \in Nat
    PROVE  \E f : f = [n \in 0..total |->
                IF n < WordSize THEN n ELSE f[(n % WordSize) + (n \div WordSize)]]
<1> DEFINE z == WordSize - 1
           f == [n \in 0..total |-> IF n = 0 THEN 0 ELSE 1 + ((n - 1) % z)]
<1>1. z \in Nat \ {0} /\ WordSize = z + 1
  BY WordConstant
<1>2. ASSUME NEW n \in 0..total, n < WordSize PROVE f[n] = n
  BY <1>1, <1>2
<1>3. ASSUME NEW n \in 0..total, n >= WordSize
      PROVE  f[n] = f[(n % WordSize) + (n \div WordSize)]
  <2> DEFINE m == (n % WordSize) + (n \div WordSize)
             k == n \div WordSize
  <2>1. m \in 1..(n - 1) /\ k \in Nat /\ n = m + k * z
    BY <1>3, CarryAdded
  <2> HIDE DEF m, k, z
  <2>2. (n - 1) = (m - 1) + k * z /\ m - 1 \in Nat
    BY <1>1, <2>1
  <2>3. (n - 1) % z = (m - 1) % z
    BY <1>1, <2>1, <2>2, Remainder, ZenonT(60)
  <2>4. m \in 0..total /\ m # 0 /\ n # 0
    BY <1>3, <2>1
  <2>5. f[n] = f[m]
    BY <2>3, <2>4
  <2>6. QED
    BY <2>5 DEF m
<1>4. f = [n \in 0..total |-> IF n < WordSize THEN n ELSE f[(n % WordSize) + (n \div WordSize)]]
  <2> HIDE DEF f
  <2>1. f = [n \in 0..total |-> f[n]]
    BY DEF f
  <2>2. QED
    BY <1>1, <1>2, <1>3, <2>1, SMTT(30)
<1>5. QED
  BY <1>4

\* What the loop of _checksum returns.
LEMMA FoldedIs == ASSUME NEW total \in Nat PROVE FoldsTo(total, Folded(total))
<1> DEFINE Loop(f) == f = [n \in 0..total |->
                IF n < WordSize THEN n ELSE f[(n % WordSize) + (n \div WordSize)]]
           fold == CHOOSE f : Loop(f)
           S == {n \in Nat : n <= total => FoldsTo(n, fold[n])}
<1>1. Folded(total) = fold[total]
  BY DEF Folded
<1>2. \A n \in 0..total :
         fold[n] = IF n < WordSize THEN n ELSE fold[(n % WordSize) + (n \div WordSize)]
  <2>1. Loop(fold)
    BY LoopEnds
  <2> HIDE DEF fold
  <2>2. QED
    BY <2>1
<1> HIDE DEF fold
<1>3. ASSUME NEW n \in Nat, \A m \in Nat : m < n => m \in S, n <= total
      PROVE  FoldsTo(n, fold[n])
  <2>1. CASE n < WordSize
    <3>1. n \in 0..total /\ fold[n] = n
      BY <1>2, <1>3, <2>1
    <3>2. n = n + 0 * (WordSize - 1) /\ n \in Words
      BY <2>1, WordConstant DEF Words
    <3>3. QED
      BY <3>1, <3>2 DEF FoldsTo
  <2>2. CASE n >= WordSize
    <3> DEFINE m == (n % WordSize) + (n \div WordSize)
               q == n \div WordSize
    <3>1. m \in 1..(n - 1) /\ q \in Nat /\ n = m + q * (WordSize - 1)
      BY <2>2, CarryAdded
    <3> HIDE DEF m, q
    <3>2. fold[n] = fold[m]
      <4>1. n \in 0..total /\ ~(n < WordSize)
        BY <1>3, <2>2, WordConstant
      <4>2. QED
        BY <1>2, <4>1 DEF m
    <3>3. FoldsTo(m, fold[m])
      BY <1>3, <3>1
    <3>4. PICK k \in Nat : m = fold[m] + k * (WordSize - 1)
      BY <3>3 DEF FoldsTo
    <3>5. fold[m] # 0 /\ fold[m] \in Words /\ fold[m] \in Nat
      BY <3>1, <3>3, WordConstant DEF FoldsTo, Words
    <3>6. n = fold[m] + (k + q) * (WordSize - 1)
      BY <3>1, <3>4, <3>5, WordConstant
    <3>7. QED
      BY <3>1, <3>2, <3>5, <3>6 DEF FoldsTo
  <2>3. QED
    BY <2>1, <2>2, WordConstant
<1>4. \A n \in Nat : (\A m \in Nat : m < n => m \in S) => n \in S
  BY <1>3
<1> HIDE DEF S
<1>5. Nat \subseteq S
  BY <1>4, StrongInduction
<1>6. total \in S
  BY <1>5
<1>7. QED
  BY <1>1, <1>6 DEF S

\* A multiple of WordSize - 1 that is not zero is what the receiver looks for.
LEMMA Multiple ==
    ASSUME NEW total \in Nat, NEW sum \in Nat, NEW k \in Nat,
           total + sum = (k + 1) * (WordSize - 1)
    PROVE  Verified(total, sum)
<1> DEFINE z == WordSize - 1
<1>1. z \in Nat \ {0}
  BY WordConstant
<1> HIDE DEF z
<1>2. (k + 1) * z > 0 /\ ((k + 1) * z) % z = 0
  BY <1>1
<1>3. QED
  BY <1>2 DEF Verified, z

\* A packet of any content verifies with its checksum (_checksum); where the checksum is
\* zero it verifies with a word of ones as well, which is what UDP puts there.
THEOREM ChecksumVerifies ==
    ASSUME NEW total \in Nat
    PROVE  /\ Checksum(total) \in Words
           /\ Verified(total, Checksum(total))
           /\ Checksum(total) = 0 => Verified(total, WordSize - 1)
<1> DEFINE z == WordSize - 1
           v == Folded(total)
<1>1. z \in Nat \ {0} /\ Words = 0..z
  BY WordConstant DEF Words
<1>2. FoldsTo(total, v)
  BY FoldedIs
<1>3. Checksum(total) = z - v
  BY DEF Checksum
<1> HIDE DEF z, v
<1>4. PICK k \in Nat : total = v + k * z
  BY <1>2 DEF FoldsTo, z
<1>5. v \in 0..z
  BY <1>1, <1>2 DEF FoldsTo
<1>6. z - v \in Nat /\ total + (z - v) = (k + 1) * z
  BY <1>1, <1>4, <1>5
<1>7. Verified(total, z - v)
  BY <1>6, Multiple DEF z
<1>8. ASSUME z - v = 0 PROVE Verified(total, z)
  <2>1. total + z = ((k + 1) + 1) * z /\ k + 1 \in Nat
    BY <1>1, <1>4, <1>5, <1>8
  <2>2. QED
    BY <1>1, <2>1, Multiple DEF z
<1>9. QED
  BY <1>1, <1>3, <1>5, <1>7, <1>8 DEF z

-----------------------------------------------------------------------------
\* The setters.

\* Both packets carry the same but for the checksums.
SameButSums(q, p) ==
    /\ q \in Packets
    /\ q.proto = p.proto /\ q.src = p.src /\ q.dst = p.dst
    /\ q.sport = p.sport /\ q.dport = p.dport /\ q.body = p.body

LEMMA TotalsAreSums ==
    ASSUME NEW p \in Packets
    PROVE  /\ IPTotal(p) \in Nat /\ L4Total(p) \in Nat
           /\ \A q : SameButSums(q, p) => IPTotal(q) = IPTotal(p) /\ L4Total(q) = L4Total(p)
<1>1. p.proto \in Nat /\ p.src \in Nat /\ p.dst \in Nat /\ p.sport \in Nat /\ p.dport \in Nat
        /\ p.body \in Nat
  BY DEF Packets, Words, Protocols, ICMP, TCP, UDP
<1>2. QED
  BY <1>1 DEF IPTotal, L4Total, SameButSums

\* _recalc_ip_checksum makes the IP header verify, _recalc_l4_checksum the rest.
LEMMA IPSumFacts ==
    ASSUME NEW p \in Packets
    PROVE  /\ SameButSums(WithIPSum(p), p) /\ WithIPSum(p).l4sum = p.l4sum
           /\ Verified(IPTotal(p), WithIPSum(p).ipsum)
<1>1. Checksum(IPTotal(p)) \in Words /\ Verified(IPTotal(p), Checksum(IPTotal(p)))
  BY TotalsAreSums, ChecksumVerifies
<1>2. QED
  BY <1>1 DEF WithIPSum, SameButSums, Packets

LEMMA L4SumFacts ==
    ASSUME NEW p \in Packets
    PROVE  /\ SameButSums(WithL4Sum(p), p) /\ WithL4Sum(p).ipsum = p.ipsum
           /\ Verified(L4Total(p), WithL4Sum(p).l4sum)
           /\ p.proto = UDP => WithL4Sum(p).l4sum # 0
<1> DEFINE sum == Checksum(L4Total(p))
           sent == IF p.proto = UDP /\ sum = 0 THEN WordSize - 1 ELSE sum
<1>1. sum \in Words /\ Verified(L4Total(p), sum) /\ (sum = 0 => Verified(L4Total(p), WordSize - 1))
  BY TotalsAreSums, ChecksumVerifies
<1>2. sent \in Words /\ Verified(L4Total(p), sent) /\ (p.proto = UDP => sent # 0)
  BY <1>1, WordConstant DEF Words
<1>3. WithL4Sum(p) = [p EXCEPT !.l4sum = sent]
  BY DEF WithL4Sum
<1> HIDE DEF sent
<1>4. QED
  BY <1>2, <1>3 DEF SameButSums, Packets

\* _refresh_checksums: a TCP or UDP packet verifies afterwards.
LEMMA RefreshedVerifies ==
    ASSUME NEW p \in Packets, p.proto # ICMP
    PROVE  SameButSums(Refreshed(p), p) /\ Verifies(Refreshed(p))
<1> DEFINE q == WithIPSum(p)
           r == WithL4Sum(q)
<1>1. SameButSums(q, p) /\ Verified(IPTotal(p), q.ipsum)
  BY IPSumFacts
<1>2. q \in Packets /\ q.proto = p.proto
  BY <1>1 DEF SameButSums
<1> HIDE DEF q
<1>3. SameButSums(r, q) /\ r.ipsum = q.ipsum /\ Verified(L4Total(q), r.l4sum)
        /\ (q.proto = UDP => r.l4sum # 0)
  BY <1>2, L4SumFacts
<1> HIDE DEF r
<1>4. SameButSums(r, p)
  BY <1>1, <1>3 DEF SameButSums
<1>5. IPTotal(r) = IPTotal(p) /\ L4Total(r) = L4Total(q)
  BY <1>2, <1>3, <1>4, TotalsAreSums
<1>6. Verifies(r)
  BY <1>1, <1>3, <1>4, <1>5 DEF Verifies, SameButSums
<1>7. Refreshed(p) = r
  BY DEF Refreshed, q, r
<1>8. QED
  BY <1>4, <1>6, <1>7

\* For an ICMP message it leaves the checksum of the message to set_icmp_id.
LEMMA RefreshedICMP ==
    ASSUME NEW p \in Packets, p.proto = ICMP
    PROVE  SameButSums(Refreshed(p), p)
BY IPSumFacts DEF Refreshed

\* set_icmp_id makes the whole packet verify.
LEMMA IdentifierVerifies ==
    ASSUME NEW p \in Packets, NEW id \in Words, p.proto = ICMP
    PROVE  SameButSums(WithIdentifier(p, id), [p EXCEPT !.sport = id]) /\ Verifies(WithIdentifier(p, id))
<1> DEFINE m == [p EXCEPT !.sport = id]
           q == WithL4Sum(m)
           r == WithIPSum(q)
<1>1. m \in Packets /\ m.proto = ICMP
  BY DEF Packets
<1> HIDE DEF m
<1>2. SameButSums(q, m) /\ Verified(L4Total(m), q.l4sum)
  BY <1>1, L4SumFacts
<1>3. q \in Packets
  BY <1>2 DEF SameButSums
<1> HIDE DEF q
<1>4. SameButSums(r, q) /\ r.l4sum = q.l4sum /\ Verified(IPTotal(q), r.ipsum)
  BY <1>3, IPSumFacts
<1> HIDE DEF r
<1>5. SameButSums(r, m)
  BY <1>2, <1>4 DEF SameButSums
<1>6. L4Total(r) = L4Total(m) /\ IPTotal(r) = IPTotal(q)
  BY <1>1, <1>3, <1>4, <1>5, TotalsAreSums
<1>7. r.proto # UDP
  BY <1>1, <1>5 DEF SameButSums, ICMP, UDP
<1>8. Verifies(r)
  BY <1>2, <1>4, <1>6, <1>7 DEF Verifies
<1>9. WithIdentifier(p, id) = r
  BY DEF WithIdentifier, m, q, r
<1>10. QED
  BY <1>5, <1>8, <1>9 DEF m

=============================================================================
