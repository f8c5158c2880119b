---------------------------- MODULE AddressLease ----------------------------
(***************************************************************************)
(* What the address pool of the server promises its sessions, and nothing  *)
(* of how: an address is free, then offered to a client, then leased to    *)
(* one session, then free again.  A lease never passes from one session to *)
(* another, an offer ends only in a lease, and a session leases one        *)
(* address.  Two things may go wrong: an address is lost with the session  *)
(* that leased it, and an address that was not offered is taken            *)
(* nevertheless, after which nothing is promised about it until everybody  *)
(* has left it.  VPNServer implements this module.                         *)
(***************************************************************************)
CONSTANTS
    Addresses,   \* the pool
    Sessions     \* whoever may hold a lease

VARIABLE lease   \* lease[a]: one of the marks below, or the session that leases a

\* Marks of an address no session leases; none is a session.
Free == "free"
Offered == "offered"
Lost == "lost"
Disputed == "disputed"

LeaseInit == lease = [a \in Addresses |-> Free]

Becomes(a, mark) == lease' = [lease EXCEPT ![a] = mark]

Offer(a) == lease[a] = Free /\ Becomes(a, Offered)

Lease(a, s) ==
    /\ lease[a] = Offered
    /\ \A b \in Addresses : lease[b] # s
    /\ Becomes(a, s)

Release(a) == lease[a] \in Sessions /\ Becomes(a, Free)

\* The session dies without giving the address back.
Lose(a) == lease[a] \in Sessions /\ Becomes(a, Lost)

\* A session takes an address that is no longer on offer.
Dispute(a) == lease[a] \in Sessions \cup {Free, Lost} /\ Becomes(a, Disputed)

\* The last session at a disputed address ends.
Settle(a) ==
    /\ lease[a] = Disputed
    /\ \E mark \in {Free, Offered, Lost} : Becomes(a, mark)

\* The owner of the pool is started again.
Reset == lease' = [a \in Addresses |-> Free]

LeaseNext ==
    \/ \E a \in Addresses :
        \/ Offer(a) \/ Release(a) \/ Lose(a) \/ Dispute(a) \/ Settle(a)
        \/ \E s \in Sessions : Lease(a, s)
    \/ Reset

LeaseSpec == LeaseInit /\ [][LeaseNext]_lease

=============================================================================
