----------------------------- MODULE TokenBucket -----------------------------
(***************************************************************************)
(* The rate limiter of a session (TokenBucket in VPNServer.py), in whole   *)
(* tokens and whole units of time.  The capacity is one unit of the rate.  *)
(***************************************************************************)
EXTENDS Integers

CONSTANT Rate

ASSUME BucketConstants == Rate \in Nat \ {0}

Capacity == Rate

New(now) == [tokens |-> Rate, last |-> now]

\* Mutant of Refilled: the refill forgets when it was made.
RefilledAgain(b, now) ==
    LET earned == b.tokens + (now - b.last) * Rate
    IN  [b EXCEPT !.tokens = IF earned > Capacity THEN Capacity ELSE earned]

\* Mutant of Refilled: idle time is saved up.
RefilledUncapped(b, now) == [tokens |-> b.tokens + (now - b.last) * Rate, last |-> now]

Refilled(b, now) ==
    LET earned == b.tokens + (now - b.last) * Rate
    IN  [tokens |-> IF earned > Capacity THEN Capacity ELSE earned, last |-> now]

\* A frame above the capacity does not wait.
Oversized(amount) == amount > Capacity
Passes(b, amount) == b.tokens >= amount \/ Oversized(amount)
Spent(b, amount) == [b EXCEPT !.tokens = @ - amount]

=============================================================================
