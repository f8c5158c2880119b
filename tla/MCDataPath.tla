------------------------------ MODULE MCDataPath -----------------------------
(***************************************************************************)
(* DataPath on a small instance for TLC: "cdn" is below "site".            *)
(***************************************************************************)
EXTENDS DataPath, TLC

SubdomainOf(d, r) == d = "cdn" /\ r = "site"

Permuted == Permutations(Addresses)

=============================================================================
