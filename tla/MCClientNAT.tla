----------------------------- MODULE MCClientNAT ----------------------------
(***************************************************************************)
(* ClientNAT on a small instance for TLC.                                  *)
(***************************************************************************)
EXTENDS ClientNAT

\* Three TCP flows of two addresses, one UDP flow, three pings.
SmallFlows == {<<TCP, 2, 1>>, <<TCP, 1, 1>>, <<TCP, 2, 2>>, <<UDP, 2, 1>>,
               <<ICMP, 2, 1>>, <<ICMP, 1, 1>>, <<ICMP, 2, 2>>}

=============================================================================
