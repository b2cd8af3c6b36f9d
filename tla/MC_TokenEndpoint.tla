-------------------------- MODULE MC_TokenEndpoint --------------------------
(***************************************************************************)
(* A small instance of TokenEndpoint: two IPs that ask for one client, so   *)
(* that the client's bucket fills up although neither IP's has, and forms   *)
(* that name no client.                                                     *)
(***************************************************************************)
EXTENDS TokenEndpoint, TLC

CONSTANTS a1, a2,   \* IPs
          c1        \* the client

InterchangeableIps == Permutations(Ips)
=============================================================================
