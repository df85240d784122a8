----------------------------- MODULE MCGateways -----------------------------
(***************************************************************************)
(* An instance of Gateways for TLC: the clients are the calls and runs.    *)
(***************************************************************************)
EXTENDS Gateways

CONSTANTS c1, r1, s1

MCClients == Calls \cup Runs
=============================================================================
