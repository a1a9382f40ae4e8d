------------------------------ MODULE MCReentry -----------------------------
(***************************************************************************)
(* Instances of Reentry: clients that are alike, and stacks deep enough    *)
(* for a callback that makes a request whose callback reads a response of  *)
(* the first client.                                                       *)
(***************************************************************************)
EXTENDS Reentry, TLC

CONSTANTS cl1, cl2

SymClients == Permutations(Clients)
=============================================================================
