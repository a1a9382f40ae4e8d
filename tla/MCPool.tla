------------------------------- MODULE MCPool -------------------------------
(***************************************************************************)
(* Instances of Pool.  Keys k1 and k2 are two TLS configurations of one    *)
(* host, k3 and k4 are two more hosts.                                     *)
(***************************************************************************)
EXTENDS PoolOwners, TLC

CONSTANTS c1, c2, c3, k1, k2, k3, k4

ThreeHosts == [k \in {k1, k2, k3, k4} |-> IF k = k2 THEN k1 ELSE k]
OneKey     == [k \in {k1} |-> k]
TwoHosts   == [k \in {k1, k3} |-> k]

\* Connections that differ in nothing but their name.
SymH2 == Permutations({c1, c2})
=============================================================================
