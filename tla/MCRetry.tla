------------------------------- MODULE MCRetry ------------------------------
(* Instances of Retry: a budget that an attempt and a wait can use up, and  *)
(* servers that ask for more than the clamp allows, or for less.            *)
EXTENDS Retry
=============================================================================
