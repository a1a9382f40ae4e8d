------------------------------- MODULE MCBody -------------------------------
(***************************************************************************)
(* Instances of Body: bodies up to one byte over the cap, and reads that   *)
(* can take less than a chunk, a whole one, or the end of one with the     *)
(* beginning of the next.                                                  *)
(***************************************************************************)
EXTENDS Body
=============================================================================
