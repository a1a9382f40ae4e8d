-------------------------------- MODULE MCH2 --------------------------------
(***************************************************************************)
(* Instances of H2: the connection window is two units of DATA and a read  *)
(* takes any number of the frames on their way.                            *)
(***************************************************************************)
EXTENDS H2
=============================================================================
