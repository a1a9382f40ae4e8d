-------------------------------- MODULE MCNw --------------------------------
(***************************************************************************)
(* Instances of Nw: every trust configuration over one CA of each kind,    *)
(* and a few bytes and sends.                                              *)
(***************************************************************************)
EXTENDS Nw

MCCfgs ==
  [ca_file : {"none", "file", "unreadable"}, ca_extra : {"none", "extra", "unreadable"},
   source_file : BOOLEAN, verify_peer : BOOLEAN, verify_hostname : BOOLEAN]

MCCerts == [root : {"system", "file", "extra", "unknown"}, name : BOOLEAN]
=============================================================================
