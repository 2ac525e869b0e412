-------------------------------- MODULE MCCli --------------------------------
(* Cli on a small instance: a remote file of two bytes. *)
EXTENDS Cli
=============================================================================
