------------------------------ MODULE MCMounts ------------------------------
(* A workload of two instances whose files and environments hold a token.   *)
EXTENDS Mounts
=============================================================================
