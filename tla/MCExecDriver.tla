---------------------------- MODULE MCExecDriver ----------------------------
(***************************************************************************)
(* An instance of ExecDriver: two versions, two processes, one death.    *)
(***************************************************************************)
EXTENDS ExecDriver
=============================================================================
