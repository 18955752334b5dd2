------------------------------ MODULE MCPassLoop ------------------------------
(* Small instances of PassLoop. *)
EXTENDS PassLoop, TLC
==============================================================================
