------------------------------ MODULE MCKeyring ------------------------------
(***************************************************************************)
(* An instance of Keyring: two clients beside a rekey and a backup.        *)
(***************************************************************************)
EXTENDS Keyring
=============================================================================
