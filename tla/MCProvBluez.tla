---------------------------- MODULE MCProvBluez ----------------------------
(***************************************************************************)
(* Model-checking instance of ProvBluez.                                   *)
(***************************************************************************)
EXTENDS ProvBluez
=============================================================================
