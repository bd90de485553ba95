----------------------------- MODULE MCProvWifi -----------------------------
(***************************************************************************)
(* Model-checking instance of ProvWifi: see the ProvWifi*.cfg files for    *)
(* the constants.                                                          *)
(***************************************************************************)
EXTENDS ProvWifi

=============================================================================
