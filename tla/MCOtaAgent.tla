----------------------------- MODULE MCOtaAgent -----------------------------
(* Small instances of OtaAgent for TLC; the cfg files give the constants.  *)
EXTENDS OtaAgent

=============================================================================
