---------------------------- MODULE MCOtaControl ----------------------------
(***************************************************************************)
(* Model-checking instance of OtaControl: see the OtaControl*.cfg files    *)
(* for the constants.                                                      *)
(***************************************************************************)
EXTENDS OtaControl

=============================================================================
