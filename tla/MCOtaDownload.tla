--------------------------- MODULE MCOtaDownload ---------------------------
(***************************************************************************)
(* Model-checking instance of OtaDownload: see OtaDownload.cfg for the     *)
(* constants.                                                              *)
(***************************************************************************)
EXTENDS OtaDownload

=============================================================================
