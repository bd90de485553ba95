----------------------------- MODULE MCRkAbctl -----------------------------
(***************************************************************************)
(* Model-checking instance of RkAbctl: see RkAbctl.cfg for the constants.  *)
(***************************************************************************)
EXTENDS RkAbctl

=============================================================================
