--------------------------- MODULE MCProvSession ---------------------------
(***************************************************************************)
(* Model-checking instance of ProvSession.                                 *)
(***************************************************************************)
EXTENDS ProvSession, TLC

Frame(char, id, total, part, byte) ==
  [char |-> char, id |-> id, total |-> total, part |-> part, byte |-> byte]

\* One transaction of two frames, its first one also with other content, and a
\* second, short one.
MCFrames ==
  {Frame("PROVISIONING", 1, 2, 1, "a"), Frame("PROVISIONING", 1, 2, 1, "b"),
   Frame("PROVISIONING", 1, 2, 2, "a"), Frame("PROVISIONING", 2, 1, 1, "a")}

\* Peers differ in nothing but their paths.
PeerSymmetry == Permutations(Peers)
=============================================================================
