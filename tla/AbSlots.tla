------------------------------ MODULE AbSlots ------------------------------
(***************************************************************************)
(* The two boot slots, shared by the agent's record (OtaSlot of model.h)   *)
(* and by the boot metadata (slots[0], slots[1] of edgeguard-rk-abctl.c).  *)
(***************************************************************************)

Slots == {"a", "b"}

\* The peer of a slot: "1 - slot" in the tool, the candidate in the agent.
Other(s) == IF s = "a" THEN "b" ELSE "a"

=============================================================================
