----------------------------- MODULE AbRegister -----------------------------
(***************************************************************************)
(* What the single writer path of edgeguard-rk-abctl promises during one   *)
(* boot: the A/B metadata is a register that changes only by one complete, *)
(* accepted mutation of its current value at a time.                       *)
(***************************************************************************)
EXTENDS AbMeta

CONSTANT current   \* the running slot

VARIABLE meta

Bootable(d) == primary_slot(d) # NoPrimary

Init == meta \in ab_data /\ Bootable(meta)

Mutate(op, slot) ==
  /\ mutation_accepted(op, meta, slot, current)
  /\ meta' = mutated(op, meta, slot)

Next == \E op \in Mutations, slot \in Slots : Mutate(op, slot)

Spec == Init /\ [][Next]_meta

\* The tool never leaves the board without a slot to boot (the guard of
\* mark-bad), whatever sequence of mutations RAUC and operators ask for.
AlwaysBootable == meta \in ab_data /\ Bootable(meta)

=============================================================================
