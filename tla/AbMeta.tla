------------------------------- MODULE AbMeta -------------------------------
(***************************************************************************)
(* Rockchip AvbABData as edgeguard-rk-abctl.c reads and mutates it: the    *)
(* two slots' boot metadata, the selection rule, the three mutations.      *)
(* Byte order, CRC and reserved bytes are left out; flags keeps only bit 0 *)
(* (is_update), the one bit the tool touches.  A metadata value is a       *)
(* record [slots, last_boot].                                              *)
(***************************************************************************)
EXTENDS Naturals, AbSlots

CONSTANTS AB_MAX_PRIORITY, AB_MAX_TRIES

ASSUME AbMaxAssumption == /\ AB_MAX_PRIORITY \in Nat /\ AB_MAX_PRIORITY > 1
                          /\ AB_MAX_TRIES \in Nat /\ AB_MAX_TRIES > 0

NoPrimary == "none"

slot_data == [priority : 0..AB_MAX_PRIORITY, tries_remaining : 0..AB_MAX_TRIES,
              successful_boot : 0..1, is_update : 0..1]
ab_data == [slots : [Slots -> slot_data], last_boot : Slots]

is_bootable(s) ==
  /\ s.priority > 0
  /\ s.successful_boot # 0 \/ s.tries_remaining > 0

\* Slot b wins only with a strictly higher priority; a tie goes to slot a.
primary_slot(d) ==
  LET a == is_bootable(d.slots["a"])
      b == is_bootable(d.slots["b"])
  IN CASE ~a /\ ~b -> NoPrimary
       [] a /\ ~b -> "a"
       [] ~a /\ b -> "b"
       [] OTHER -> IF d.slots["b"].priority > d.slots["a"].priority
                   THEN "b" ELSE "a"

native_state(s) ==
  CASE s.priority > 0 /\ s.tries_remaining = 0 /\ s.successful_boot = 1
         -> "confirmed-good"
    [] s.priority > 0 /\ s.tries_remaining > 0 /\ s.successful_boot = 0
         -> "pending"
    [] s.priority = 0 /\ s.tries_remaining = 0 /\ s.successful_boot = 0
         -> "bad"
    [] OTHER -> "inconsistent"
-----------------------------------------------------------------------------
Pending(s) ==
  [priority |-> AB_MAX_PRIORITY, tries_remaining |-> AB_MAX_TRIES,
   successful_boot |-> 0, is_update |-> s.is_update]

SteppedDown(s) ==
  [s EXCEPT !.priority = IF @ = AB_MAX_PRIORITY THEN AB_MAX_PRIORITY - 1 ELSE @]
ConfirmedGood == [priority |-> AB_MAX_PRIORITY, tries_remaining |-> 0,
                  successful_boot |-> 1, is_update |-> 0]
Bad(s) == [priority |-> 0, tries_remaining |-> 0, successful_boot |-> 0,
           is_update |-> s.is_update]

\* Mutants of the mutations: confirming on activation, retiring the peer,
\* an incomplete reset, the wrong slot.
set_primary_Confirms(d, slot) ==
  [d EXCEPT !.slots[slot] = ConfirmedGood, !.slots[Other(slot)] = SteppedDown(@)]
set_primary_RetiresPeer(d, slot) ==
  [d EXCEPT !.slots[slot] = Pending(@), !.slots[Other(slot)].priority = 0]
mark_bad_TriesOnly(d, slot) == [d EXCEPT !.slots[slot].tries_remaining = 0]
mark_bad_WrongSlot(d, slot) == [d EXCEPT !.slots[Other(slot)] = Bad(@)]
mark_good_KeepsTries(d, slot) ==
  [d EXCEPT !.slots[slot].successful_boot = 1, !.last_boot = slot]

\* MUT_SET_PRIMARY: the slot becomes pending, the peer steps down from the top.
set_primary(d, slot) ==
  [d EXCEPT !.slots = [s \in Slots |-> IF s = slot THEN Pending(d.slots[s])
                                                  ELSE SteppedDown(d.slots[s])]]

\* Mutant: the guard looks at the slot itself instead of its peer.
MarkBadAllowed_Self(d, slot) == is_bootable(d.slots[slot])

\* MUT_MARK_BAD is refused when the peer could not boot instead.
MarkBadAllowed(d, slot) == is_bootable(d.slots[Other(slot)])
mark_bad(d, slot) ==
  [d EXCEPT !.slots = [@ EXCEPT ![slot] = Bad(d.slots[slot])]]

\* MUT_MARK_GOOD is for the running slot only, and only while it is bootable.
MarkGoodAllowed(d, slot, current) == slot = current /\ is_bootable(d.slots[slot])
mark_good(d, slot) ==
  [slots |-> [d.slots EXCEPT ![slot] = ConfirmedGood], last_boot |-> slot]

\* The dispatch of mutate(): which mutation is accepted, and what it leaves.
Mutations == {"set-primary", "mark-bad", "mark-good"}

mutation_accepted(op, d, slot, current) ==
  CASE op = "set-primary" -> TRUE
    [] op = "mark-bad" -> MarkBadAllowed(d, slot)
    [] op = "mark-good" -> MarkGoodAllowed(d, slot, current)

mutated(op, d, slot) ==
  CASE op = "set-primary" -> set_primary(d, slot)
    [] op = "mark-bad" -> mark_bad(d, slot)
    [] op = "mark-good" -> mark_good(d, slot)
-----------------------------------------------------------------------------
(***************************************************************************)
(* The bootloader is external.  Its rules are the ones the repository      *)
(* records as observed on the board: it boots the primary, a boot of an    *)
(* unconfirmed slot consumes one try, a confirmed slot consumes none, and  *)
(* a slot whose tries ran out unconfirmed becomes canonical bad.           *)
(***************************************************************************)
NormaliseExhausted(d) ==
  [d EXCEPT !.slots = [s \in Slots |->
      IF ~is_bootable(d.slots[s]) THEN Bad(d.slots[s]) ELSE d.slots[s]]]

OneTryLess(s) == [s EXCEPT !.tries_remaining = @ - 1]
ConsumeTry(d, slot) ==
  IF d.slots[slot].successful_boot = 1 THEN d
  ELSE [d EXCEPT !.slots = [@ EXCEPT ![slot] = OneTryLess(d.slots[slot])]]

=============================================================================
