---------------------------- MODULE AbMetaProofs ----------------------------
(***************************************************************************)
(* Lemmas about the A/B metadata operators, for every priority and try     *)
(* range: mutations and boots stay within the ranges, and an accepted      *)
(* mutation leaves a slot to boot.                                         *)
(***************************************************************************)
EXTENDS AbMeta, TLAPS

\* What the tool and the bootloader make of one slot's metadata stays in range.
LEMMA SlotTyped ==
  ASSUME NEW s \in slot_data
  PROVE  /\ Bad(s) \in slot_data
         /\ Pending(s) \in slot_data
         /\ SteppedDown(s) \in slot_data
         /\ ConfirmedGood \in slot_data
         /\ s.tries_remaining > 0 => OneTryLess(s) \in slot_data
<1>1. Bad(s) \in slot_data
  BY AbMaxAssumption DEF Bad, slot_data
<1>2. Pending(s) \in slot_data
  BY AbMaxAssumption DEF Pending, slot_data
<1>3. SteppedDown(s) \in slot_data
  BY AbMaxAssumption DEF SteppedDown, slot_data
<1>4. ConfirmedGood \in slot_data
  BY AbMaxAssumption DEF ConfirmedGood, slot_data
<1>5. s.tries_remaining > 0 => OneTryLess(s) \in slot_data
  BY AbMaxAssumption DEF OneTryLess, slot_data
<1> QED
  BY <1>1, <1>2, <1>3, <1>4, <1>5

\* The tool's mutations of the metadata stay within the metadata's ranges.
LEMMA MutationsTyped ==
  ASSUME NEW d \in ab_data, NEW slot
  PROVE  /\ set_primary(d, slot) \in ab_data
         /\ mark_bad(d, slot) \in ab_data
         /\ slot \in Slots => mark_good(d, slot) \in ab_data
         /\ NormaliseExhausted(d) \in ab_data
<1>1. d.slots \in [Slots -> slot_data] /\ d.last_boot \in Slots
  BY DEF ab_data
<1>2. \A s \in Slots : d.slots[s] \in slot_data
  BY <1>1
<1>3. mark_bad(d, slot) \in ab_data
  <2>1. [d.slots EXCEPT ![slot] = Bad(d.slots[slot])] \in [Slots -> slot_data]
    BY <1>1, <1>2, SlotTyped
  <2> QED
    BY <1>1, <2>1 DEF mark_bad, ab_data
<1>4. NormaliseExhausted(d) \in ab_data
  BY <1>1, <1>2, SlotTyped DEF NormaliseExhausted, ab_data
<1>5. slot \in Slots => mark_good(d, slot) \in ab_data
  BY <1>1, <1>2, SlotTyped DEF mark_good, ab_data
<1>6. set_primary(d, slot) \in ab_data
  BY <1>1, <1>2, SlotTyped DEF set_primary, ab_data
<1> QED
  BY <1>3, <1>4, <1>5, <1>6

\* The selected slot is bootable, so an unconfirmed one has a try to consume.
LEMMA ConsumeTryTyped ==
  ASSUME NEW d \in ab_data, NEW slot, slot = primary_slot(d), slot # NoPrimary
  PROVE  slot \in Slots /\ ConsumeTry(d, slot) \in ab_data
<1>1. slot \in Slots /\ is_bootable(d.slots[slot])
  BY DEF primary_slot, Slots, NoPrimary
<1>2. d.slots \in [Slots -> slot_data] /\ d.slots[slot] \in slot_data
  BY <1>1 DEF ab_data
<1>3. CASE d.slots[slot].successful_boot = 1
  BY <1>1, <1>3 DEF ConsumeTry
<1>4. CASE d.slots[slot].successful_boot # 1
  <2>1. d.slots[slot].tries_remaining > 0
    BY <1>1, <1>2, <1>4 DEF is_bootable, slot_data
  <2>2. OneTryLess(d.slots[slot]) \in slot_data
    BY <1>2, <2>1, SlotTyped
  <2> QED
    BY <1>1, <1>2, <1>4, <2>2 DEF ConsumeTry, ab_data
<1> QED
  BY <1>3, <1>4

\* Some slot is selected exactly when some slot is bootable.
LEMMA PrimaryExists ==
  ASSUME NEW d
  PROVE  primary_slot(d) # NoPrimary <=> \E s \in Slots : is_bootable(d.slots[s])
BY DEF primary_slot, NoPrimary, Slots

\* mutate() stays within the ranges and never leaves the board without a slot
\* to boot: set-primary and mark-good leave their slot bootable, mark-bad is
\* refused unless the peer is.
LEMMA MutationKeepsBootable ==
  ASSUME NEW d \in ab_data, NEW slot \in Slots, NEW op \in Mutations,
         NEW current, mutation_accepted(op, d, slot, current)
  PROVE  /\ mutated(op, d, slot) \in ab_data
         /\ primary_slot(mutated(op, d, slot)) # NoPrimary
<1> DEFINE e == mutated(op, d, slot)
<1>1. d.slots \in [Slots -> slot_data] /\ Other(slot) \in Slots /\ Other(slot) # slot
  BY DEF ab_data, Other, Slots
<1>2. CASE op = "set-primary"
  <2>1. e = set_primary(d, slot)
    BY <1>2 DEF mutated
  <2>2. e.slots[slot] = Pending(d.slots[slot])
    BY <2>1 DEF set_primary, ab_data
  <2>3. is_bootable(e.slots[slot])
    BY <2>2, AbMaxAssumption DEF Pending, is_bootable
  <2> QED
    BY <2>1, <2>3, MutationsTyped, PrimaryExists
<1>3. CASE op = "mark-bad"
  <2>1. e = mark_bad(d, slot) /\ MarkBadAllowed(d, slot)
    BY <1>3 DEF mutated, mutation_accepted
  <2>2. e.slots[Other(slot)] = d.slots[Other(slot)]
    BY <1>1, <2>1 DEF mark_bad, ab_data
  <2>3. is_bootable(e.slots[Other(slot)])
    BY <2>1, <2>2 DEF MarkBadAllowed
  <2> QED
    BY <1>1, <2>1, <2>3, MutationsTyped, PrimaryExists
<1>4. CASE op = "mark-good"
  <2>1. e = mark_good(d, slot)
    BY <1>4 DEF mutated
  <2>2. e.slots[slot] = ConfirmedGood
    BY <1>1, <2>1 DEF mark_good
  <2>3. is_bootable(e.slots[slot])
    BY <2>2, AbMaxAssumption DEF ConfirmedGood, is_bootable
  <2> QED
    BY <2>1, <2>3, MutationsTyped, PrimaryExists
<1> QED
  BY <1>2, <1>3, <1>4 DEF Mutations
-----------------------------------------------------------------------------
(* Selection and the states of the slots.                                  *)

\* What native_state says of one slot's metadata.
LEMMA NativeStates ==
  ASSUME NEW s \in slot_data
  PROVE  /\ native_state(s) = "confirmed-good" <=>
              s.priority > 0 /\ s.tries_remaining = 0 /\ s.successful_boot = 1
         /\ native_state(s) = "bad" <=>
              s.priority = 0 /\ s.tries_remaining = 0 /\ s.successful_boot = 0
         /\ native_state(s) = "confirmed-good" => is_bootable(s)
         /\ native_state(s) = "bad" => ~is_bootable(s)
<1>1. s.priority \in Nat /\ s.tries_remaining \in Nat /\ s.successful_boot \in 0..1
  BY AbMaxAssumption DEF slot_data
<1>2. native_state(s) = "confirmed-good" <=>
        s.priority > 0 /\ s.tries_remaining = 0 /\ s.successful_boot = 1
  BY <1>1 DEF native_state
<1>3. native_state(s) = "bad" <=>
        s.priority = 0 /\ s.tries_remaining = 0 /\ s.successful_boot = 0
  BY <1>1 DEF native_state
<1> QED
  BY <1>1, <1>2, <1>3 DEF is_bootable

\* The selected slot can boot; a confirmed slot is selected when its peer is bad
\* or stands below it.
LEMMA Selection ==
  ASSUME NEW d \in ab_data
  PROVE  /\ primary_slot(d) # NoPrimary =>
              primary_slot(d) \in Slots /\ is_bootable(d.slots[primary_slot(d)])
         /\ \A s \in Slots :
              /\ native_state(d.slots[s]) = "confirmed-good"
              /\ \/ native_state(d.slots[Other(s)]) = "bad"
                 \/ d.slots[s].priority > d.slots[Other(s)].priority
              => primary_slot(d) = s
<1>1. d.slots["a"] \in slot_data /\ d.slots["b"] \in slot_data
  BY DEF ab_data, Slots
<1>2. d.slots["a"].priority \in Nat /\ d.slots["b"].priority \in Nat
  BY <1>1, AbMaxAssumption DEF slot_data
<1>3. primary_slot(d) # NoPrimary =>
        primary_slot(d) \in Slots /\ is_bootable(d.slots[primary_slot(d)])
  BY DEF primary_slot, Slots, NoPrimary
<1>4. native_state(d.slots["a"]) = "confirmed-good" /\
        (native_state(d.slots["b"]) = "bad" \/ d.slots["a"].priority > d.slots["b"].priority)
      => primary_slot(d) = "a"
  BY <1>1, <1>2, NativeStates DEF primary_slot
<1>5. native_state(d.slots["b"]) = "confirmed-good" /\
        (native_state(d.slots["a"]) = "bad" \/ d.slots["b"].priority > d.slots["a"].priority)
      => primary_slot(d) = "b"
  BY <1>1, <1>2, NativeStates DEF primary_slot
<1>6. Other("a") = "b" /\ Other("b") = "a"
  BY DEF Other
<1> QED
  BY <1>3, <1>4, <1>5, <1>6 DEF Slots

\* A boot leaves confirmed and bad slots as they are, confirms nothing and raises
\* no priority.
LEMMA BootKeepsSlots ==
  ASSUME NEW d \in ab_data, NEW e, NEW slot,
         slot = primary_slot(NormaliseExhausted(d)), slot # NoPrimary,
         e = ConsumeTry(NormaliseExhausted(d), slot), NEW s \in Slots
  PROVE  /\ native_state(d.slots[s]) = "confirmed-good" => e.slots[s] = d.slots[s]
         /\ native_state(d.slots[s]) = "bad" => native_state(e.slots[s]) = "bad"
         /\ native_state(e.slots[s]) = "confirmed-good" =>
              native_state(d.slots[s]) = "confirmed-good"
         /\ e.slots[s].priority <= d.slots[s].priority
         /\ s = slot => native_state(e.slots[s]) # "bad"
<1> DEFINE n == NormaliseExhausted(d)
           x == d.slots[s]
<1>1. d.slots \in [Slots -> slot_data] /\ x \in slot_data
  BY DEF ab_data
<1>2. n \in ab_data /\ n.slots[s] = IF ~is_bootable(x) THEN Bad(x) ELSE x
  BY <1>1, MutationsTyped DEF NormaliseExhausted, ab_data
<1>3. slot \in Slots /\ is_bootable(n.slots[slot])
  BY <1>2, Selection
<1> HIDE DEF n
<1>4. e.slots[s] = IF s = slot /\ n.slots[s].successful_boot # 1 THEN OneTryLess(n.slots[s])
                   ELSE n.slots[s]
  BY <1>2, <1>3 DEF ConsumeTry, ab_data, n
<1> HIDE DEF x
<1>5. /\ x.priority \in Nat /\ x.tries_remaining \in Nat /\ x.successful_boot \in 0..1
  BY <1>1, AbMaxAssumption DEF slot_data
<1>6. CASE ~is_bootable(x)
  <2>1. s # slot /\ e.slots[s] = Bad(x)
    <3>1. ~is_bootable(Bad(x))
      BY DEF Bad, is_bootable
    <3> QED
      BY <1>2, <1>3, <1>4, <1>6, <3>1
  <2>2. Bad(x) \in slot_data /\ Bad(x).priority = 0 /\ native_state(Bad(x)) = "bad"
    BY <1>1, SlotTyped, NativeStates DEF Bad
  <2>3. native_state(x) # "confirmed-good"
    BY <1>1, <1>6, NativeStates
  <2> QED
    BY <1>5, <2>1, <2>2, <2>3 DEF x
<1>7. CASE is_bootable(x) /\ ~(s = slot /\ x.successful_boot # 1)
  <2>1. native_state(x) # "bad"
    BY <1>1, <1>7, NativeStates
  <2> QED
    BY <1>2, <1>4, <1>5, <1>7, <2>1 DEF x
<1>8. CASE is_bootable(x) /\ s = slot /\ x.successful_boot # 1
  <2>1. e.slots[s] = OneTryLess(x) /\ x.tries_remaining > 0
    BY <1>2, <1>4, <1>5, <1>8 DEF is_bootable
  <2>2. /\ OneTryLess(x) \in slot_data /\ OneTryLess(x).priority = x.priority
        /\ OneTryLess(x).successful_boot = x.successful_boot
    BY <1>1, <2>1, SlotTyped DEF OneTryLess, slot_data
  <2>3. native_state(OneTryLess(x)) # "confirmed-good" /\ native_state(x) # "confirmed-good"
        /\ native_state(x) # "bad" /\ native_state(OneTryLess(x)) # "bad"
    BY <1>1, <1>8, <2>2, NativeStates DEF is_bootable
  <2> QED
    BY <1>5, <2>1, <2>2, <2>3 DEF x
<1> QED
  BY <1>6, <1>7, <1>8

\* The slot a boot tries is the one the metadata selects, and is selected again
\* unless its trials have ended.
LEMMA BootSelects ==
  ASSUME NEW d \in ab_data, NEW e, NEW slot,
         slot = primary_slot(NormaliseExhausted(d)), slot # NoPrimary,
         e = ConsumeTry(NormaliseExhausted(d), slot)
  PROVE  /\ slot \in Slots /\ slot = primary_slot(d) /\ native_state(d.slots[slot]) # "bad"
         /\ \/ e.slots[Other(slot)] = d.slots[Other(slot)]
            \/ native_state(e.slots[Other(slot)]) = "bad"
         /\ \/ primary_slot(e) = slot
            \/ native_state(d.slots[slot]) # "confirmed-good" /\ ~is_bootable(e.slots[slot])
<1>1. /\ \A s \in Slots : d.slots[s] \in slot_data
      /\ \A s \in Slots : NormaliseExhausted(d).slots[s] =
            IF ~is_bootable(d.slots[s]) THEN Bad(d.slots[s]) ELSE d.slots[s]
      /\ NormaliseExhausted(d) \in ab_data
  BY MutationsTyped DEF NormaliseExhausted, ab_data
<1>2. PICK n : n = NormaliseExhausted(d)
  OBVIOUS
<1>3. /\ n \in ab_data /\ slot = primary_slot(n) /\ e = ConsumeTry(n, slot)
      /\ \A s \in Slots : n.slots[s] =
            IF ~is_bootable(d.slots[s]) THEN Bad(d.slots[s]) ELSE d.slots[s]
  BY <1>1, <1>2
<1>4. slot \in Slots /\ is_bootable(n.slots[slot])
  BY <1>3, Selection
<1>5. \A x : ~is_bootable(Bad(x))
  BY DEF is_bootable, Bad
<1>6. \A s \in Slots : is_bootable(n.slots[s]) <=> is_bootable(d.slots[s])
  BY <1>3, <1>5
<1>7. \A s \in Slots : is_bootable(d.slots[s]) => n.slots[s] = d.slots[s]
  BY <1>3
<1>8. primary_slot(n) = primary_slot(d)
  BY <1>6, <1>7 DEF primary_slot, Slots
<1>9. native_state(d.slots[slot]) # "bad"
  BY <1>1, <1>4, <1>6, NativeStates
<1>10. Other(slot) \in Slots /\ Other(slot) # slot
  BY <1>4 DEF Other, Slots
<1>11. n.slots \in [Slots -> slot_data]
  BY <1>3 DEF ab_data
<1>12. e.slots[Other(slot)] = n.slots[Other(slot)]
  BY <1>3, <1>4, <1>10, <1>11 DEF ConsumeTry, ab_data
<1>13. \/ n.slots[Other(slot)] = d.slots[Other(slot)]
       \/ native_state(n.slots[Other(slot)]) = "bad"
  <2>1. n.slots[Other(slot)] \in slot_data
    BY <1>10, <1>11
  <2>2. ASSUME n.slots[Other(slot)] = Bad(d.slots[Other(slot)])
        PROVE  native_state(n.slots[Other(slot)]) = "bad"
    BY <2>1, <2>2, NativeStates DEF Bad
  <2> QED
    BY <1>3, <1>10, <2>2
<1>14. e.slots[slot] = IF n.slots[slot].successful_boot = 1 THEN n.slots[slot]
                                                          ELSE OneTryLess(n.slots[slot])
  BY <1>3, <1>4, <1>11 DEF ConsumeTry, ab_data
<1>15. e.slots[slot].priority = n.slots[slot].priority
  BY <1>4, <1>11, <1>14 DEF OneTryLess, slot_data
<1>16. is_bootable(e.slots[slot]) => primary_slot(e) = slot
  <2>1. CASE slot = "a"
    BY <1>3, <1>4, <1>12, <1>15, <2>1 DEF primary_slot, Other, NoPrimary
  <2>2. CASE slot = "b"
    BY <1>3, <1>4, <1>12, <1>15, <2>2 DEF primary_slot, Other, NoPrimary
  <2> QED
    BY <1>4, <2>1, <2>2 DEF Slots
<1>17. native_state(d.slots[slot]) = "confirmed-good" => is_bootable(e.slots[slot])
  BY <1>1, <1>4, <1>6, <1>7, <1>14, NativeStates
<1> QED
  BY <1>3, <1>4, <1>8, <1>9, <1>12, <1>13, <1>16, <1>17

\* The mutations, slot by slot.
LEMMA MutationsSlotwise ==
  ASSUME NEW d \in ab_data, NEW slot \in Slots
  PROVE  /\ mark_bad(d, slot).slots[Other(slot)] = d.slots[Other(slot)]
         /\ native_state(mark_bad(d, slot).slots[slot]) = "bad"
         /\ mark_good(d, slot).slots[Other(slot)] = d.slots[Other(slot)]
         /\ mark_good(d, slot).slots[slot] = ConfirmedGood
         /\ native_state(ConfirmedGood) = "confirmed-good"
         /\ set_primary(d, slot).slots[slot] = Pending(d.slots[slot])
         /\ set_primary(d, slot).slots[Other(slot)] = SteppedDown(d.slots[Other(slot)])
<1>1. d.slots \in [Slots -> slot_data] /\ Other(slot) \in Slots /\ Other(slot) # slot
  BY DEF ab_data, Other, Slots
<1>2. Bad(d.slots[slot]) \in slot_data /\ ConfirmedGood \in slot_data
  BY <1>1, SlotTyped
<1>3. native_state(Bad(d.slots[slot])) = "bad"
  BY <1>2, NativeStates DEF Bad
<1>4. native_state(ConfirmedGood) = "confirmed-good"
  BY <1>2, NativeStates, AbMaxAssumption DEF ConfirmedGood
<1>5. /\ mark_bad(d, slot).slots[Other(slot)] = d.slots[Other(slot)]
      /\ mark_bad(d, slot).slots[slot] = Bad(d.slots[slot])
  BY <1>1 DEF mark_bad, ab_data
<1>6. /\ mark_good(d, slot).slots[Other(slot)] = d.slots[Other(slot)]
      /\ mark_good(d, slot).slots[slot] = ConfirmedGood
  BY <1>1 DEF mark_good
<1>7. /\ set_primary(d, slot).slots[slot] = Pending(d.slots[slot])
      /\ set_primary(d, slot).slots[Other(slot)] = SteppedDown(d.slots[Other(slot)])
  BY <1>1 DEF set_primary, ab_data
<1> QED
  BY <1>3, <1>4, <1>5, <1>6, <1>7

\* set-primary: the slot is selected but not confirmed; its peer keeps what
\* native_state says of it, below the top priority.
LEMMA SetPrimarySelects ==
  ASSUME NEW d \in ab_data, NEW slot \in Slots
  PROVE  LET e == set_primary(d, slot) IN
         /\ native_state(e.slots[slot]) = "pending"
         /\ native_state(e.slots[Other(slot)]) = native_state(d.slots[Other(slot)])
         /\ e.slots[Other(slot)].priority < AB_MAX_PRIORITY
         /\ primary_slot(e) = slot
<1> DEFINE e == set_primary(d, slot)
           x == d.slots[slot]
           y == d.slots[Other(slot)]
<1>1. x \in slot_data /\ y \in slot_data
  BY DEF ab_data, Other, Slots
<1>2. e.slots[slot] = Pending(x) /\ e.slots[Other(slot)] = SteppedDown(y) /\ e \in ab_data
  BY MutationsSlotwise, MutationsTyped
<1> HIDE DEF e, x, y
<1>3. /\ Pending(x).priority = AB_MAX_PRIORITY /\ Pending(x).tries_remaining = AB_MAX_TRIES
      /\ Pending(x).successful_boot = 0
  BY DEF Pending
<1>4. Pending(x) \in slot_data /\ SteppedDown(y) \in slot_data
  BY <1>1, SlotTyped
<1>5. native_state(Pending(x)) = "pending"
  BY <1>3, AbMaxAssumption DEF native_state
<1>6. /\ SteppedDown(y).priority < AB_MAX_PRIORITY
      /\ SteppedDown(y).priority > 0 <=> y.priority > 0
      /\ SteppedDown(y).tries_remaining = y.tries_remaining
      /\ SteppedDown(y).successful_boot = y.successful_boot
      /\ SteppedDown(y).priority \in Nat /\ y.priority \in Nat
  BY <1>1, AbMaxAssumption DEF SteppedDown, slot_data
<1>7. native_state(SteppedDown(y)) = native_state(y)
  BY <1>6 DEF native_state
<1>8. primary_slot(e) = slot
  <2>1. is_bootable(e.slots[slot]) /\ e.slots[slot].priority > e.slots[Other(slot)].priority
    BY <1>2, <1>3, <1>6, AbMaxAssumption DEF is_bootable
  <2>2. (slot = "a" /\ Other(slot) = "b") \/ (slot = "b" /\ Other(slot) = "a")
    BY DEF Other, Slots
  <2>3. e.slots[slot].priority \in Nat /\ e.slots[Other(slot)].priority \in Nat
    BY <1>2, <1>3, <1>6, AbMaxAssumption
  <2>4. CASE slot = "a"
    BY <2>1, <2>2, <2>3, <2>4 DEF primary_slot
  <2>5. CASE slot = "b"
    BY <2>1, <2>2, <2>3, <2>5 DEF primary_slot
  <2> QED
    BY <2>2, <2>4, <2>5
<1> QED
  BY <1>2, <1>5, <1>6, <1>7, <1>8 DEF e, y
=============================================================================
