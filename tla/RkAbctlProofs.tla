--------------------------- MODULE RkAbctlProofs ---------------------------
(***************************************************************************)
(* The writer path of edgeguard-rk-abctl for any number of processes,      *)
(* invocations, kills and failing calls: WriterInv is inductive, and the   *)
(* tool implements the atomic register of AbRegister.                      *)
(***************************************************************************)
EXTENDS RkAbctl, AbMetaProofs, TLAPS

\* A process that has not started, or is gone, has a well-typed record.
LEMMA IdleTyped == Idle \in [pc : PCs, op : Mutations, slot : Slots, d : ab_data]
<1>1. ConfirmedGood \in slot_data
  BY AbMaxAssumption DEF ConfirmedGood, slot_data
<1>2. Idle.d \in ab_data
  BY <1>1, RkAbctlAssumption DEF Idle, ab_data
<1> QED
  BY <1>2, RkAbctlAssumption DEF Idle, PCs, Mutations

\* The slots a board starts with are in range.
LEMMA FactoryTyped == FactorySlots \subseteq slot_data
<1>1. ConfirmedGood \in slot_data
  BY AbMaxAssumption DEF ConfirmedGood, slot_data
<1>2. /\ SteppedDown(ConfirmedGood) \in slot_data
      /\ Pending(ConfirmedGood) \in slot_data
      /\ Bad(ConfirmedGood) \in slot_data
  BY <1>1, SlotTyped
<1>3. SteppedDown(Pending(ConfirmedGood)) \in slot_data
  BY <1>2, SlotTyped
<1>4. SteppedDown(Pending(ConfirmedGood)).tries_remaining > 0
  BY AbMaxAssumption DEF SteppedDown, Pending
<1>5. OneTryLess(SteppedDown(Pending(ConfirmedGood))) \in slot_data
  BY <1>3, <1>4, SlotTyped
<1> QED
  BY <1>1, <1>2, <1>5 DEF FactorySlots

\* A board starts with the invariant.
LEMMA InitWriterInv == Init => WriterInv
<1> SUFFICES ASSUME Init PROVE WriterInv
  OBVIOUS
<1>1. PICK a \in FactorySlots, b \in FactorySlots :
        LET d == [slots |-> [s \in Slots |-> IF s = "a" THEN a ELSE b],
                  last_boot |-> current]
        IN primary_slot(d) # NoPrimary /\ misc = [cache |-> d, stable |-> d]
  BY DEF Init
<1> DEFINE d == [slots |-> [s \in Slots |-> IF s = "a" THEN a ELSE b],
                 last_boot |-> current]
<1>2. d \in ab_data
  BY FactoryTyped, RkAbctlAssumption DEF ab_data
<1>3. misc \in [cache : ab_data, stable : ab_data] /\ BothViewsBootable
  BY <1>1, <1>2 DEF BothViewsBootable
<1>4. /\ proc \in [Procs -> [pc : PCs, op : Mutations, slot : Slots, d : ab_data]]
      /\ \A p \in Procs : proc[p].pc = "idle"
  BY IdleTyped DEF Init, Idle
<1>5. lock = NoProc /\ calls = 0
  BY DEF Init
<1>6. TypeOK
  BY <1>3, <1>4, <1>5, RkAbctlAssumption DEF TypeOK
<1>7. \A p \in Procs : ProcInv(p)
  BY <1>4 DEF ProcInv
<1> QED
  BY <1>3, <1>6, <1>7 DEF WriterInv

\* What every step of mutate() keeps: the types of the process it moves.
LEMMA GoToTyped ==
  ASSUME TypeOK, NEW p \in Procs, NEW label \in PCs, GoTo(p, label)
  PROVE  /\ proc' \in [Procs -> [pc : PCs, op : Mutations, slot : Slots, d : ab_data]]
         /\ \A q \in Procs : q # p => proc'[q] = proc[q]
         /\ proc'[p].pc = label /\ proc'[p].op = proc[p].op
         /\ proc'[p].slot = proc[p].slot /\ proc'[p].d = proc[p].d
BY DEF TypeOK, GoTo

\* A process inside mutate() is the only one past the lock.
LEMMA HolderIsAlone ==
  ASSUME WriterInv, NEW p \in Procs, proc[p].pc \notin {"idle", "lock"},
         NEW q \in Procs, q # p
  PROVE  proc[q].pc \in {"idle", "lock"}
BY DEF WriterInv, ProcInv

\* The processes a step leaves alone keep their part when they wait outside.
LEMMA OutsideKept ==
  ASSUME NEW q, proc'[q].pc \in {"idle", "lock"}
  PROVE  ProcInv(q)'
BY DEF ProcInv

\* Every step of one invocation keeps the invariant.
LEMMA ProcessStep ==
  ASSUME WriterInv, NEW p \in Procs,
         \/ \E op \in Mutations, slot \in Slots : Call(p, op, slot)
         \/ Step(p) \/ Kill(p)
  PROVE  WriterInv'
<1> DEFINE Typed == proc' \in [Procs -> [pc : PCs, op : Mutations, slot : Slots, d : ab_data]]
<1> USE DEF At
<1>0. TypeOK /\ BothViewsBootable /\ \A q \in Procs : ProcInv(q)
  BY DEF WriterInv
<1>pc. {"idle", "lock", "identity", "read", "write", "sync", "verify",
        "ok", "unchanged", "failed"} = PCs
  BY DEF PCs
<1>1. ASSUME NEW op \in Mutations, NEW slot \in Slots, Call(p, op, slot)
      PROVE  WriterInv'
  <2>1. /\ Typed
        /\ proc'[p].pc = "lock" /\ \A q \in Procs : q # p => proc'[q] = proc[q]
    BY <1>0, <1>1 DEF Call, TypeOK, PCs
  <2>2. TypeOK'
    <3>1. calls \in 0..MaxCalls /\ calls < MaxCalls /\ calls' = calls + 1
      BY <1>0, <1>1 DEF Call, TypeOK
    <3>2. calls' \in 0..MaxCalls
      BY <3>1, RkAbctlAssumption
    <3> QED
      BY <1>0, <1>1, <2>1, <3>2 DEF Call, TypeOK
  <2>3. BothViewsBootable'
    BY <1>0, <1>1 DEF Call, BothViewsBootable
  <2>4. ASSUME NEW q \in Procs PROVE ProcInv(q)'
    BY <1>0, <1>1, <2>1 DEF Call, ProcInv
  <2> QED
    BY <2>2, <2>3, <2>4 DEF WriterInv
<1>2. CASE AcquireWriterLock(p)
  <2>1. GoTo(p, "identity") /\ lock = NoProc /\ lock' = p /\ UNCHANGED <<misc, calls>>
    BY <1>2 DEF AcquireWriterLock
  <2>2. /\ Typed /\ proc'[p].pc = "identity"
        /\ \A q \in Procs : q # p => proc'[q] = proc[q]
    BY <1>0, <1>pc, <2>1, GoToTyped
  <2>3. TypeOK' /\ BothViewsBootable'
    BY <1>0, <2>1, <2>2 DEF TypeOK, BothViewsBootable
  <2>4. ASSUME NEW q \in Procs, q # p PROVE proc'[q].pc \in {"idle", "lock"}
    BY <1>0, <2>1, <2>2, <2>4, RkAbctlAssumption DEF ProcInv
  <2>5. \A q \in Procs : ProcInv(q)'
    BY <2>1, <2>2, <2>4, OutsideKept DEF ProcInv
  <2> QED
    BY <2>3, <2>5 DEF WriterInv
<1>3. CASE WriteMisc(p)
  <2>1. /\ GoTo(p, "sync") /\ proc[p].pc = "write"
        /\ misc' = [misc EXCEPT !.cache = proc[p].d] /\ UNCHANGED <<lock, calls>>
    BY <1>3 DEF WriteMisc
  <2>2. /\ Typed /\ proc'[p].pc = "sync" /\ proc'[p].d = proc[p].d
        /\ \A q \in Procs : q # p => proc'[q] = proc[q]
    BY <1>0, <1>pc, <2>1, GoToTyped
  <2>3. misc.cache \in ab_data /\ proc[p].slot \in Slots /\ proc[p].op \in Mutations
    BY <1>0 DEF TypeOK
  <2>4. /\ mutation_accepted(proc[p].op, misc.cache, proc[p].slot, current)
        /\ proc[p].d = mutated(proc[p].op, misc.cache, proc[p].slot)
        /\ lock = p
    BY <1>0, <2>1 DEF ProcInv
  <2>5. proc[p].d \in ab_data /\ primary_slot(proc[p].d) # NoPrimary
    BY <2>3, <2>4, MutationKeepsBootable
  <2>6. /\ misc'.cache = proc[p].d /\ misc'.stable = misc.stable
        /\ misc' \in [cache : ab_data, stable : ab_data]
    BY <1>0, <2>1, <2>5 DEF TypeOK
  <2>7. TypeOK' /\ BothViewsBootable'
    BY <1>0, <2>1, <2>2, <2>5, <2>6 DEF TypeOK, BothViewsBootable
  <2>8. ASSUME NEW q \in Procs, q # p PROVE proc'[q].pc \in {"idle", "lock"}
    BY <2>1, <2>2, <2>8, HolderIsAlone
  <2>9. \A q \in Procs : ProcInv(q)'
    BY <2>1, <2>2, <2>4, <2>6, <2>8, OutsideKept DEF ProcInv
  <2> QED
    BY <2>7, <2>9 DEF WriterInv
<1>4. CASE SyncMisc(p)
  <2>1. /\ GoTo(p, "verify") /\ proc[p].pc = "sync"
        /\ misc' = [misc EXCEPT !.stable = misc.cache] /\ UNCHANGED <<lock, calls>>
    BY <1>4 DEF SyncMisc
  <2>2. /\ Typed /\ proc'[p].pc = "verify" /\ proc'[p].d = proc[p].d
        /\ \A q \in Procs : q # p => proc'[q] = proc[q]
    BY <1>0, <1>pc, <2>1, GoToTyped
  <2>3. /\ misc'.cache = misc.cache /\ misc'.stable = misc.cache
        /\ misc' \in [cache : ab_data, stable : ab_data]
    BY <1>0, <2>1 DEF TypeOK
  <2>4. TypeOK' /\ BothViewsBootable'
    BY <1>0, <2>1, <2>2, <2>3 DEF TypeOK, BothViewsBootable
  <2>5. ASSUME NEW q \in Procs, q # p PROVE proc'[q].pc \in {"idle", "lock"}
    BY <2>1, <2>2, <2>5, HolderIsAlone
  <2>6. \A q \in Procs : ProcInv(q)'
    BY <1>0, <2>1, <2>2, <2>3, <2>5, OutsideKept DEF ProcInv
  <2> QED
    BY <2>4, <2>6 DEF WriterInv
<1>5. CASE ReadAndMutate(p)
  <2>1. proc[p].pc = "read" /\ UNCHANGED <<misc, lock, calls>>
    BY <1>5 DEF ReadAndMutate
  <2>2. misc.cache \in ab_data /\ proc[p].slot \in Slots /\ proc[p].op \in Mutations
    BY <1>0 DEF TypeOK
  <2>3. CASE GoTo(p, "failed") \/ GoTo(p, "unchanged")
    <3>1. /\ Typed /\ proc'[p].pc \in {"failed", "unchanged"}
          /\ \A q \in Procs : q # p => proc'[q] = proc[q]
      BY <1>0, <1>pc, <2>3, GoToTyped
    <3>2. TypeOK' /\ BothViewsBootable'
      BY <1>0, <2>1, <3>1 DEF TypeOK, BothViewsBootable
    <3>3. \A q \in Procs : ProcInv(q)'
      BY <1>0, <2>1, <3>1 DEF ProcInv
    <3> QED
      BY <3>2, <3>3 DEF WriterInv
  <2>4. CASE /\ mutation_accepted(proc[p].op, misc.cache, proc[p].slot, current)
             /\ proc' = [proc EXCEPT ![p] = [@ EXCEPT !.pc = "write",
                           !.d = mutated(proc[p].op, misc.cache, proc[p].slot)]]
    <3> DEFINE e == mutated(proc[p].op, misc.cache, proc[p].slot)
    <3>1. e \in ab_data
      BY <2>2, <2>4, MutationKeepsBootable
    <3> HIDE DEF e
    <3>2. /\ Typed /\ proc'[p].pc = "write" /\ proc'[p].d = e
          /\ proc'[p].op = proc[p].op /\ proc'[p].slot = proc[p].slot
          /\ \A q \in Procs : q # p => proc'[q] = proc[q]
      BY <1>0, <1>pc, <2>4, <3>1 DEF TypeOK, e
    <3>3. TypeOK' /\ BothViewsBootable'
      BY <1>0, <2>1, <3>2 DEF TypeOK, BothViewsBootable
    <3>4. ProcInv(p)'
      BY <1>0, <2>1, <2>4, <3>2 DEF ProcInv, e
    <3>5. ASSUME NEW q \in Procs, q # p PROVE ProcInv(q)'
      BY <1>0, <2>1, <3>2, <3>5 DEF ProcInv
    <3> QED
      BY <3>3, <3>4, <3>5 DEF WriterInv
  <2> QED
    BY <1>5, <2>3, <2>4 DEF ReadAndMutate
<1>6. CASE ReadBack(p)
  <2>1. /\ proc[p].pc = "verify" /\ UNCHANGED <<misc, lock, calls>>
        /\ GoTo(p, "ok") \/ GoTo(p, "failed")
    BY <1>6 DEF ReadBack
  <2>2. /\ Typed /\ proc'[p].pc \in {"ok", "failed"} /\ proc'[p].d = proc[p].d
        /\ \A q \in Procs : q # p => proc'[q] = proc[q]
    BY <1>0, <1>pc, <2>1, GoToTyped
  <2>3. TypeOK' /\ BothViewsBootable'
    BY <1>0, <2>1, <2>2 DEF TypeOK, BothViewsBootable
  <2>4. \A q \in Procs : ProcInv(q)'
    BY <1>0, <2>1, <2>2 DEF ProcInv
  <2> QED
    BY <2>3, <2>4 DEF WriterInv
<1>7. CASE VerifyCurrentSlot(p) \/ CallFails(p)
  <2>1. /\ proc[p].pc \notin {"idle", "lock"} /\ UNCHANGED <<misc, lock, calls>>
        /\ GoTo(p, "read") \/ GoTo(p, "failed")
    BY <1>7 DEF VerifyCurrentSlot, CallFails
  <2>2. /\ Typed /\ proc'[p].pc \in {"read", "failed"}
        /\ \A q \in Procs : q # p => proc'[q] = proc[q]
    BY <1>0, <1>pc, <2>1, GoToTyped
  <2>3. TypeOK' /\ BothViewsBootable'
    BY <1>0, <2>1, <2>2 DEF TypeOK, BothViewsBootable
  <2>4. \A q \in Procs : ProcInv(q)'
    BY <1>0, <2>1, <2>2 DEF ProcInv
  <2> QED
    BY <2>3, <2>4 DEF WriterInv
<1>8. CASE Return(p) \/ Kill(p)
  <2>1. Exit(p) /\ UNCHANGED <<misc, calls>>
    BY <1>8 DEF Return, Kill
  <2>2. /\ Typed /\ proc'[p].pc = "idle"
        /\ \A q \in Procs : q # p => proc'[q] = proc[q]
    <3>1. proc' = [proc EXCEPT ![p] = Idle]
      BY <2>1 DEF Exit
    <3>2. Idle.pc = "idle"
      BY DEF Idle
    <3> QED
      BY <1>0, <3>1, <3>2, IdleTyped DEF TypeOK
  <2>3. /\ lock' \in Procs \cup {NoProc}
        /\ \A q \in Procs : q # p => (lock = q => lock' = q)
    BY <1>0, <2>1 DEF Exit, TypeOK
  <2>4. TypeOK' /\ BothViewsBootable'
    BY <1>0, <2>1, <2>2, <2>3 DEF TypeOK, BothViewsBootable
  <2>5. \A q \in Procs : ProcInv(q)'
    BY <1>0, <2>1, <2>2, <2>3 DEF ProcInv
  <2> QED
    BY <2>4, <2>5 DEF WriterInv
<1> QED
  BY <1>1, <1>2, <1>3, <1>4, <1>5, <1>6, <1>7, <1>8 DEF Step

\* The write-back of the kernel keeps the invariant.
LEMMA WriteBackStep ==
  ASSUME WriterInv, WriteBack
  PROVE  WriterInv'
<1>0. TypeOK /\ BothViewsBootable /\ \A q \in Procs : ProcInv(q)
  BY DEF WriterInv
<1>1. /\ misc'.cache = misc.cache /\ misc'.stable = misc.cache
      /\ misc' \in [cache : ab_data, stable : ab_data]
      /\ UNCHANGED <<lock, proc, calls>>
  BY <1>0 DEF WriteBack, TypeOK
<1>2. TypeOK' /\ BothViewsBootable'
  BY <1>0, <1>1 DEF TypeOK, BothViewsBootable
<1>3. \A q \in Procs : ProcInv(q)'
  BY <1>0, <1>1 DEF ProcInv
<1> QED
  BY <1>2, <1>3 DEF WriterInv

\* The writer lock, the order write, fsync, read back and the guard of mark-bad
\* together: whatever processes, kills and failing calls do, the holder of the
\* lock writes what it computed from the block as it still is.
THEOREM WriterInvariant == Spec => []WriterInv
<1>1. WriterInv /\ [Next]_vars => WriterInv'
  <2> SUFFICES ASSUME WriterInv, [Next]_vars PROVE WriterInv'
    OBVIOUS
  <2>1. CASE UNCHANGED vars
    BY <2>1 DEF vars, WriterInv, ProcInv, TypeOK, BothViewsBootable
  <2>2. CASE Quiet
    BY <2>2 DEF Quiet, vars, WriterInv, ProcInv, TypeOK, BothViewsBootable
  <2>3. CASE WriteBack
    BY <2>3, WriteBackStep
  <2>4. ASSUME NEW p \in Procs,
               \/ \E op \in Mutations, slot \in Slots : Call(p, op, slot)
               \/ Step(p) \/ Kill(p)
        PROVE  WriterInv'
    BY <2>4, ProcessStep
  <2> QED
    BY <2>1, <2>2, <2>3, <2>4 DEF Next
<1> QED
  BY InitWriterInv, <1>1, PTL DEF Spec

\* However invocations interleave, some slot stays bootable in the page cache
\* and on the medium (the guard of MUT_MARK_BAD under the writer lock).
THEOREM NeverBothRetired == Spec => []BothViewsBootable
<1>1. WriterInv => BothViewsBootable
  BY DEF WriterInv
<1> QED
  BY WriterInvariant, <1>1, PTL

\* write_and_verify answers success only for metadata that is on the medium.
THEOREM AnswerIsDurable == Spec => []SuccessIsDurable
<1>1. WriterInv => SuccessIsDurable
  BY DEF WriterInv, ProcInv, SuccessIsDurable, At
<1> QED
  BY WriterInvariant, <1>1, PTL

\* The register of the abstract specification and the tool speak of the same
\* metadata operators.
LEMMA SameOperators ==
  /\ Register!Mutations = Mutations /\ Register!Slots = Slots
  /\ Register!ab_data = ab_data
  /\ \A d : Register!primary_slot(d) # Register!NoPrimary <=> primary_slot(d) # NoPrimary
  /\ \A op \in Mutations : \A d, slot :
       /\ Register!mutation_accepted(op, d, slot, current)
            <=> mutation_accepted(op, d, slot, current)
       /\ Register!mutated(op, d, slot) = mutated(op, d, slot)
<1>1. Register!Mutations = Mutations /\ Register!Slots = Slots
  BY DEF Register!Mutations, Mutations, Register!Slots, Slots
<1>2. Register!ab_data = ab_data
  BY DEF Register!ab_data, ab_data, Register!slot_data, slot_data, Register!Slots, Slots
<1>3. \A s : Register!is_bootable(s) <=> is_bootable(s)
  BY DEF Register!is_bootable, is_bootable
<1>4. \A d : Register!primary_slot(d) # Register!NoPrimary <=> primary_slot(d) # NoPrimary
  BY <1>3 DEF Register!primary_slot, primary_slot, Register!NoPrimary, NoPrimary
<1>5. \A s : Register!Other(s) = Other(s)
  BY DEF Register!Other, Other
<1>6. \A op \in Mutations : \A d, slot :
        Register!mutation_accepted(op, d, slot, current)
          <=> mutation_accepted(op, d, slot, current)
  BY <1>3, <1>5 DEF Register!mutation_accepted, mutation_accepted, Mutations,
       Register!MarkBadAllowed, MarkBadAllowed, Register!MarkGoodAllowed, MarkGoodAllowed
<1>7. \A s : /\ Register!Pending(s) = Pending(s) /\ Register!SteppedDown(s) = SteppedDown(s)
             /\ Register!Bad(s) = Bad(s) /\ Register!ConfirmedGood = ConfirmedGood
  BY DEF Register!Pending, Pending, Register!SteppedDown, SteppedDown,
         Register!Bad, Bad, Register!ConfirmedGood, ConfirmedGood
<1>8. ASSUME NEW op \in Mutations, NEW d, NEW slot
      PROVE  Register!mutated(op, d, slot) = mutated(op, d, slot)
  <2>1. Register!set_primary(d, slot) = set_primary(d, slot)
    BY <1>1, <1>7 DEF Register!set_primary, set_primary
  <2>2. Register!mark_bad(d, slot) = mark_bad(d, slot)
    BY <1>7 DEF Register!mark_bad, mark_bad
  <2>3. Register!mark_good(d, slot) = mark_good(d, slot)
    BY <1>7 DEF Register!mark_good, mark_good
  <2> QED
    BY <2>1, <2>2, <2>3 DEF Register!mutated, mutated, Mutations
<1> QED
  BY <1>1, <1>2, <1>4, <1>6, <1>8

\* The tool implements the register: every step leaves the block alone or
\* replaces it by one accepted mutation of its current value.
THEOREM ImplementsRegister == Spec => Atomic
<1>1. WriterInv => Register!Init
  BY SameOperators DEF WriterInv, TypeOK, BothViewsBootable, Register!Init, Register!Bootable
<1>2. WriterInv /\ [Next]_vars => [Register!Next]_(misc.cache)
  <2> SUFFICES ASSUME WriterInv, [Next]_vars, misc'.cache # misc.cache
               PROVE  Register!Next
    OBVIOUS
  <2>1. PICK p \in Procs : WriteMisc(p)
    BY DEF Next, vars, Quiet, WriteBack, Call, Step, Kill, Return, AcquireWriterLock,
           VerifyCurrentSlot, ReadAndMutate, SyncMisc, ReadBack, CallFails,
           WriterInv, TypeOK
  <2>2. misc'.cache = proc[p].d
    BY <2>1 DEF WriteMisc, WriterInv, TypeOK
  <2>3. /\ proc[p].op \in Mutations /\ proc[p].slot \in Slots
        /\ mutation_accepted(proc[p].op, misc.cache, proc[p].slot, current)
        /\ proc[p].d = mutated(proc[p].op, misc.cache, proc[p].slot)
    BY <2>1 DEF WriterInv, WriteMisc, At, ProcInv, TypeOK
  <2>4. Register!Mutate(proc[p].op, proc[p].slot)
    BY <2>2, <2>3, SameOperators DEF Register!Mutate
  <2> QED
    BY <2>3, <2>4, SameOperators DEF Register!Next
<1> QED
  BY InitWriterInv, WriterInvariant, <1>1, <1>2, PTL DEF Spec, Atomic, Register!Spec

=============================================================================
