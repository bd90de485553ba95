------------------------------ MODULE RkAbctl ------------------------------
(***************************************************************************)
(* Concurrent invocations of edgeguard-rk-abctl during one boot: the RAUC  *)
(* service through its backend script, the agent through rauc status mark, *)
(* operators.  mutate() of the tool is one action per system call that     *)
(* another process or a kill could come between: take the writer lock,     *)
(* verify the running slot, read, write, fsync, read back.                 *)
(*                                                                         *)
(* misc is the metadata block: what the page cache holds, what is on the   *)
(* medium.  A read or write of the 32 bytes is one step; a failing one     *)
(* leaves the block alone.                                                 *)
(***************************************************************************)
EXTENDS AbMeta

CONSTANTS Procs,     \* processes that may run the tool
          NoProc,    \* nobody
          MaxCalls,  \* bound: invocations in one behaviour
          current    \* the running slot

ASSUME RkAbctlAssumption ==
  /\ NoProc \notin Procs
  /\ MaxCalls \in Nat
  /\ current \in Slots

VARIABLES misc,   \* [cache, stable]
          lock,   \* holder of the writer lock
          proc,   \* per process: control point, mutation, slot, its copy d
          calls

vars == <<misc, lock, proc, calls>>

\* The control points of mutate(), the answers included: "ok" after a write,
\* "unchanged" for a slot that was bad already, "failed".
PCs == {"idle", "lock", "identity", "read", "write", "sync", "verify",
        "ok", "unchanged", "failed"}

TypeOK ==
  /\ misc \in [cache : ab_data, stable : ab_data]
  /\ lock \in Procs \cup {NoProc}
  /\ proc \in [Procs -> [pc : PCs, op : Mutations, slot : Slots, d : ab_data]]
  /\ calls \in 0..MaxCalls

\* Metadata that the tool and the bootloader leave behind.
FactorySlots ==
  { ConfirmedGood, SteppedDown(ConfirmedGood), Pending(ConfirmedGood),
    OneTryLess(SteppedDown(Pending(ConfirmedGood))), Bad(ConfirmedGood) }

\* No invocation: nothing of an earlier one is remembered.
Idle == [pc |-> "idle", op |-> "mark-bad", slot |-> current,
         d |-> [slots |-> [s \in Slots |-> ConfirmedGood], last_boot |-> current]]

Init ==
  /\ \E a, b \in FactorySlots :
       LET d == [slots |-> [s \in Slots |-> IF s = "a" THEN a ELSE b],
                 last_boot |-> current]
       IN /\ primary_slot(d) # NoPrimary
          /\ misc = [cache |-> d, stable |-> d]
  /\ proc = [p \in Procs |-> Idle]
  /\ lock = NoProc
  /\ calls = 0
-----------------------------------------------------------------------------
GoTo(p, label) == proc' = [proc EXCEPT ![p].pc = label]
At(p, label) == proc[p].pc = label

\* main: a mutating verb with a valid slot.
Call(p, op, slot) ==
  /\ At(p, "idle")
  /\ calls < MaxCalls /\ calls' = calls + 1
  /\ proc' = [proc EXCEPT ![p] = [@ EXCEPT !.pc = "lock", !.op = op, !.slot = slot]]
  /\ UNCHANGED <<misc, lock>>

\* Mutant: the blocking lock is not waited for.
AcquireWriterLock_NoWait(p) ==
  /\ At(p, "lock")
  /\ lock' = p
  /\ GoTo(p, "identity")
  /\ UNCHANGED <<misc, calls>>

\* acquire_writer_lock: fcntl F_SETLKW blocks until the holder is gone.
AcquireWriterLock(p) ==
  /\ At(p, "lock")
  /\ lock = NoProc
  /\ lock' = p
  /\ GoTo(p, "identity")
  /\ UNCHANGED <<misc, calls>>

\* current_slot_verified: all identities agree, or the tool fails closed.
VerifyCurrentSlot(p) ==
  /\ At(p, "identity")
  /\ GoTo(p, "read") \/ GoTo(p, "failed")
  /\ UNCHANGED <<misc, lock, calls>>

\* open_and_read and the switch of mutate(): refuse, answer that the slot is bad
\* already, or prepare the new metadata in memory.
ReadAndMutate(p) ==
  LET r == proc[p]
      d == misc.cache
  IN /\ At(p, "read")
     /\ IF ~mutation_accepted(r.op, d, r.slot, current)
        THEN GoTo(p, "failed")
        ELSE IF r.op = "mark-bad" /\ d.slots[r.slot] = Bad(d.slots[r.slot])
        THEN GoTo(p, "unchanged")
        ELSE proc' = [proc EXCEPT ![p] = [@ EXCEPT !.pc = "write",
                                                   !.d = mutated(r.op, d, r.slot)]]
     /\ UNCHANGED <<misc, lock, calls>>

\* write_and_verify, call by call.
WriteMisc(p) ==
  /\ At(p, "write")
  /\ misc' = [misc EXCEPT !.cache = proc[p].d]
  /\ GoTo(p, "sync")
  /\ UNCHANGED <<lock, calls>>

\* Mutant: the answer does not wait for the medium.
SyncMisc_Skipped(p) ==
  /\ At(p, "sync")
  /\ GoTo(p, "verify")
  /\ UNCHANGED <<misc, lock, calls>>

SyncMisc(p) ==
  /\ At(p, "sync")
  /\ misc' = [misc EXCEPT !.stable = misc.cache]
  /\ GoTo(p, "verify")
  /\ UNCHANGED <<lock, calls>>

ReadBack(p) ==
  /\ At(p, "verify")
  /\ GoTo(p, IF misc.cache = proc[p].d THEN "ok" ELSE "failed")
  /\ UNCHANGED <<misc, lock, calls>>

\* open, pread, pwrite, fsync or the read-back fails.
CallFails(p) ==
  /\ proc[p].pc \in {"read", "write", "sync", "verify"}
  /\ GoTo(p, "failed")
  /\ UNCHANGED <<misc, lock, calls>>

\* The process is gone, and the kernel has dropped its lock.
Exit(p) ==
  /\ proc' = [proc EXCEPT ![p] = Idle]
  /\ lock' = IF lock = p THEN NoProc ELSE lock

\* out: close the descriptors and answer.
Return(p) ==
  /\ proc[p].pc \in {"ok", "unchanged", "failed"}
  /\ Exit(p)
  /\ UNCHANGED <<misc, calls>>

\* The process is killed; a finished pwrite stays.
Kill(p) ==
  /\ ~At(p, "idle")
  /\ Exit(p)
  /\ UNCHANGED <<misc, calls>>

\* The kernel may write the page back at any moment.
WriteBack ==
  /\ misc.stable # misc.cache
  /\ misc' = [misc EXCEPT !.stable = misc.cache]
  /\ UNCHANGED <<lock, proc, calls>>

\* Every invocation the bound allows has returned.
Quiet ==
  /\ calls = MaxCalls
  /\ \A p \in Procs : At(p, "idle")
  /\ UNCHANGED vars

Step(p) ==
  \/ AcquireWriterLock(p) \/ VerifyCurrentSlot(p) \/ ReadAndMutate(p)
  \/ WriteMisc(p) \/ SyncMisc(p) \/ ReadBack(p) \/ CallFails(p) \/ Return(p)

Next ==
  \/ \E p \in Procs : \/ \E op \in Mutations, slot \in Slots : Call(p, op, slot)
                      \/ Step(p) \/ Kill(p)
  \/ WriteBack \/ Quiet

Spec == Init /\ [][Next]_vars
-----------------------------------------------------------------------------
(* Properties.                                                             *)

Register == INSTANCE AbRegister WITH meta <- misc.cache

\* Concurrent, killed and failing invocations never lose or mix mutations: the
\* block behaves as a register that one accepted mutation changes at a time,
\* each computed from the very value it replaces.
Atomic == Register!Spec

\* Two invocations that each saw a bootable peer never retire both slots: some
\* slot stays bootable, in the page cache and on the medium.
BothViewsBootable ==
  /\ primary_slot(misc.cache) # NoPrimary
  /\ primary_slot(misc.stable) # NoPrimary

\* An invocation that wrote and is about to answer success has its metadata on
\* the medium, and nobody has replaced it since.
SuccessIsDurable ==
  \A p \in Procs : At(p, "ok") =>
    misc.cache = proc[p].d /\ misc.stable = proc[p].d

\* Past the lock a process is its holder, and what it is about to write was
\* computed from the block as it still is.
ProcInv(p) ==
  LET r == proc[p] IN
  /\ r.pc \notin {"idle", "lock"} => lock = p
  /\ r.pc = "write" => /\ mutation_accepted(r.op, misc.cache, r.slot, current)
                       /\ r.d = mutated(r.op, misc.cache, r.slot)
  /\ r.pc = "sync" => misc.cache = r.d
  /\ r.pc \in {"verify", "ok"} => misc.cache = r.d /\ misc.stable = r.d

\* The inductive invariant of the writer path: a process past the lock is alone
\* there, and no other invocation can make its copy of the block stale.
WriterInv == TypeOK /\ BothViewsBootable /\ \A p \in Procs : ProcInv(p)

=============================================================================
