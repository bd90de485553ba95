--------------------------- MODULE OtaAgentProofs ---------------------------
(***************************************************************************)
(* The device for every number of releases, attempts and faults: type      *)
(* correctness and the at-most-once install guarantee from InstallInv,     *)
(* then the promises about the slots, the durable record, the reboots and  *)
(* the reports from DeviceInv and ReportInv.                               *)
(***************************************************************************)
EXTENDS OtaAgent, AbMetaProofs, TLAPS

\* What the agent's own part of InstallInv amounts to.
Core == AgentTypeOK /\ AttemptInv
-----------------------------------------------------------------------------
(* Records.                                                                *)

\* The reset record is a consistent record of no attempt.
LEMMA InitRecord ==
  /\ ota_persistent_state_init \in OtaPersistentStates
  /\ ota_persistent_state_validate(ota_persistent_state_init)
  /\ ota_persistent_state_init.state = "IDLE"
  /\ ota_persistent_state_init.attempt_id = 0
  /\ ota_persistent_state_init.target = 0
BY DEF ota_persistent_state_init, OtaPersistentStates, OtaStates, IdleStates,
       PrepareStates, InstalledStates, OtaErrorCodes, OtaRebootContexts,
       ota_persistent_state_validate, NoSlot, Slots

\* The missing file is not a record.
LEMMA NoFileIsNoRecord == NoFile \notin OtaPersistentStates
BY DEF NoFile, ota_persistent_state_init, OtaPersistentStates, OtaStates,
       IdleStates, PrepareStates, InstalledStates

\* Advancing the state of a record keeps its attempt.
LEMMA StateUpdate ==
  ASSUME NEW r \in OtaPersistentStates, NEW st \in OtaStates
  PROVE  LET u == [r EXCEPT !.state = st] IN
         /\ u \in OtaPersistentStates
         /\ u.state = st /\ u.attempt_id = r.attempt_id /\ u.target = r.target
BY DEF OtaPersistentStates

\* So does turning it into the record of an error.
LEMMA ErrorUpdate ==
  ASSUME NEW r \in OtaPersistentStates, NEW code \in OtaErrorCodes
  PROVE  LET u == ErrorRecord(r, code) IN
         /\ u \in OtaPersistentStates
         /\ u.state = "ERROR" /\ u.attempt_id = r.attempt_id
         /\ u.target = r.target
BY DEF OtaPersistentStates, ErrorRecord, OtaStates
-----------------------------------------------------------------------------
(* How the building blocks of the actions treat the invariant.             *)

\* Handing a record to ota_state_machine_transition keeps the invariant when
\* the record may be saved.
LEMMA TransitionKeeps ==
  ASSUME Core,
         NEW rec \in OtaPersistentStates, NEW after \in PCs,
         Transition(rec, after),
         UNCHANGED <<disk, installs>>,
         attempts' \in 0..MaxAttempts, attempts <= attempts',
         rec.attempt_id <= attempts', rec.target <= MaxRelease,
         rec.state \in PrepareStates \cup {"INSTALLING"} =>
           installs[rec.attempt_id] = 0,
         after = "started" => rec.state # "INSTALLING"
  PROVE  Core'
<1> USE DEF Core
<1>1. AgentTypeOK'
  BY DEF AgentTypeOK, Transition, PCs
<1>2. \A r : r \in OtaPersistentStates /\ RecordInv(r) => RecordInv(r)'
  BY OtaAgentAssumption DEF AttemptInv, AgentTypeOK, RecordInv, OtaPersistentStates, Transition
<1>3. RecordInv(m)' /\ RecordInv(disk.visible)' /\ RecordInv(disk.stable)'
  BY <1>2 DEF AttemptInv, AgentTypeOK, RecordInv, Transition
<1>4. PendingInv'
  BY DEF PendingInv, Transition
<1>5. IntentInv'
  BY DEF IntentInv, Transition
<1> QED
  BY <1>1, <1>3, <1>4, <1>5, OtaAgentAssumption
  DEF AttemptInv, InstallAtMostOnce, AgentTypeOK, Attempts

\* ota_state_machine_fail always hands over a record that may be saved.
LEMMA FailKeeps ==
  ASSUME Core,
         NEW code \in OtaErrorCodes, NEW after \in PCs,
         Fail(code, after),
         UNCHANGED <<disk, installs, attempts>>
  PROVE  Core'
<1> DEFINE rec == ErrorRecord(m, code)
<1>1. m \in OtaPersistentStates /\ m # NoFile
  BY NoFileIsNoRecord DEF Core, AgentTypeOK
<1>2. /\ rec \in OtaPersistentStates
      /\ rec.state = "ERROR" /\ rec.attempt_id = m.attempt_id
      /\ rec.target = m.target
  BY <1>1, ErrorUpdate
<1>3. rec.attempt_id <= attempts /\ rec.target <= MaxRelease
  BY <1>1, <1>2 DEF Core, AttemptInv, RecordInv
<1>4. Transition(rec, after)
  BY DEF Fail
<1>5. attempts' \in 0..MaxAttempts /\ attempts <= attempts'
  BY OtaAgentAssumption DEF Core, AgentTypeOK
<1> HIDE DEF rec
<1> QED
  BY <1>2, <1>3, <1>4, <1>5, TransitionKeeps DEF PrepareStates

\* Advancing within an attempt keeps the invariant as long as the step does not
\* enter the phases before the end of the installation.
LEMMA AdvanceKeeps ==
  ASSUME Core,
         NEW st \in OtaStates, Advance(st),
         UNCHANGED <<disk, installs, attempts>>,
         st \in PrepareStates => m.state \in PrepareStates,
         st # "INSTALLING"
  PROVE  Core'
<1> DEFINE rec == [m EXCEPT !.state = st]
<1>1. m \in OtaPersistentStates /\ m # NoFile
  BY NoFileIsNoRecord DEF Core, AgentTypeOK
<1>2. /\ rec \in OtaPersistentStates
      /\ rec.state = st /\ rec.attempt_id = m.attempt_id
      /\ rec.target = m.target
  BY <1>1, StateUpdate
<1>3. /\ rec.attempt_id <= attempts /\ rec.target <= MaxRelease
      /\ rec.state \in PrepareStates \cup {"INSTALLING"} =>
           installs[rec.attempt_id] = 0
  BY <1>1, <1>2 DEF Core, AttemptInv, RecordInv
<1>4. Transition(rec, "loop")
  BY DEF Advance
<1>5. attempts' \in 0..MaxAttempts /\ attempts <= attempts'
  BY OtaAgentAssumption DEF Core, AgentTypeOK
<1>6. "loop" \in PCs /\ "loop" # "started"
  BY DEF PCs
<1> HIDE DEF rec
<1> QED
  BY <1>2, <1>3, <1>4, <1>5, <1>6, TransitionKeeps

\* Moving between control points keeps the invariant unless it enters the
\* installation anew.
LEMMA GoToKeeps ==
  ASSUME Core,
         NEW label \in PCs, GoTo(label),
         UNCHANGED <<disk, installs, attempts>>,
         label # "commit",
         label \in {"started", "loop"} => m.state # "INSTALLING"
  PROVE  Core'
<1>1. AgentTypeOK'
  BY DEF Core, AgentTypeOK, GoTo
<1>2. RecordInv(m)' /\ RecordInv(disk.visible)' /\ RecordInv(disk.stable)'
  BY DEF Core, AttemptInv, RecordInv, GoTo
<1>3. PendingInv'
  BY DEF Core, AttemptInv, PendingInv, GoTo
<1>4. IntentInv'
  BY DEF IntentInv, GoTo
<1> QED
  BY <1>1, <1>2, <1>3, <1>4 DEF Core, AttemptInv, InstallAtMostOnce

\* A step that leaves the agent, its file and the history alone.
LEMMA SameKeeps ==
  ASSUME Core, UNCHANGED <<agentVars, disk, installs, attempts>>
  PROVE  Core'
BY DEF Core, AgentTypeOK, AttemptInv, RecordInv, PendingInv, IntentInv,
       InstallAtMostOnce, agentVars

\* The process may end at any moment, and the file may revert to what was
\* stable: every record that can come back satisfies the invariant.
LEMMA EndKeeps ==
  ASSUME Core, ProcessEnds,
         UNCHANGED <<installs, attempts>>,
         NEW v \in {disk.visible, disk.stable, m},
         NEW w \in {disk.visible, disk.stable, m},
         disk' = [visible |-> v, stable |-> w]
  PROVE  Core'
<1>1. disk.visible \in OtaPersistentStates \cup {NoFile} /\ disk.stable \in OtaPersistentStates \cup {NoFile}
  BY DEF Core, AgentTypeOK
<1>2. v \in OtaPersistentStates \cup {NoFile} /\ w \in OtaPersistentStates \cup {NoFile}
  BY <1>1 DEF Core, AgentTypeOK
<1>3. RecordInv(v) /\ RecordInv(w)
  BY DEF Core, AttemptInv
<1>4. disk'.visible = v /\ disk'.stable = w
  OBVIOUS
<1>5. AgentTypeOK'
  BY <1>2, InitRecord DEF Core, AgentTypeOK, ProcessEnds, PCs
<1>6. RecordInv(disk.visible)' /\ RecordInv(disk.stable)'
  BY <1>3, <1>4 DEF RecordInv
<1>7. RecordInv(m)' /\ PendingInv' /\ IntentInv'
  BY InitRecord, OtaAgentAssumption
  DEF Core, AgentTypeOK, ProcessEnds, RecordInv, PendingInv, IntentInv, PrepareStates
<1> QED
  BY <1>5, <1>6, <1>7 DEF Core, AttemptInv, InstallAtMostOnce
-----------------------------------------------------------------------------
(* The agent's steps.                                                      *)

\* ota_state_machine_transition: the saved record becomes the current one.
LEMMA CommitKeeps == InstallInv /\ Commit => Core'
<1> SUFFICES ASSUME InstallInv, Commit PROVE Core'
  OBVIOUS
<1>0. Core /\ UNCHANGED <<attempts, installs>>
  BY DEF InstallInv, TypeOK, Core, Commit, historyVars
<1>1. CASE GoTo("exit") /\ UNCHANGED disk
  BY <1>0, <1>1, GoToKeeps DEF PCs
<1>2. CASE /\ TransitionAccepted(m, next)
           /\ SaveSucceeds(next)
           /\ m' = next /\ pc' = cont
           /\ next' = ota_persistent_state_init /\ cont' = "down"
           /\ UNCHANGED blocked
  <2>1. AgentTypeOK'
    BY <1>0, <1>2, InitRecord DEF Core, AgentTypeOK, SaveSucceeds, PCs
  <2>3. RecordInv(m)' /\ RecordInv(disk.visible)' /\ RecordInv(disk.stable)'
    BY <1>0, <1>2 DEF Core, AttemptInv, PendingInv, RecordInv,
       TransitionAccepted, Commit, SaveSucceeds
  <2>4. PendingInv' /\ IntentInv'
    BY <1>0, <1>2, InitRecord, OtaAgentAssumption
    DEF Core, AgentTypeOK, AttemptInv, PendingInv, IntentInv, SaveSucceeds,
        PrepareStates, Commit
  <2> QED
    BY <1>0, <2>1, <2>3, <2>4 DEF Core, AttemptInv, InstallAtMostOnce
<1>3. CASE /\ TransitionAccepted(m, next)
           /\ SaveFails(disk, next)
           /\ blocked' = TRUE /\ pc' = "exit"
           /\ UNCHANGED <<m, next, cont>>
  <2>1. disk' = disk \/ disk' = [visible |-> next, stable |-> disk.stable]
    BY <1>0, <1>3 DEF SaveFails, Core, AgentTypeOK
  <2>2. AgentTypeOK'
    BY <1>0, <1>3, <2>1 DEF Core, AgentTypeOK, PCs
  <2>3. RecordInv(m)' /\ RecordInv(disk.visible)' /\ RecordInv(disk.stable)'
    BY <1>0, <1>3, <2>1 DEF Core, AttemptInv, PendingInv, RecordInv,
       TransitionAccepted, Commit
  <2>4. PendingInv' /\ IntentInv'
    BY <1>0, <1>3 DEF Core, AttemptInv, PendingInv, IntentInv
  <2> QED
    BY <1>0, <2>2, <2>3, <2>4 DEF Core, AttemptInv, InstallAtMostOnce
<1> QED
  BY <1>1, <1>2, <1>3 DEF Commit

\* What a start leaves on the disk: what was visible, synced, or the first record.
LEMMA OpenDisk ==
  ASSUME AgentTypeOK, Open
  PROVE  /\ disk' = [visible |-> disk'.visible, stable |-> disk'.stable]
         /\ \/ /\ disk.visible # NoFile
               /\ disk'.visible = disk.visible /\ disk'.stable = disk.visible
            \/ /\ disk.visible = NoFile /\ pc' = "recover" /\ m' = m
               /\ disk'.visible = ota_persistent_state_init
               /\ disk'.stable = ota_persistent_state_init
            \/ /\ disk.visible = NoFile /\ pc' = pc /\ m' = m
               /\ disk'.visible \in {disk.visible, ota_persistent_state_init}
               /\ disk'.stable = disk.visible
<1>1. disk = [visible |-> disk.visible, stable |-> disk.stable]
  BY DEF AgentTypeOK
<1>2. PICK d : d = ota_storage_prepare
  OBVIOUS
<1>3. d = [visible |-> disk.visible, stable |-> disk.visible]
  BY <1>1, <1>2 DEF ota_storage_prepare
<1>5. CASE /\ disk.visible = NoFile /\ pc' = "recover" /\ m' = m
           /\ SaveSucceeds(ota_persistent_state_init)
  BY <1>5 DEF SaveSucceeds
<1>6. CASE /\ disk.visible = NoFile /\ UNCHANGED agentVars
           /\ SaveFails(ota_storage_prepare, ota_persistent_state_init)
  <2>1. disk' \in {d, [d EXCEPT !.visible = ota_persistent_state_init]}
    BY <1>2, <1>6 DEF SaveFails
  <2> QED
    BY <1>3, <1>6, <2>1 DEF agentVars
<1>7. CASE disk.visible # NoFile /\ disk' = ota_storage_prepare
  <2>1. disk' = [visible |-> disk.visible, stable |-> disk.visible]
    BY <1>2, <1>3, <1>7
  <2>2. disk'.visible = disk.visible /\ disk'.stable = disk.visible
    BY <2>1
  <2> QED
    BY <1>7, <2>1, <2>2
<1> QED
  BY <1>5, <1>6, <1>7 DEF Open

\* Starting the process loads a record that satisfies the invariant already.
LEMMA OpenKeeps == InstallInv /\ Open => Core'
<1> SUFFICES ASSUME InstallInv, Open PROVE Core'
  OBVIOUS
<1>0. Core /\ UNCHANGED <<attempts, installs>>
  BY DEF InstallInv, TypeOK, Core, Open, historyVars
<1>1. disk'.visible \in {disk.visible, ota_persistent_state_init}
      /\ disk'.stable \in {disk.visible, ota_persistent_state_init}
      /\ disk' = [visible |-> disk'.visible, stable |-> disk'.stable]
  BY <1>0, OpenDisk DEF Core
<1>2. m' \in {m, disk.visible} /\ m' # NoFile /\ UNCHANGED <<next, cont, blocked>>
  BY <1>0, NoFileIsNoRecord DEF Open, Core, AgentTypeOK, agentVars
<1>3. pc' \in {"down", "recover"}
  BY DEF Open, agentVars
<1>4. AgentTypeOK'
  BY <1>0, <1>1, <1>2, <1>3, InitRecord DEF Core, AgentTypeOK, PCs
<1>5. RecordInv(ota_persistent_state_init)
  BY <1>0, InitRecord, OtaAgentAssumption DEF RecordInv, PrepareStates, Core, AgentTypeOK
<1>6. RecordInv(m)' /\ RecordInv(disk.visible)' /\ RecordInv(disk.stable)'
  BY <1>0, <1>1, <1>2, <1>5 DEF Core, AttemptInv, RecordInv
<1>7. PendingInv' /\ IntentInv'
  BY <1>0, <1>2, <1>3 DEF Core, AttemptInv, PendingInv, IntentInv
<1> QED
  BY <1>0, <1>4, <1>6, <1>7 DEF Core, AttemptInv, InstallAtMostOnce

\* Recovery resumes, fails or goes on, but never into the installation.
LEMMA RecoverKeeps == InstallInv /\ Recover => Core'
<1> SUFFICES ASSUME InstallInv, Recover PROVE Core'
  OBVIOUS
<1>0. Core /\ UNCHANGED <<disk, attempts, installs>>
  BY DEF InstallInv, TypeOK, Core, Recover, historyVars
<1>1. CASE RecoverReplaySafe
  BY <1>0, <1>1, GoToKeeps
  DEF RecoverReplaySafe, ReplaySafeStates, IdleStates, PrepareStates, PCs
<1>2. CASE RecoverInterrupted
  <2>1. InterruptedCause(m.state) \in OtaErrorCodes
    BY DEF InterruptedCause, OtaErrorCodes
  <2> QED
    BY <1>0, <1>2, <2>1, FailKeeps DEF RecoverInterrupted, PCs
<1>3. CASE RecoverSameBoot
  BY <1>0, <1>3, GoToKeeps, FailKeeps DEF RecoverSameBoot, PCs, OtaErrorCodes
<1>4. CASE RecoverNewBoot
  <2> DEFINE rec == [m EXCEPT !.state = "BOOT_NEW_SLOT"]
  <2>1. m \in OtaPersistentStates /\ m # NoFile
    BY <1>0, NoFileIsNoRecord DEF Core, AgentTypeOK
  <2>2. "BOOT_NEW_SLOT" \in OtaStates
    BY DEF OtaStates, InstalledStates
  <2>3. /\ rec \in OtaPersistentStates /\ rec.state = "BOOT_NEW_SLOT"
        /\ rec.attempt_id = m.attempt_id /\ rec.target = m.target
    BY <2>1, <2>2, StateUpdate
  <2>4. Transition(rec, "recover")
    BY <1>4 DEF RecoverNewBoot
  <2>5. rec.attempt_id <= attempts' /\ rec.target <= MaxRelease
    BY <1>0, <2>1, <2>3 DEF Core, AttemptInv, RecordInv
  <2>6. attempts' \in 0..MaxAttempts /\ attempts <= attempts'
    BY <1>0, OtaAgentAssumption DEF Core, AgentTypeOK
  <2> HIDE DEF rec
  <2> QED
    BY <1>0, <2>3, <2>4, <2>5, <2>6, TransitionKeeps DEF PCs, PrepareStates
<1>5. CASE RecoverNewSlot
  <2>1. CASE Fail("REBOOT_CONTEXT_INVALID", "started")
    BY <1>0, <2>1, FailKeeps DEF PCs, OtaErrorCodes
  <2>2. ASSUME NEW rec \in { [m EXCEPT !.state = "HEALTH_CHECK"],
                             [m EXCEPT !.state = "ROLLBACK",
                                       !.last_error = "HEALTH_FAILED"] },
               Transition(rec, "started")
        PROVE  Core'
    <3>1. m \in OtaPersistentStates /\ m # NoFile
      BY <1>0, NoFileIsNoRecord DEF Core, AgentTypeOK
    <3>2. /\ rec \in OtaPersistentStates
          /\ rec.state \in {"HEALTH_CHECK", "ROLLBACK"}
          /\ rec.attempt_id = m.attempt_id /\ rec.target = m.target
      BY <3>1 DEF OtaPersistentStates, OtaStates, InstalledStates, OtaErrorCodes
    <3>3. rec.attempt_id <= attempts' /\ rec.target <= MaxRelease
      BY <1>0, <3>1, <3>2 DEF Core, AttemptInv, RecordInv
    <3>4. attempts' \in 0..MaxAttempts /\ attempts <= attempts'
      BY <1>0, OtaAgentAssumption DEF Core, AgentTypeOK
    <3> QED
      BY <1>0, <2>2, <3>2, <3>3, <3>4, TransitionKeeps DEF PCs, PrepareStates
  <2> QED
    BY <1>5, <2>1, <2>2 DEF RecoverNewSlot
<1> QED
  BY <1>1, <1>2, <1>3, <1>4, <1>5 DEF Recover

\* A release was found: the attempt id is fresh, so nothing was installed for it.
LEMMA CheckUpdateFoundKeeps == InstallInv /\ CheckUpdateFound => Core'
<1> SUFFICES ASSUME InstallInv, CheckUpdateFound PROVE Core'
  OBVIOUS
<1>0. Core /\ UNCHANGED <<disk, installs>>
  BY DEF InstallInv, TypeOK, Core, CheckUpdateFound, OutsideUnchanged, historyVars
<1>1. PICK remote \in Releases :
        Transition([m EXCEPT !.state = "PRECHECK",
                             !.attempt_id = attempts + 1,
                             !.target = remote], "loop")
  BY DEF CheckUpdateFound
<1> DEFINE rec == [m EXCEPT !.state = "PRECHECK", !.attempt_id = attempts + 1,
                            !.target = remote]
<1>2. /\ attempts \in 0..MaxAttempts /\ attempts' = attempts + 1
      /\ attempts' \in 0..MaxAttempts /\ attempts <= attempts'
      /\ attempts + 1 \in Attempts
  BY <1>0, OtaAgentAssumption DEF Core, AgentTypeOK, CheckUpdateFound, Attempts
<1>3. remote \in Nat /\ remote <= MaxRelease
  BY OtaAgentAssumption DEF Releases
<1>4. /\ rec \in OtaPersistentStates /\ rec.state = "PRECHECK"
      /\ rec.attempt_id = attempts + 1 /\ rec.target = remote
  <2>1. m \in OtaPersistentStates
    BY <1>0 DEF Core, AgentTypeOK
  <2>2. attempts + 1 \in Nat
    BY <1>2
  <2> QED
    BY <1>3, <2>1, <2>2 DEF OtaPersistentStates, OtaStates, PrepareStates
<1>5. installs[attempts + 1] = 0
  BY <1>0, <1>2 DEF Core, AttemptInv
<1>6. Transition(rec, "loop")
  BY <1>1
<1> HIDE DEF rec
<1> QED
  BY <1>0, <1>2, <1>3, <1>4, <1>5, <1>6, TransitionKeeps DEF PCs

\* RAUC_VERIFY hands on the install intent of an attempt that never installed.
LEMMA RaucVerifyKeeps == InstallInv /\ RaucVerify => Core'
<1> SUFFICES ASSUME InstallInv, RaucVerify PROVE Core'
  OBVIOUS
<1>0. Core /\ UNCHANGED <<disk, installs, attempts>>
  BY DEF InstallInv, TypeOK, Core, RaucVerify, OutsideUnchanged, historyVars
<1>1. CASE Fail("PHASE_FAILED", "loop") \/ Fail("REBOOT_CONTEXT_INVALID", "loop")
  BY <1>0, <1>1, FailKeeps DEF PCs, OtaErrorCodes
<1>2. ASSUME NEW q \in Slots,
             Transition([m EXCEPT !.state = "INSTALLING", !.previous_slot = q,
                                  !.expected_candidate_slot = Other(q),
                                  !.boot_id_before = boot_id,
                                  !.reboot_context = "install"], "loop")
      PROVE  Core'
  <2> DEFINE rec == [m EXCEPT !.state = "INSTALLING", !.previous_slot = q,
                              !.expected_candidate_slot = Other(q),
                              !.boot_id_before = boot_id,
                              !.reboot_context = "install"]
  <2>1. m \in OtaPersistentStates /\ m # NoFile
    BY <1>0, NoFileIsNoRecord DEF Core, AgentTypeOK
  <2>2. boot_id \in Nat /\ Other(q) \in Slots
    BY DEF InstallInv, TypeOK, DeviceTypeOK, Other, Slots
  <2>3. /\ rec \in OtaPersistentStates
        /\ rec.attempt_id = m.attempt_id /\ rec.target = m.target
    BY <2>1, <2>2
    DEF OtaPersistentStates, OtaStates, InstalledStates, OtaRebootContexts
  <2>4. /\ rec.attempt_id <= attempts' /\ rec.target <= MaxRelease
        /\ installs[rec.attempt_id] = 0
    BY <1>0, <2>1, <2>3
    DEF Core, AttemptInv, RecordInv, RaucVerify, InState, PrepareStates
  <2>5. attempts' \in 0..MaxAttempts /\ attempts <= attempts'
    BY <1>0, OtaAgentAssumption DEF Core, AgentTypeOK
  <2>6. Transition(rec, "loop")
    BY <1>2
  <2> HIDE DEF rec
  <2> QED
    BY <1>0, <2>3, <2>4, <2>5, <2>6, TransitionKeeps DEF PCs
<1> QED
  BY <1>1, <1>2 DEF RaucVerify, CurrentSlot

\* The install call: the intent is durable in both views of the disk, so no
\* record from before the call remains anywhere.
LEMMA InstallCallKeeps == InstallInv /\ InstallCall => Core'
<1> SUFFICES ASSUME InstallInv, InstallCall PROVE Core'
  OBVIOUS
<1>0. Core /\ UNCHANGED <<disk, attempts, m, blocked, next, cont>>
      /\ pc' = "installing"
  BY DEF InstallInv, TypeOK, Core, InstallCall, GoTo
<1>1. /\ m.state = "INSTALLING" /\ disk.visible = m /\ disk.stable = m
      /\ installs[m.attempt_id] = 0
  BY <1>0 DEF Core, AttemptInv, IntentInv, InstallCall, InState
<1>2. m.attempt_id \in Attempts
  BY <1>0, <1>1, NoFileIsNoRecord, OtaAgentAssumption
  DEF Core, AgentTypeOK, AttemptInv, RecordInv, ota_persistent_state_validate,
      InstalledStates, OtaPersistentStates, Attempts
<1>3. installs' = [installs EXCEPT ![m.attempt_id] = 1]
  BY <1>0, <1>1, <1>2 DEF InstallCall, Core, AgentTypeOK
<1>4. AgentTypeOK'
  BY <1>0, <1>3 DEF Core, AgentTypeOK, PCs
<1>5. RecordInv(m)' /\ RecordInv(disk.visible)' /\ RecordInv(disk.stable)'
  BY <1>0, <1>1 DEF Core, AttemptInv, RecordInv, PrepareStates
<1>6. PendingInv' /\ IntentInv'
  BY <1>0 DEF Core, AttemptInv, PendingInv, IntentInv
<1>7. /\ \A a \in Attempts : a > attempts' => installs'[a] = 0
      /\ InstallAtMostOnce'
  <2>1. m.attempt_id <= attempts
    BY <1>0, NoFileIsNoRecord DEF Core, AgentTypeOK, AttemptInv, RecordInv
  <2> QED
    BY <1>0, <1>2, <1>3, <2>1, OtaAgentAssumption
    DEF Core, AgentTypeOK, AttemptInv, InstallAtMostOnce, Attempts
<1> QED
  BY <1>4, <1>5, <1>6, <1>7 DEF Core, AttemptInv

\* A reboot request saves the current record again before it ends the process.
LEMMA RebootRequestKeeps == InstallInv /\ RebootRequest => Core'
<1> SUFFICES ASSUME InstallInv, RebootRequest PROVE Core'
  OBVIOUS
<1>0. Core /\ UNCHANGED <<attempts, installs>> /\ pc = "reboot"
  BY DEF InstallInv, TypeOK, Core, RebootRequest, historyVars
<1>1. CASE GoTo("exit") /\ UNCHANGED disk
  BY <1>0, <1>1, GoToKeeps DEF PCs
<1>2. CASE SaveSucceeds(m) /\ ProcessEnds
  BY <1>0, <1>2, EndKeeps DEF SaveSucceeds
<1>3. ASSUME disk' \in {disk, [disk EXCEPT !.visible = m],
                        [visible |-> m, stable |-> m]}
      PROVE  /\ disk' \in [visible : OtaPersistentStates \cup {NoFile},
                            stable : OtaPersistentStates \cup {NoFile}]
             /\ RecordInv(disk.visible)' /\ RecordInv(disk.stable)'
  BY <1>0, <1>3 DEF Core, AgentTypeOK, AttemptInv, RecordInv
<1>4. CASE /\ disk' \in {disk, [disk EXCEPT !.visible = m],
                          [visible |-> m, stable |-> m]}
           /\ pc' = "exit" /\ blocked' \in BOOLEAN /\ UNCHANGED <<m, next, cont>>
  BY <1>0, <1>3, <1>4
  DEF Core, AgentTypeOK, AttemptInv, RecordInv, PendingInv, IntentInv,
      InstallAtMostOnce, PCs
<1>5. CASE Fail("REBOOT_FAILED", "exit") /\ disk' = [visible |-> m, stable |-> m]
  <2> DEFINE rec == ErrorRecord(m, "REBOOT_FAILED")
  <2>1. /\ rec \in OtaPersistentStates
        /\ rec.state = "ERROR" /\ rec.attempt_id = m.attempt_id
        /\ rec.target = m.target
    BY <1>0, ErrorUpdate DEF Core, AgentTypeOK, OtaErrorCodes
  <2>2. Transition(rec, "exit")
    BY <1>5 DEF Fail
  <2>3. m \in OtaPersistentStates /\ m # NoFile
    BY <1>0, NoFileIsNoRecord DEF Core, AgentTypeOK
  <2>4. PendingInv' /\ IntentInv'
    <3> HIDE DEF rec
    <3> QED
      BY <1>0, <2>1, <2>2, <2>3
      DEF Core, AttemptInv, RecordInv, PendingInv, IntentInv, Transition,
          PrepareStates
  <2>5. AgentTypeOK' /\ RecordInv(m)'
    <3> HIDE DEF rec
    <3> QED
      BY <1>0, <1>3, <1>5, <2>1, <2>2
      DEF Core, AgentTypeOK, AttemptInv, RecordInv, Transition, PCs
  <2> QED
    BY <1>0, <1>3, <1>5, <2>4, <2>5 DEF Core, AttemptInv, InstallAtMostOnce
<1> QED
  BY <1>1, <1>2, <1>4, <1>5, <1>0
  DEF RebootRequest, SaveFails, GoTo, Core, AgentTypeOK

\* Returning to IDLE clears the record.
LEMMA ResetKeeps ==
  ASSUME Core, Transition(ota_persistent_state_init, "loop"),
         UNCHANGED <<disk, installs, attempts>>
  PROVE  Core'
<1>1. attempts' \in 0..MaxAttempts /\ attempts <= attempts' /\ 0 <= attempts'
      /\ 0 <= MaxRelease
  BY OtaAgentAssumption DEF Core, AgentTypeOK
<1> QED
  BY <1>1, InitRecord, TransitionKeeps DEF PrepareStates, PCs

\* The phases from IDLE to RAUC_VERIFY, apart from the two above.
LEMMA PreparationKeeps ==
  ASSUME InstallInv,
         \/ Idle \/ CheckNetwork \/ CheckUpdateNothing \/ CheckUpdateFails
         \/ PrecheckPhase \/ DownloadPhase
  PROVE  Core'
<1>0. Core
  BY DEF InstallInv, TypeOK, Core
<1>a. {"CHECK_NETWORK", "CHECK_UPDATE", "DOWNLOADING", "VERIFY_DOWNLOAD",
       "RAUC_VERIFY"} \subseteq OtaStates
      /\ {"loop", "commit"} \subseteq PCs
      /\ {"PHASE_FAILED", "DOWNGRADE_REJECTED", "ILLEGAL_TRANSITION"}
           \subseteq OtaErrorCodes
  BY DEF OtaStates, IdleStates, PrepareStates, PCs, OtaErrorCodes
<1>1. UNCHANGED <<disk, installs, attempts>>
  BY DEF Idle, CheckNetwork, CheckUpdateNothing, CheckUpdateFails,
         PrecheckPhase, DownloadPhase, OutsideUnchanged, historyVars
<1>2. CASE Idle \/ CheckNetwork
  BY <1>0, <1>a, <1>1, <1>2, AdvanceKeeps
  DEF Idle, CheckNetwork, PrepareStates
<1>3. CASE CheckUpdateNothing
  BY <1>0, <1>1, <1>3, ResetKeeps DEF CheckUpdateNothing
<1>4. CASE CheckUpdateFails
  BY <1>0, <1>a, <1>1, <1>4, FailKeeps DEF CheckUpdateFails
<1>5. CASE PrecheckPhase
  <2>1. CASE Advance("DOWNLOADING")
    BY <1>0, <1>a, <1>1, <1>5, <2>1, AdvanceKeeps
    DEF PrecheckPhase, InState, PrepareStates
  <2>2. ASSUME NEW code \in {"PHASE_FAILED", "DOWNGRADE_REJECTED",
                             "ILLEGAL_TRANSITION"},
               Fail(code, "loop")
        PROVE  Core'
    BY <1>0, <1>a, <1>1, <2>2, FailKeeps
  <2> QED
    BY <1>5, <2>1, <2>2 DEF PrecheckPhase, Precheck
<1>6. CASE DownloadPhase
  <2>1. m.state \in PrepareStates
    BY <1>6 DEF DownloadPhase, InState, PrepareStates
  <2>2. CASE Advance("VERIFY_DOWNLOAD")
    BY <1>0, <1>a, <1>1, <2>1, <2>2, AdvanceKeeps
  <2>3. CASE Advance("RAUC_VERIFY")
    BY <1>0, <1>a, <1>1, <2>1, <2>3, AdvanceKeeps
  <2>4. CASE Fail("PHASE_FAILED", "loop")
    BY <1>0, <1>a, <1>1, <2>4, FailKeeps
  <2> QED
    BY <1>6, <2>2, <2>3, <2>4 DEF DownloadPhase
<1> QED
  BY <1>2, <1>3, <1>4, <1>5, <1>6

\* The phases after the install call.
LEMMA CompletionKeeps ==
  ASSUME InstallInv,
         \/ InstallSucceeds \/ InstallFails
         \/ HealthPasses \/ HealthRejects \/ MarkGood
  PROVE  Core'
<1>0. Core
  BY DEF InstallInv, TypeOK, Core
<1>a. {"REBOOT_PENDING", "MARK_GOOD", "REPORT_SUCCESS", "ROLLBACK"} \subseteq OtaStates
      /\ {"loop", "reboot"} \subseteq PCs
      /\ {"RAUC_INSTALL_FAILED", "RAUC_IDENTITY_MISMATCH", "IDENTITY_AMBIGUOUS",
          "RAUC_MARK_BAD_FAILED", "RAUC_MARK_GOOD_FAILED"} \subseteq OtaErrorCodes
  BY DEF OtaStates, InstalledStates, PCs, OtaErrorCodes
<1>1. UNCHANGED <<disk, installs, attempts>>
  BY DEF InstallSucceeds, InstallFails, HealthPasses, HealthRejects, MarkGood,
         OutsideUnchanged, historyVars
<1>2. ASSUME NEW st \in {"REBOOT_PENDING", "MARK_GOOD", "REPORT_SUCCESS"},
             Advance(st)
      PROVE  Core'
  BY <1>0, <1>a, <1>1, <1>2, AdvanceKeeps DEF PrepareStates
<1>3. ASSUME NEW code \in {"RAUC_INSTALL_FAILED", "RAUC_IDENTITY_MISMATCH",
                           "IDENTITY_AMBIGUOUS", "RAUC_MARK_BAD_FAILED",
                           "RAUC_MARK_GOOD_FAILED"},
             Fail(code, "loop")
      PROVE  Core'
  BY <1>0, <1>a, <1>1, <1>3, FailKeeps
<1>4. CASE Transition([m EXCEPT !.state = "ROLLBACK",
                               !.last_error = "HEALTH_FAILED",
                               !.reboot_context = "health_failure"], "reboot")
  <2> DEFINE rec == [m EXCEPT !.state = "ROLLBACK",
                              !.last_error = "HEALTH_FAILED",
                              !.reboot_context = "health_failure"]
  <2>1. m \in OtaPersistentStates /\ m # NoFile
    BY <1>0, NoFileIsNoRecord DEF Core, AgentTypeOK
  <2>2. /\ rec \in OtaPersistentStates /\ rec.state = "ROLLBACK"
        /\ rec.attempt_id = m.attempt_id /\ rec.target = m.target
    BY <2>1 DEF OtaPersistentStates, OtaStates, InstalledStates, OtaErrorCodes,
                OtaRebootContexts
  <2>3. rec.attempt_id <= attempts' /\ rec.target <= MaxRelease
    BY <1>0, <1>1, <2>1, <2>2 DEF Core, AttemptInv, RecordInv
  <2>4. attempts' \in 0..MaxAttempts /\ attempts <= attempts'
    BY <1>0, <1>1, OtaAgentAssumption DEF Core, AgentTypeOK
  <2>5. Transition(rec, "reboot")
    BY <1>4
  <2> HIDE DEF rec
  <2> QED
    BY <1>0, <1>a, <1>1, <2>2, <2>3, <2>4, <2>5, TransitionKeeps DEF PrepareStates
<1> QED
  BY <1>2, <1>3, <1>4
  DEF InstallSucceeds, InstallFails, HealthPasses, HealthRejects, MarkGood,
      WrongRelease, MarkIdentityFails

\* Reports, the way to a reboot, and every step of the environment.
LEMMA OtherStepsKeep ==
  ASSUME InstallInv,
         \/ Exit \/ Started \/ ReportSuccess \/ ReportTerminal \/ RebootPending
         \/ StartFails \/ RaucStep \/ RaucFails \/ Stop \/ Kill \/ PowerLoss
         \/ OrderlyReboot \/ BootAttempt
  PROVE  Core'
<1>0. Core
  BY DEF InstallInv, TypeOK, Core
<1>a. /\ UNCHANGED <<installs, attempts>>
      /\ {"loop", "exit", "reboot"} \subseteq PCs
  BY DEF Exit, Started, ReportSuccess, ReportTerminal, RebootPending, StartFails,
         RaucStep, RaucMarkTarget, RaucWrite, RaucActivate, RaucFails,
         RaucUnchanged, Stop, Kill, PowerLoss, OrderlyReboot, BootAttempt,
         DeviceGoesDown, OutsideUnchanged, historyVars, PCs
<1>b. disk = [visible |-> disk.visible, stable |-> disk.stable]
  BY <1>0 DEF Core, AgentTypeOK
<1>1. CASE Exit \/ Stop \/ Kill
  <2>1. ProcessEnds /\ disk' = [visible |-> disk.visible, stable |-> disk.stable]
    BY <1>b, <1>1 DEF Exit, Stop, Kill, OutsideUnchanged
  <2> QED
    BY <1>0, <1>a, <2>1, EndKeeps
<1>2. CASE PowerLoss
  <2>1. ProcessEnds /\ \E s \in {disk.visible, disk.stable} :
                         disk' = [visible |-> s, stable |-> s]
    BY <1>2 DEF PowerLoss, DeviceGoesDown
  <2> QED
    BY <1>0, <1>a, <2>1, EndKeeps
<1>3. CASE OrderlyReboot
  <2>1. ProcessEnds /\ disk' = [visible |-> disk.visible, stable |-> disk.visible]
    BY <1>b, <1>3 DEF OrderlyReboot, DeviceGoesDown
  <2> QED
    BY <1>0, <1>a, <2>1, EndKeeps
<1>7. CASE StartFails
  <2>1. disk'.visible = disk.visible /\ disk'.stable \in {disk.visible, disk.stable}
        /\ disk' = [visible |-> disk'.visible, stable |-> disk'.stable]
    BY <1>b, <1>7 DEF StartFails, ota_storage_prepare
  <2>2. UNCHANGED agentVars /\ pc = "down"
    BY <1>7 DEF StartFails
  <2>3. AgentTypeOK'
    BY <1>0, <1>a, <2>1, <2>2 DEF Core, AgentTypeOK, agentVars
  <2>4. RecordInv(m)' /\ RecordInv(disk.visible)' /\ RecordInv(disk.stable)'
    BY <1>0, <1>a, <2>1, <2>2 DEF Core, AttemptInv, RecordInv, agentVars
  <2>5. PendingInv' /\ IntentInv'
    BY <1>0, <1>a, <2>2 DEF Core, AttemptInv, PendingInv, IntentInv, agentVars
  <2> QED
    BY <1>0, <1>a, <2>3, <2>4, <2>5 DEF Core, AttemptInv, InstallAtMostOnce
<1>4. CASE RaucStep \/ RaucFails \/ BootAttempt
  <2>1. UNCHANGED <<agentVars, disk>>
    BY <1>4 DEF RaucStep, RaucMarkTarget, RaucWrite, RaucActivate, RaucFails,
                RaucUnchanged, BootAttempt
  <2> QED
    BY <1>0, <1>a, <2>1, SameKeeps
<1>5. CASE RebootPending \/ Started
  <2>1. UNCHANGED disk /\ m.state # "INSTALLING"
    BY <1>0, <1>5 DEF RebootPending, Started, OutsideUnchanged, InState, Core,
                      AttemptInv, IntentInv
  <2>2. GoTo("reboot") \/ GoTo("loop") \/ GoTo("exit")
    BY <1>5 DEF RebootPending, Started
  <2> QED
    BY <1>0, <1>a, <2>1, <2>2, GoToKeeps
<1>6. CASE ReportSuccess \/ ReportTerminal
  <2>1. UNCHANGED disk
    BY <1>6 DEF ReportSuccess, ReportTerminal, OutsideUnchanged
  <2>2. \/ Transition(ota_persistent_state_init, "loop")
        \/ UNCHANGED agentVars \/ GoTo("exit")
    BY <1>6 DEF ReportSuccess, ReportTerminal
  <2> QED
    BY <1>0, <1>a, <2>1, <2>2, ResetKeeps, SameKeeps, GoToKeeps
<1> QED
  BY <1>1, <1>2, <1>3, <1>4, <1>5, <1>6, <1>7

\* Every step keeps the agent's part of the invariant.
LEMMA CoreInductive ==
  ASSUME InstallInv, [Next]_vars
  PROVE  Core'
<1>1. CASE UNCHANGED vars
  BY <1>1, SameKeeps DEF InstallInv, TypeOK, Core, vars, agentVars
<1>2. CASE Next
  BY <1>2, OpenKeeps, RecoverKeeps, CommitKeeps, PreparationKeeps,
     CheckUpdateFoundKeeps, RaucVerifyKeeps, InstallCallKeeps, CompletionKeeps,
     RebootRequestKeeps, OtherStepsKeep
  DEF Next, AgentStep, Environment, StartAtBoot, OperatorStart
<1> QED
  BY <1>1, <1>2
-----------------------------------------------------------------------------
(* The device: metadata, images, RAUC job, histories.                      *)

\* Fault counting stays within its bound.
LEMMA FaultTyped ==
  ASSUME faults \in 0..MaxFaults,
         UNCHANGED faults \/ \E kind \in AllFaults : Fault(kind)
  PROVE  faults' \in 0..MaxFaults
BY OtaAgentAssumption DEF Fault

\* The record of a running attempt names an attempt and a release in range.
LEMMA AttemptInRange ==
  ASSUME InstallInv, m.attempt_id # 0
  PROVE  /\ m.attempt_id \in Attempts
         /\ m.target \in 0..MaxRelease
<1>1. m \in OtaPersistentStates /\ m # NoFile
  BY NoFileIsNoRecord DEF InstallInv, TypeOK, AgentTypeOK
<1>2. m.attempt_id <= attempts /\ m.target <= MaxRelease
  BY <1>1 DEF InstallInv, AttemptInv, RecordInv
<1> QED
  BY <1>1, <1>2, OtaAgentAssumption
  DEF InstallInv, TypeOK, AgentTypeOK, OtaPersistentStates, Attempts

\* A record past the preparation has an attempt.
LEMMA InstalledHasAttempt ==
  ASSUME InstallInv, m.state \in InstalledStates
  PROVE  m.attempt_id # 0
<1>1. m \in OtaPersistentStates /\ m # NoFile
  BY NoFileIsNoRecord DEF InstallInv, TypeOK, AgentTypeOK
<1> QED
  BY <1>1 DEF InstallInv, AttemptInv, RecordInv, ota_persistent_state_validate

\* Every step keeps the device's types.
LEMMA DeviceInductive ==
  ASSUME InstallInv, [Next]_vars
  PROVE  DeviceTypeOK'
<1> DEFINE otherVars == <<power, booted, boot_id, autostart, rebooting, meta,
                          image, rauc, healthy, reported>>
<1>0. DeviceTypeOK
  BY DEF InstallInv, TypeOK
<1>f. faults' \in 0..MaxFaults
  <2>1. UNCHANGED faults \/ \E kind \in AllFaults : Fault(kind)
    BY DEF Next, AgentStep, Environment, StartAtBoot, OperatorStart, Open,
           SaveSucceeds, SaveFails, Recover, RecoverReplaySafe,
           RecoverInterrupted, RecoverSameBoot, RecoverNewBoot, RecoverNewSlot,
           CurrentSlot, Started, Commit, Exit, Idle, CheckNetwork,
           CheckUpdateNothing, CheckUpdateFound, CheckUpdateFails, PrecheckPhase,
           DownloadPhase, RaucVerify, InstallCall, InstallSucceeds, InstallFails,
           HealthPasses, HealthRejects, MarkIdentityFails, MarkGood,
           ReportSuccess, ReportTerminal, RebootPending, RebootRequest,
           StartFails, RaucStep, RaucMarkTarget, RaucWrite, RaucActivate,
           RaucFails, RaucUnchanged, Stop, Kill, PowerLoss, OrderlyReboot,
           BootAttempt, AllFaults, vars
  <2> QED
    BY <1>0, <2>1, FaultTyped DEF DeviceTypeOK
<1>1. CASE UNCHANGED otherVars
  BY <1>0, <1>f, <1>1 DEF DeviceTypeOK
<1>2. CASE Open \/ StartFails \/ DeviceGoesDown \/ RebootRequest
  <2>1. UNCHANGED <<booted, boot_id, meta, image, healthy, reported>>
    BY <1>2 DEF Open, StartFails, DeviceGoesDown, RebootRequest, bootVars, historyVars
  <2>2. /\ power' \in {"up", "booting"} /\ autostart' \in BOOLEAN
        /\ rebooting' \in BOOLEAN
    BY <1>0, <1>2 DEF Open, StartFails, DeviceGoesDown, RebootRequest, bootVars,
                      DeviceTypeOK
  <2>3. rauc' \in {rauc, IdleJob}
    BY <1>2 DEF Open, StartFails, DeviceGoesDown, RebootRequest
  <2>4. IdleJob \in [phase : {"idle", "started", "marked", "writing", "written",
                              "done", "failed"},
                     target : Slots \cup {NoSlot}, image : Images]
    BY OtaAgentAssumption DEF IdleJob, PartialImage, Images
  <2> QED
    BY <1>0, <1>f, <2>1, <2>2, <2>3, <2>4 DEF DeviceTypeOK
<1>3. CASE InstallCall
  <2>1. m.attempt_id \in Attempts /\ m.target \in 0..MaxRelease
    BY <1>3, AttemptInRange, InstalledHasAttempt DEF InstallCall, InState, InstalledStates
  <2>2. [release |-> m.target, attempt |-> m.attempt_id] \in Images
    BY <2>1, OtaAgentAssumption DEF Images, Attempts
  <2>3. Other(booted) \in Slots
    BY DEF Other, Slots
  <2>4. rauc' \in [phase : {"idle", "started", "marked", "writing", "written",
                            "done", "failed"},
                   target : Slots \cup {NoSlot}, image : Images]
    BY <1>0, <1>3, <2>2, <2>3 DEF InstallCall, DeviceTypeOK
  <2>5. UNCHANGED <<power, booted, boot_id, autostart, rebooting, meta, image,
                    healthy, reported>>
    BY <1>3 DEF InstallCall, bootVars
  <2> QED
    BY <1>0, <1>f, <2>4, <2>5 DEF DeviceTypeOK
<1>4. CASE InstallSucceeds \/ InstallFails
  <2>1. UNCHANGED <<power, booted, boot_id, autostart, rebooting, meta, image,
                    healthy, reported>>
    BY <1>4 DEF InstallSucceeds, InstallFails, bootVars, historyVars
  <2>2. rauc' \in {rauc, IdleJob}
    BY <1>4 DEF InstallSucceeds, InstallFails
  <2>3. IdleJob \in [phase : {"idle", "started", "marked", "writing", "written",
                              "done", "failed"},
                     target : Slots \cup {NoSlot}, image : Images]
    BY OtaAgentAssumption DEF IdleJob, PartialImage, Images
  <2> QED
    BY <1>0, <1>f, <2>1, <2>2, <2>3 DEF DeviceTypeOK
<1>5. CASE RaucStep \/ RaucFails
  <2>1. UNCHANGED <<power, booted, boot_id, autostart, rebooting, healthy, reported>>
    BY <1>5 DEF RaucStep, RaucMarkTarget, RaucWrite, RaucActivate, RaucFails,
                RaucUnchanged, bootVars, historyVars
  <2>2. PartialImage \in Images
    BY OtaAgentAssumption DEF PartialImage, Images
  <2>3. image' \in [Slots -> Images]
    BY <1>0, <1>5, <2>2 DEF RaucStep, RaucMarkTarget, RaucWrite, RaucActivate,
                            RaucFails, DeviceTypeOK
  <2>4. rauc' \in [phase : {"idle", "started", "marked", "writing", "written",
                            "done", "failed"},
                   target : Slots \cup {NoSlot}, image : Images]
    BY <1>0, <1>5 DEF RaucStep, RaucMarkTarget, RaucWrite, RaucActivate,
                      RaucFails, DeviceTypeOK
  <2>5. meta' \in ab_data
    BY <1>0, <1>5, MutationsTyped
    DEF RaucStep, RaucMarkTarget, RaucWrite, RaucActivate, RaucFails, DeviceTypeOK
  <2> QED
    BY <1>0, <1>f, <2>1, <2>3, <2>4, <2>5 DEF DeviceTypeOK
<1>6. CASE HealthPasses \/ ReportSuccess \/ ReportTerminal
  <2>1. UNCHANGED <<power, booted, boot_id, autostart, rebooting, meta, image, rauc>>
    BY <1>6 DEF HealthPasses, ReportSuccess, ReportTerminal, OutsideUnchanged, bootVars
  <2>2. healthy' \subseteq Attempts
    BY <1>0, <1>6, AttemptInRange, InstalledHasAttempt
    DEF HealthPasses, ReportSuccess, ReportTerminal, InState, InstalledStates, DeviceTypeOK
  <2>3. reported' \subseteq Attempts \X {"success", "failure"}
    BY <1>0, <1>6, AttemptInRange
    DEF HealthPasses, ReportSuccess, ReportTerminal, Delivered, DeviceTypeOK
  <2> QED
    BY <1>0, <1>f, <2>1, <2>2, <2>3 DEF DeviceTypeOK
<1>7. CASE HealthRejects \/ MarkGood
  <2>1. UNCHANGED <<power, booted, boot_id, autostart, rebooting, image, rauc,
                    healthy, reported>>
    BY <1>7 DEF HealthRejects, MarkGood, bootVars, historyVars
  <2>2. meta' \in ab_data
    BY <1>0, <1>7, MutationsTyped DEF HealthRejects, MarkGood, DeviceTypeOK
  <2> QED
    BY <1>0, <1>f, <2>1, <2>2 DEF DeviceTypeOK
<1>8. CASE BootAttempt
  <2> DEFINE d == NormaliseExhausted(meta)
             slot == primary_slot(d)
  <2>1. d \in ab_data
    BY <1>0, MutationsTyped DEF DeviceTypeOK
  <2>2. slot # NoPrimary /\ meta' = ConsumeTry(d, slot)
    BY <1>8 DEF BootAttempt
  <2>3. slot \in Slots /\ meta' \in ab_data
    <3> HIDE DEF d
    <3> QED BY <2>1, <2>2, ConsumeTryTyped
  <2>4. /\ booted' \in Slots /\ boot_id' \in Nat \ {0}
        /\ power' \in {"up", "booting"} /\ autostart' \in BOOLEAN
    <3>1. \/ /\ booted' = slot /\ boot_id' = boot_id + 1
             /\ power' = "up" /\ autostart' = TRUE
          \/ UNCHANGED <<booted, boot_id, power, autostart>>
      BY <1>8 DEF BootAttempt
    <3> HIDE DEF slot
    <3>2. autostart' \in BOOLEAN
      BY <1>0, <3>1, Zenon DEF DeviceTypeOK
    <3> QED
      BY <1>0, <2>3, <3>1, <3>2 DEF DeviceTypeOK
  <2>5. UNCHANGED <<rebooting, image, rauc, healthy, reported>>
    BY <1>8 DEF BootAttempt, historyVars
  <2> QED
    BY <1>0, <1>f, <2>3, <2>4, <2>5 DEF DeviceTypeOK
<1>9. \/ UNCHANGED otherVars
      \/ Open \/ StartFails \/ DeviceGoesDown \/ RebootRequest \/ InstallCall
      \/ InstallSucceeds \/ InstallFails \/ RaucStep \/ RaucFails
      \/ HealthPasses \/ ReportSuccess \/ ReportTerminal
      \/ HealthRejects \/ MarkGood \/ BootAttempt
  BY DEF Next, AgentStep, Environment, StartAtBoot, OperatorStart, Recover,
         Started, Commit, Exit, Idle, CheckNetwork, CheckUpdateNothing,
         CheckUpdateFound, CheckUpdateFails, PrecheckPhase, DownloadPhase,
         RaucVerify, RebootPending, Stop, Kill, PowerLoss, OrderlyReboot,
         OutsideUnchanged, bootVars, historyVars, vars
<1> QED
  BY <1>1, <1>2, <1>3, <1>4, <1>5, <1>6, <1>7, <1>8, <1>9
-----------------------------------------------------------------------------
(* The theorems.                                                           *)

\* The factory states satisfy the inductive invariant.
LEMMA InitInstallInv == Init => InstallInv
<1> SUFFICES ASSUME Init PROVE InstallInv
  OBVIOUS
<1>0. /\ pc = "down" /\ cont = "down" /\ blocked = FALSE
      /\ m = ota_persistent_state_init /\ next = ota_persistent_state_init
      /\ disk = [visible |-> NoFile, stable |-> NoFile]
      /\ attempts = 0 /\ installs = [a \in Attempts |-> 0]
  BY DEF Init
<1>1. AgentTypeOK
  <2>1. blocked \in BOOLEAN
    BY <1>0, Zenon
  <2>2. disk \in [visible : OtaPersistentStates \cup {NoFile},
                  stable : OtaPersistentStates \cup {NoFile}]
    BY <1>0
  <2>3. attempts \in 0..MaxAttempts /\ installs \in [Attempts -> Nat]
    BY <1>0, OtaAgentAssumption
  <2> QED
    BY <1>0, <2>1, <2>2, <2>3, InitRecord DEF AgentTypeOK, PCs
<1>2. DeviceTypeOK
  <2>1. IdleJob \in [phase : {"idle", "started", "marked", "writing", "written",
                              "done", "failed"},
                     target : Slots \cup {NoSlot}, image : Images]
    BY OtaAgentAssumption DEF IdleJob, PartialImage, Images
  <2>2. ConfirmedGood \in slot_data /\ FactoryPeer \subseteq slot_data
    BY AbMaxAssumption DEF ConfirmedGood, FactoryPeer, slot_data
  <2>3. meta \in ab_data
    BY <2>2 DEF Init, ab_data
  <2>4. [release |-> 1, attempt |-> 0] \in Images
    BY OtaAgentAssumption DEF Images
  <2>5. /\ power = "up" /\ rebooting = FALSE /\ autostart = TRUE
        /\ boot_id = 1 /\ booted \in Slots /\ rauc = IdleJob /\ faults = 0
        /\ image = [s \in Slots |-> [release |-> 1, attempt |-> 0]]
        /\ healthy = {} /\ reported = {}
    BY DEF Init
  <2>6. rebooting \in BOOLEAN /\ autostart \in BOOLEAN
    BY <2>5, Zenon
  <2>7. /\ boot_id \in Nat \ {0} /\ image \in [Slots -> Images]
        /\ faults \in 0..MaxFaults
    BY <2>4, <2>5, OtaAgentAssumption
  <2>8. healthy \subseteq Attempts /\ reported \subseteq Attempts \X {"success", "failure"}
    BY <2>5
  <2> QED
    BY <2>1, <2>3, <2>5, <2>6, <2>7, <2>8 DEF DeviceTypeOK
<1>3. AttemptInv
  BY <1>0, InitRecord, OtaAgentAssumption
  DEF AttemptInv, RecordInv, PendingInv, IntentInv, InstallAtMostOnce, PrepareStates
<1> QED
  BY <1>1, <1>2, <1>3 DEF InstallInv, TypeOK

\* InstallInv is an invariant of the device: whatever the agent, the RAUC
\* service, the bootloader and the faults do.
THEOREM InstallInvariant == Spec => []InstallInv
<1>1. InstallInv /\ [Next]_vars => InstallInv'
  BY CoreInductive, DeviceInductive DEF InstallInv, TypeOK, Core
<1> QED
  BY <1>1, InitInstallInv, PTL DEF Spec

\* The model is type correct for every number of releases, attempts and faults.
THEOREM TypeCorrect == Spec => []TypeOK
BY InstallInvariant, PTL DEF InstallInv

\* The agent calls rauc install at most once per attempt id, through any number
\* of crashes, restarts, failed saves and power losses.
THEOREM InstallOnce == Spec => []InstallAtMostOnce
<1>1. InstallInv => InstallAtMostOnce
  BY DEF InstallInv, AttemptInv
<1> QED
  BY <1>1, InstallInvariant, PTL
-----------------------------------------------------------------------------
(* Slots, records and what a record stands for.                            *)

\* There are two slots.
LEMMA TwoSlots ==
  ASSUME NEW s \in Slots
  PROVE  /\ Other(s) \in Slots /\ Other(s) # s /\ Other(Other(s)) = s
         /\ \A t \in Slots : t = s \/ t = Other(s)
BY DEF Slots, Other

\* A consistent record past the preparation has its attempt and both slots.
LEMMA InstalledRecord ==
  ASSUME NEW r, ota_persistent_state_validate(r), r.state \in InstalledStates
  PROVE  /\ r.attempt_id # 0 /\ r.target # 0
         /\ r.previous_slot \in Slots
         /\ r.expected_candidate_slot = Other(r.previous_slot)
         /\ r.expected_candidate_slot \in Slots
         /\ r.previous_slot = Other(r.expected_candidate_slot)
<1>1. /\ r \in OtaPersistentStates /\ r.attempt_id # 0 /\ r.target # 0
      /\ r.previous_slot # NoSlot
      /\ r.expected_candidate_slot = Other(r.previous_slot)
  BY DEF ota_persistent_state_validate
<1>2. r.previous_slot \in Slots
  BY <1>1 DEF OtaPersistentStates
<1> QED
  BY <1>1, <1>2, TwoSlots

\* Only HEALTH_CHECK's rollback carries the health context.
LEMMA HealthContext ==
  ASSUME NEW r, ota_persistent_state_validate(r),
         r.state \notin {"ROLLBACK", "ERROR"}
  PROVE  r.reboot_context # "health_failure" /\ r.last_error = "NONE"
BY DEF ota_persistent_state_validate

\* The loaded record is consistent, and so is each view of the disk that is one.
LEMMA RecordsValid ==
  ASSUME InstallInv
  PROVE  /\ m \in OtaPersistentStates /\ m # NoFile
         /\ ota_persistent_state_validate(m)
         /\ \A r \in {disk.visible, disk.stable} :
              r = NoFile \/ ota_persistent_state_validate(r)
<1>1. m \in OtaPersistentStates /\ m # NoFile
  BY NoFileIsNoRecord DEF InstallInv, TypeOK, AgentTypeOK
<1> QED
  BY <1>1 DEF InstallInv, AttemptInv, RecordInv

\* A record without a phase under way only asks for a settled device.
LEMMA QuietStands ==
  ASSUME NEW r, Settled, r.boot_id_before <= boot_id,
         r.state \in IdleStates \cup PrepareStates \cup {NoFile.state}
  PROVE  StandsFor(r)
BY DEF StandsFor, IdleStates, PrepareStates, NoFile, ota_persistent_state_init

\* Neither an error nor the intent to install asks for more than the boot id.
LEMMA NeutralStands ==
  ASSUME NEW r, r.boot_id_before <= boot_id, r.state \in {"ERROR", "INSTALLING"}
  PROVE  StandsFor(r)
BY DEF StandsFor, IdleStates, PrepareStates, NoFile, ota_persistent_state_init

\* The device as the records see it does not change, except that more attempts
\* may have passed their health check.
LEMMA SameDevice ==
  ASSUME UNCHANGED <<power, booted, boot_id, meta, image, rauc>>,
         healthy \subseteq healthy'
  PROVE  /\ Settled => Settled'
         /\ \A r : StandsFor(r) => StandsFor(r)'
         /\ \A r : Unjudged(r) => Unjudged(r)'
         /\ SlotInv => SlotInv'
         /\ JobInv => JobInv'
<1>1. \A s : Native(s)' = Native(s) /\ (Fallback(s)' <=> Fallback(s))
  BY DEF Native, Fallback
<1>2. Settled' <=> Settled
  BY <1>1 DEF Settled
<1>0. \A r : Unjudged(r) => Unjudged(r)'
  BY <1>1 DEF Unjudged
<1>3. \A r : OnTrial(r) => OnTrial(r)'
  BY <1>0, <1>1, <1>2 DEF OnTrial
<1>4. \A r : Armed(r) => Armed(r)'
  BY <1>1 DEF Armed
<1>5. \A r : StandsFor(r) => StandsFor(r)'
  BY <1>2, <1>3, <1>4 DEF StandsFor
<1>6. SlotInv => SlotInv'
  BY <1>1 DEF SlotInv, ConfirmedOnlyAfterHealth, FallbackExists
<1>7. JobInv => JobInv'
  BY <1>1 DEF JobInv
<1> QED
  BY <1>0, <1>2, <1>5, <1>6, <1>7

\* A step after which the disk holds the same records.
LEMMA SameDisk ==
  ASSUME StandsFor(disk.visible), StandsFor(disk.stable),
         \A r : StandsFor(r) => StandsFor(r)',
         disk'.visible \in {disk.visible, disk.stable},
         disk'.stable \in {disk.visible, disk.stable}
  PROVE  StandsFor(disk.visible)' /\ StandsFor(disk.stable)'
OBVIOUS
-----------------------------------------------------------------------------
(* How the building blocks treat the process's part of the invariant.      *)

\* Handing a record to ota_state_machine_transition.
LEMMA TransitionControl ==
  ASSUME DeviceInv, pc \notin {"down", "exit"},
         NEW rec, NEW after,
         Transition(rec, after),
         UNCHANGED <<power, booted, boot_id>>,
         UNCHANGED disk \/ (disk'.visible = m /\ disk'.stable = m),
         m.state \notin {"ERROR", "ROLLBACK"},
         StandsFor(rec)',
         rec.state = "INSTALLING" => Settled' /\ HereAndNow(rec),
         rec.state \in {"HEALTH_CHECK", "MARK_GOOD"} => Unjudged(rec)',
         rec.state = "REBOOT_PENDING" => rec.boot_id_before = boot_id,
         after = "reboot" => RebootAuthorised(rec) /\ rec.state = "ROLLBACK"
                               /\ booted = rec.expected_candidate_slot,
         after \notin {"down", "commit", "installing"}
  PROVE  ControlInv' /\ PendingStandsFor'
<1>1. power # "booting" /\ disk'.visible = m /\ disk'.stable = m
  BY DEF DeviceInv, ControlInv
<1>2. pc' = "commit" /\ next' = rec /\ cont' = after /\ m' = m
  BY DEF Transition
<1>3. ControlInv'
  BY <1>1, <1>2 DEF ControlInv
<1>4. StandsFor(next)' /\ (rec.state \in {"HEALTH_CHECK", "MARK_GOOD"} => Unjudged(next)')
  BY <1>2
<1>5. PendingStandsFor'
  BY <1>2, <1>4 DEF PendingStandsFor, HereAndNow
<1> QED
  BY <1>3, <1>5

\* ota_state_machine_fail, from any state that is not terminal.
LEMMA FailControl ==
  ASSUME DeviceInv, pc \notin {"down", "exit"},
         NEW code, NEW after,
         Fail(code, after),
         UNCHANGED <<power, booted, boot_id>>,
         UNCHANGED disk \/ (disk'.visible = m /\ disk'.stable = m),
         m.state \notin {"ERROR", "ROLLBACK"},
         after \notin {"down", "commit", "installing", "reboot"}
  PROVE  ControlInv' /\ PendingStandsFor'
<1>0. PICK rec : rec = ErrorRecord(m, code)
  OBVIOUS
<1>1. m = disk.visible /\ m \in OtaPersistentStates /\ m.boot_id_before <= boot_id
  BY DEF DeviceInv, ControlInv, StandsFor, InstallInv, TypeOK, AgentTypeOK
<1>2. rec.state = "ERROR" /\ rec.boot_id_before = m.boot_id_before
  BY <1>0, <1>1 DEF ErrorRecord, OtaPersistentStates
<1>3. Transition(rec, after)
  BY <1>0 DEF Fail
<1>4. StandsFor(rec)'
  BY <1>1, <1>2 DEF StandsFor, IdleStates, PrepareStates, NoFile, ota_persistent_state_init
<1> QED
  BY <1>2, <1>3, <1>4, TransitionControl

\* Moving between control points, outside the installation.
LEMMA GoToControl ==
  ASSUME DeviceInv, pc \notin {"down", "exit"},
         NEW label \in {"exit", "started", "loop", "reboot"}, GoTo(label),
         UNCHANGED <<power, booted, boot_id, meta, disk>>,
         label \in {"started", "loop"} =>
           m.state \notin {"INSTALLING", "HEALTH_CHECK", "MARK_GOOD"} \/ pc = "started",
         label # "exit" /\ m.state = "REBOOT_PENDING" => m.boot_id_before = boot_id,
         label = "loop" => m.state # "INSTALLING",
         label = "reboot" =>
           RebootAuthorised(m) /\ (m.state = "ROLLBACK" => booted = m.expected_candidate_slot)
  PROVE  ControlInv' /\ PendingStandsFor'
<1>1. m = disk.visible /\ m = disk.stable /\ power # "booting"
  BY DEF DeviceInv, ControlInv
<1>2. pc' = label /\ m' = m
  BY DEF GoTo
<1>5. pc = "started" /\ m.state \in {"HEALTH_CHECK", "MARK_GOOD"} => Unjudged(m)'
  <2>1. pc = "started" /\ m.state \in {"HEALTH_CHECK", "MARK_GOOD"} => Unjudged(m)
    BY DEF DeviceInv, ControlInv
  <2> QED
    BY <1>2, <2>1 DEF Unjudged, Native
<1>4. ControlInv'
  BY <1>1, <1>2, <1>5 DEF ControlInv
<1> QED
  BY <1>2, <1>4 DEF PendingStandsFor

\* The end of the process.
LEMMA EndControl ==
  ASSUME DeviceInv, ProcessEnds, power' = "booting" => rauc'.phase = "idle"
  PROVE  ControlInv' /\ PendingStandsFor'
BY DEF ProcessEnds, ControlInv, PendingStandsFor

\* The agent does nothing that is seen outside.
LEMMA IdleControl ==
  ASSUME DeviceInv,
         UNCHANGED <<agentVars, disk, power, booted, boot_id, meta, image, rauc>>,
         healthy \subseteq healthy'
  PROVE  ControlInv' /\ PendingStandsFor'
<1>1. Settled => Settled'
  BY SameDevice
<1>2. StandsFor(next) => StandsFor(next)'
  <2>1. UNCHANGED next
    BY DEF agentVars
  <2> QED
    BY <2>1, SameDevice
<1>5. (Unjudged(m) => Unjudged(m)') /\ (Unjudged(next) => Unjudged(next)')
  <2>1. UNCHANGED <<m, next>>
    BY DEF agentVars
  <2> QED
    BY <2>1, SameDevice
<1>3. ControlInv'
  BY <1>1, <1>5 DEF DeviceInv, ControlInv, HereAndNow, agentVars
<1>4. PendingStandsFor'
  BY <1>1, <1>2, <1>5 DEF DeviceInv, PendingStandsFor, HereAndNow, agentVars
<1> QED
  BY <1>3, <1>4
-----------------------------------------------------------------------------
(* Steps of the agent that touch neither the disk nor the slots.           *)

\* What such a step has to keep is the process's part.
LEMMA AgentOnly ==
  ASSUME DeviceInv, InstallInv',
         UNCHANGED <<disk, power, booted, boot_id, meta, image, rauc>>,
         healthy \subseteq healthy', ControlInv', PendingStandsFor'
  PROVE  DeviceInv'
<1>1. SlotInv' /\ JobInv' /\ \A r : StandsFor(r) => StandsFor(r)'
  BY SameDevice DEF DeviceInv
<1>2. StandsFor(disk.visible)' /\ StandsFor(disk.stable)'
  BY <1>1, SameDisk DEF DeviceInv
<1> QED
  BY <1>1, <1>2 DEF DeviceInv

\* A transition to a record without a phase under way, on a settled device.
LEMMA QuietControl ==
  ASSUME DeviceInv, pc \notin {"down", "exit"}, Settled,
         m.state \notin {"ERROR", "ROLLBACK"},
         NEW rec, NEW after \in {"loop", "started"}, Transition(rec, after),
         rec.state \in IdleStates \cup PrepareStates, rec.boot_id_before <= boot_id,
         UNCHANGED <<disk, power, booted, boot_id, meta, image, rauc, healthy>>
  PROVE  ControlInv' /\ PendingStandsFor'
<1>1. StandsFor(rec)
  BY QuietStands
<1>2. StandsFor(rec)'
  BY <1>1, SameDevice
<1>3. /\ rec.state # "INSTALLING" /\ rec.state # "REBOOT_PENDING"
      /\ rec.state \notin {"HEALTH_CHECK", "MARK_GOOD"}
  BY DEF IdleStates, PrepareStates
<1> QED
  BY <1>2, <1>3, TransitionControl

\* While the loop stands before the installation the device is settled.
LEMMA QuietIsSettled ==
  ASSUME DeviceInv, pc = "loop",
         m.state \in IdleStates \cup PrepareStates \cup {"REPORT_SUCCESS"}
  PROVE  /\ Settled /\ m.boot_id_before <= boot_id
         /\ m.state \notin {"ERROR", "ROLLBACK"}
<1>1. m = disk.visible /\ StandsFor(m)
  BY DEF DeviceInv, ControlInv
<1> QED
  BY <1>1 DEF StandsFor, OnTrial, IdleStates, PrepareStates

\* The phases before the installation, and the report that ends an attempt.
LEMMA QuietPhases ==
  ASSUME DeviceInv, InstallInv',
         \/ Idle \/ CheckNetwork \/ CheckUpdateNothing \/ CheckUpdateFound
         \/ CheckUpdateFails \/ PrecheckPhase \/ DownloadPhase \/ ReportSuccess
  PROVE  DeviceInv'
<1>1. /\ pc = "loop" /\ UNCHANGED <<disk, power, booted, boot_id, meta, image, rauc, healthy>>
      /\ m.state \in IdleStates \cup PrepareStates \cup {"REPORT_SUCCESS"}
  BY DEF Idle, CheckNetwork, CheckUpdateNothing, CheckUpdateFound, CheckUpdateFails,
         PrecheckPhase, DownloadPhase, ReportSuccess, InState, OutsideUnchanged,
         bootVars, historyVars, IdleStates, PrepareStates
<1>2. /\ Settled /\ m.boot_id_before <= boot_id /\ m.state \notin {"ERROR", "ROLLBACK"}
  BY <1>1, QuietIsSettled
<1>3. m \in OtaPersistentStates /\ boot_id \in Nat
  BY DEF DeviceInv, InstallInv, TypeOK, AgentTypeOK, DeviceTypeOK
<1>4. \/ \E st \in IdleStates \cup PrepareStates : Advance(st)
      \/ Transition(ota_persistent_state_init, "loop")
      \/ \E remote \in Releases :
           Transition([m EXCEPT !.state = "PRECHECK", !.attempt_id = attempts + 1,
                                !.target = remote], "loop")
      \/ \E code : Fail(code, "loop")
      \/ UNCHANGED agentVars
      \/ GoTo("exit")
  BY DEF Idle, CheckNetwork, CheckUpdateNothing, CheckUpdateFound, CheckUpdateFails,
         PrecheckPhase, DownloadPhase, ReportSuccess, IdleStates, PrepareStates
<1>5. ASSUME NEW rec, Transition(rec, "loop"),
             rec.state \in IdleStates \cup PrepareStates, rec.boot_id_before <= boot_id
      PROVE  ControlInv' /\ PendingStandsFor'
  BY <1>1, <1>2, <1>5, QuietControl
<1>6. ASSUME NEW st \in IdleStates \cup PrepareStates, Advance(st)
      PROVE  ControlInv' /\ PendingStandsFor'
  <2>1. PICK rec : rec = [m EXCEPT !.state = st]
    OBVIOUS
  <2>2. rec.state = st /\ rec.boot_id_before = m.boot_id_before
    BY <1>3, <2>1 DEF OtaPersistentStates
  <2>3. Transition(rec, "loop")
    BY <1>6, <2>1 DEF Advance
  <2> QED
    BY <1>2, <1>5, <2>2, <2>3
<1>7. ASSUME Transition(ota_persistent_state_init, "loop")
      PROVE  ControlInv' /\ PendingStandsFor'
  <2>1. /\ ota_persistent_state_init.state \in IdleStates \cup PrepareStates
        /\ ota_persistent_state_init.boot_id_before <= boot_id
    BY <1>3 DEF ota_persistent_state_init, IdleStates
  <2> QED
    BY <1>5, <1>7, <2>1
<1>8. ASSUME NEW remote \in Releases,
             Transition([m EXCEPT !.state = "PRECHECK", !.attempt_id = attempts + 1,
                                  !.target = remote], "loop")
      PROVE  ControlInv' /\ PendingStandsFor'
  <2>1. PICK rec : rec = [m EXCEPT !.state = "PRECHECK", !.attempt_id = attempts + 1,
                                   !.target = remote]
    OBVIOUS
  <2>2. /\ rec.state \in IdleStates \cup PrepareStates
        /\ rec.boot_id_before = m.boot_id_before
    BY <1>3, <2>1 DEF OtaPersistentStates, PrepareStates
  <2>3. Transition(rec, "loop")
    BY <1>8, <2>1
  <2> QED
    BY <1>2, <1>5, <2>2, <2>3
<1>9. ASSUME NEW code, Fail(code, "loop")
      PROVE  ControlInv' /\ PendingStandsFor'
  BY <1>1, <1>2, <1>9, FailControl
<1>10. ASSUME UNCHANGED agentVars \/ GoTo("exit")
       PROVE  ControlInv' /\ PendingStandsFor'
  BY <1>1, <1>10, IdleControl, GoToControl
<1> QED
  BY <1>1, <1>4, <1>6, <1>7, <1>8, <1>9, <1>10, AgentOnly

\* RAUC_VERIFY captures the identity of the running boot.
LEMMA RaucVerifyDevice == DeviceInv /\ InstallInv' /\ RaucVerify => DeviceInv'
<1> SUFFICES ASSUME DeviceInv, InstallInv', RaucVerify PROVE DeviceInv'
  OBVIOUS
<1>1. /\ pc = "loop" /\ m.state = "RAUC_VERIFY"
      /\ UNCHANGED <<disk, power, booted, boot_id, meta, image, rauc, healthy>>
  BY DEF RaucVerify, InState, OutsideUnchanged, bootVars, historyVars
<1>2. Settled
  BY <1>1, QuietIsSettled DEF PrepareStates
<1>3. m \in OtaPersistentStates /\ boot_id \in Nat
  BY DEF DeviceInv, InstallInv, TypeOK, AgentTypeOK, DeviceTypeOK
<1>4. CASE \E code : Fail(code, "loop")
  BY <1>1, <1>4, FailControl, AgentOnly
<1>5. ASSUME NEW q \in Slots, q = booted,
             Transition([m EXCEPT !.state = "INSTALLING", !.previous_slot = q,
                                  !.expected_candidate_slot = Other(q),
                                  !.boot_id_before = boot_id,
                                  !.reboot_context = "install"], "loop")
      PROVE  DeviceInv'
  <2>1. PICK rec : rec = [m EXCEPT !.state = "INSTALLING", !.previous_slot = q,
                                   !.expected_candidate_slot = Other(q),
                                   !.boot_id_before = boot_id,
                                   !.reboot_context = "install"]
    OBVIOUS
  <2>2. rec.state = "INSTALLING" /\ rec.previous_slot = q /\ rec.boot_id_before = boot_id
    BY <1>3, <2>1 DEF OtaPersistentStates
  <2>3. Transition(rec, "loop")
    BY <1>5, <2>1
  <2>4. StandsFor(rec)
    BY <1>3, <2>2, NeutralStands
  <2>5. StandsFor(rec)' /\ Settled'
    BY <1>1, <1>2, <2>4, SameDevice
  <2>6. ControlInv' /\ PendingStandsFor'
    BY <1>1, <1>5, <2>2, <2>3, <2>5, TransitionControl DEF HereAndNow
  <2> QED
    BY <1>1, <2>6, AgentOnly
<1>6. \/ \E code : Fail(code, "loop")
      \/ \E q \in Slots : /\ q = booted
                          /\ Transition([m EXCEPT !.state = "INSTALLING",
                                                  !.previous_slot = q,
                                                  !.expected_candidate_slot = Other(q),
                                                  !.boot_id_before = boot_id,
                                                  !.reboot_context = "install"], "loop")
  BY DEF RaucVerify, CurrentSlot
<1> QED
  BY <1>4, <1>5, <1>6

\* A record on trial may go on through the boot to the health check.
LEMMA TrialGoesOn ==
  ASSUME NEW r, NEW rec, OnTrial(r), r.boot_id_before <= boot_id,
         r.state \in {"REBOOT_PENDING", "BOOT_NEW_SLOT"},
         rec.state \in {"BOOT_NEW_SLOT", "HEALTH_CHECK"},
         rec.previous_slot = r.previous_slot,
         rec.expected_candidate_slot = r.expected_candidate_slot,
         rec.target = r.target, rec.attempt_id = r.attempt_id,
         rec.boot_id_before = r.boot_id_before
  PROVE  StandsFor(rec) /\ Unjudged(rec)
<1>1. Unjudged(rec)
  BY DEF OnTrial, Unjudged
<1>2. OnTrial(rec)
  BY <1>1 DEF OnTrial
<1> QED
  BY <1>1, <1>2 DEF StandsFor, IdleStates, PrepareStates, NoFile, ota_persistent_state_init

\* Recovery: resume, fail, or follow the reboot.
LEMMA RecoverDevice == DeviceInv /\ InstallInv' /\ Recover => DeviceInv'
<1> SUFFICES ASSUME DeviceInv, InstallInv', Recover PROVE DeviceInv'
  OBVIOUS
<1>1. pc = "recover" /\ UNCHANGED <<disk, power, booted, boot_id, meta, image, rauc, healthy>>
  BY DEF Recover, bootVars, historyVars
<1>2. /\ m = disk.visible /\ StandsFor(m) /\ m \in OtaPersistentStates
      /\ ota_persistent_state_validate(m) /\ m.boot_id_before <= boot_id
  BY <1>1, RecordsValid DEF DeviceInv, ControlInv, StandsFor
<1> SUFFICES ControlInv' /\ PendingStandsFor'
  BY <1>1, AgentOnly
<1>3. CASE RecoverReplaySafe
  BY <1>1, <1>3, GoToControl
  DEF RecoverReplaySafe, ReplaySafeStates, IdleStates, PrepareStates
<1>4. CASE RecoverInterrupted
  BY <1>1, <1>4, FailControl DEF RecoverInterrupted, ReplaySafeStates
<1>5. CASE RecoverSameBoot
  BY <1>1, <1>5, FailControl, GoToControl DEF RecoverSameBoot
<1>6. CASE RecoverNewBoot
  <2>1. PICK rec : rec = [m EXCEPT !.state = "BOOT_NEW_SLOT"]
    OBVIOUS
  <2>2. Transition(rec, "recover") /\ m.state = "REBOOT_PENDING"
    BY <1>6, <2>1 DEF RecoverNewBoot
  <2>3. /\ rec.state = "BOOT_NEW_SLOT" /\ rec.previous_slot = m.previous_slot
        /\ rec.expected_candidate_slot = m.expected_candidate_slot
        /\ rec.target = m.target /\ rec.attempt_id = m.attempt_id
        /\ rec.boot_id_before = m.boot_id_before
    BY <1>2, <2>1 DEF OtaPersistentStates
  <2>4. StandsFor(rec)
    BY <1>2, <2>2, <2>3, TrialGoesOn DEF StandsFor
  <2>5. StandsFor(rec)'
    BY <1>1, <2>4, SameDevice
  <2> QED
    BY <1>1, <2>2, <2>3, <2>5, TransitionControl
<1>7. CASE RecoverNewSlot
  <2>1. m.state = "BOOT_NEW_SLOT"
    BY <1>7 DEF RecoverNewSlot
  <2>2. CASE Fail("REBOOT_CONTEXT_INVALID", "started")
    BY <1>1, <2>1, <2>2, FailControl
  <2>3. CASE Transition([m EXCEPT !.state = "HEALTH_CHECK"], "started")
    <3>1. PICK rec : rec = [m EXCEPT !.state = "HEALTH_CHECK"]
      OBVIOUS
    <3>2. Transition(rec, "started")
      BY <2>3, <3>1
    <3>3. /\ rec.state = "HEALTH_CHECK" /\ rec.previous_slot = m.previous_slot
          /\ rec.expected_candidate_slot = m.expected_candidate_slot
          /\ rec.target = m.target /\ rec.attempt_id = m.attempt_id
          /\ rec.boot_id_before = m.boot_id_before
      BY <1>2, <3>1 DEF OtaPersistentStates
    <3>4. StandsFor(rec) /\ Unjudged(rec)
      BY <1>2, <2>1, <3>3, TrialGoesOn DEF StandsFor
    <3>5. StandsFor(rec)' /\ Unjudged(rec)'
      BY <1>1, <3>4, SameDevice
    <3> QED
      BY <1>1, <2>1, <3>2, <3>3, <3>5, TransitionControl
  <2>4. CASE Transition([m EXCEPT !.state = "ROLLBACK", !.last_error = "HEALTH_FAILED"],
                        "started")
    <3>1. PICK rec : rec = [m EXCEPT !.state = "ROLLBACK", !.last_error = "HEALTH_FAILED"]
      OBVIOUS
    <3>2. Transition(rec, "started")
      BY <2>4, <3>1
    <3>3. /\ rec.state = "ROLLBACK" /\ rec.last_error = "HEALTH_FAILED"
          /\ rec.reboot_context = m.reboot_context
          /\ rec.boot_id_before = m.boot_id_before
      BY <1>2, <3>1 DEF OtaPersistentStates
    <3>4. rec.reboot_context # "health_failure"
      BY <1>2, <2>1, <3>3, HealthContext
    <3>5. StandsFor(rec)
      BY <1>2, <3>3, <3>4
      DEF StandsFor, IdleStates, PrepareStates, NoFile, ota_persistent_state_init
    <3>6. StandsFor(rec)'
      BY <1>1, <3>5, SameDevice
    <3> QED
      BY <1>1, <2>1, <3>2, <3>3, <3>6, TransitionControl
  <2> QED
    BY <1>7, <2>2, <2>3, <2>4 DEF RecoverNewSlot
<1> QED
  BY <1>3, <1>4, <1>5, <1>6, <1>7 DEF Recover

\* After recovery: a rollback that still runs its candidate reboots, every other
\* record goes to the loop.
LEMMA StartedDevice == DeviceInv /\ InstallInv' /\ Started => DeviceInv'
<1> SUFFICES ASSUME DeviceInv, InstallInv', Started PROVE DeviceInv'
  OBVIOUS
<1>1. pc = "started" /\ UNCHANGED <<disk, power, booted, boot_id, meta, image, rauc, healthy>>
  BY DEF Started, bootVars, historyVars
<1>2. /\ m.state # "INSTALLING"
      /\ m.state = "REBOOT_PENDING" => m.boot_id_before = boot_id
  BY <1>1 DEF DeviceInv, ControlInv, InstallInv, AttemptInv, IntentInv
<1>3. \/ GoTo("loop") \/ GoTo("exit")
      \/ /\ GoTo("reboot") /\ RebootAuthorised(m)
         /\ booted = m.expected_candidate_slot
  <2>1. CASE m.state = "ROLLBACK" /\ m.reboot_context = "health_failure"
    <3>1. PICK q \in Slots \cup {NoSlot} :
            /\ CurrentSlot(q)
            /\ GoTo(CASE q = m.expected_candidate_slot -> "reboot"
                      [] q = m.previous_slot -> "loop"
                      [] OTHER -> "exit")
      BY <2>1 DEF Started
    <3>2. q = booted \/ q = NoSlot
      BY <3>1 DEF CurrentSlot
    <3>3. m.expected_candidate_slot \in Slots
      BY <2>1, RecordsValid, InstalledRecord DEF DeviceInv, InstalledStates
    <3>4. NoSlot \notin Slots
      BY DEF NoSlot, Slots
    <3> QED
      BY <2>1, <3>1, <3>2, <3>3, <3>4 DEF RebootAuthorised
  <2>2. CASE ~(m.state = "ROLLBACK" /\ m.reboot_context = "health_failure")
    BY <2>2 DEF Started
  <2> QED
    BY <2>1, <2>2
<1>4. ControlInv' /\ PendingStandsFor'
  BY <1>1, <1>2, <1>3, GoToControl
<1> QED
  BY <1>1, <1>4, AgentOnly

\* Steps in the loop that only move on, repeat a report or end the process.
LEMMA PlainSteps ==
  ASSUME DeviceInv, InstallInv',
         \/ ReportTerminal \/ RebootPending \/ Exit \/ Stop \/ Kill
  PROVE  DeviceInv'
<1>1. UNCHANGED <<disk, power, booted, boot_id, meta, image, rauc, healthy>>
  BY DEF ReportTerminal, RebootPending, Exit, Stop, Kill, OutsideUnchanged, bootVars,
         historyVars
<1>2. CASE Exit \/ Stop \/ Kill
  <2>1. ProcessEnds /\ pc # "down"
    BY <1>2 DEF Exit, Stop, Kill
  <2>2. power # "booting"
    BY <2>1 DEF DeviceInv, ControlInv
  <2> QED
    BY <1>1, <2>1, <2>2, EndControl, AgentOnly
<1>4. CASE ReportTerminal
  <2>1. pc = "loop" /\ (GoTo("exit") \/ UNCHANGED agentVars)
    BY <1>4 DEF ReportTerminal, InState
  <2> QED
    BY <1>1, <2>1, GoToControl, IdleControl, AgentOnly
<1>5. CASE RebootPending
  <2>1. pc = "loop" /\ m.state = "REBOOT_PENDING" /\ GoTo("reboot")
    BY <1>5 DEF RebootPending, InState
  <2>2. m.boot_id_before = boot_id
    BY <2>1 DEF DeviceInv, ControlInv
  <2>3. RebootAuthorised(m) /\ m.state # "ROLLBACK"
    BY <2>1 DEF RebootAuthorised
  <2> QED
    BY <1>1, <2>1, <2>2, <2>3, GoToControl, AgentOnly
<1> QED
  BY <1>2, <1>4, <1>5

\* The candidate passed its health check, or runs the wrong release.
LEMMA HealthPassesDevice == DeviceInv /\ InstallInv' /\ HealthPasses => DeviceInv'
<1> SUFFICES ASSUME DeviceInv, InstallInv', HealthPasses PROVE DeviceInv'
  OBVIOUS
<1>1. /\ pc = "loop" /\ m.state = "HEALTH_CHECK"
      /\ UNCHANGED <<disk, power, booted, boot_id, meta, image, rauc>>
      /\ healthy \subseteq healthy'
  BY DEF HealthPasses, InState, OutsideUnchanged, bootVars
<1> SUFFICES ControlInv' /\ PendingStandsFor'
  BY <1>1, AgentOnly
<1>2. CASE WrongRelease
  BY <1>1, <1>2, FailControl DEF WrongRelease
<1>3. CASE Advance("MARK_GOOD") /\ healthy' = healthy \cup {m.attempt_id}
  <2>1. PICK rec : rec = [m EXCEPT !.state = "MARK_GOOD"]
    OBVIOUS
  <2>2. /\ m = disk.visible /\ StandsFor(m) /\ m \in OtaPersistentStates
        /\ m.boot_id_before <= boot_id
    BY <1>1, RecordsValid DEF DeviceInv, ControlInv, StandsFor
  <2>3. /\ rec.state = "MARK_GOOD" /\ rec.previous_slot = m.previous_slot
        /\ rec.expected_candidate_slot = m.expected_candidate_slot
        /\ rec.target = m.target /\ rec.attempt_id = m.attempt_id
        /\ rec.boot_id_before = m.boot_id_before
    BY <2>1, <2>2 DEF OtaPersistentStates
  <2>4. OnTrial(m)
    BY <1>1, <2>2 DEF StandsFor
  <2>5. \A s : Fallback(s) => Fallback(s)'
    BY <1>1 DEF Fallback, Native
  <2>6. OnTrial(rec)'
    BY <1>1, <1>3, <2>3, <2>4, <2>5 DEF OnTrial
  <2>7. StandsFor(rec)'
    BY <1>1, <2>2, <2>3, <2>6
    DEF StandsFor, IdleStates, PrepareStates, NoFile, ota_persistent_state_init
  <2>8. Transition(rec, "loop")
    BY <1>3, <2>1 DEF Advance
  <2>9. Unjudged(m)
    BY <1>1 DEF DeviceInv, ControlInv
  <2>10. Unjudged(rec)'
    BY <1>1, <2>3, <2>9 DEF Unjudged, Native
  <2> QED
    BY <1>1, <2>3, <2>7, <2>8, <2>10, TransitionControl
<1> QED
  BY <1>2, <1>3 DEF HealthPasses
-----------------------------------------------------------------------------
(* Steps that write the state file.                                        *)

\* A step of the agent that leaves the device alone and the disk with records
\* that stand for it.
LEMMA DiskOnly ==
  ASSUME DeviceInv, InstallInv',
         UNCHANGED <<power, booted, boot_id, meta, image, rauc, healthy>>,
         NEW v, StandsFor(v),
         disk'.visible \in {disk.visible, disk.stable, v},
         disk'.stable \in {disk.visible, disk.stable, v},
         ControlInv', PendingStandsFor'
  PROVE  DeviceInv'
<1>1. SlotInv' /\ JobInv' /\ \A r : StandsFor(r) => StandsFor(r)'
  BY SameDevice DEF DeviceInv
<1>2. StandsFor(disk.visible)' /\ StandsFor(disk.stable)'
  BY <1>1 DEF DeviceInv
<1> QED
  BY <1>1, <1>2 DEF DeviceInv

\* ota_state_machine_transition.
LEMMA CommitDevice == DeviceInv /\ InstallInv' /\ Commit => DeviceInv'
<1> SUFFICES ASSUME DeviceInv, InstallInv', Commit PROVE DeviceInv'
  OBVIOUS
<1>1. pc = "commit" /\ UNCHANGED <<power, booted, boot_id, meta, image, rauc, healthy>>
  BY DEF Commit, bootVars, historyVars
<1>2. /\ StandsFor(next) /\ power # "booting"
      /\ next.state = "INSTALLING" => Settled /\ HereAndNow(next)
      /\ next.state \in {"HEALTH_CHECK", "MARK_GOOD"} => Unjudged(next)
      /\ next.state = "REBOOT_PENDING" => next.boot_id_before = boot_id
      /\ cont = "reboot" => RebootAuthorised(next) /\ next.state = "ROLLBACK"
                               /\ booted = next.expected_candidate_slot
      /\ cont \notin {"down", "commit", "installing"}
  BY <1>1 DEF DeviceInv, PendingStandsFor, ControlInv
<1>3. PICK v : v = next
  OBVIOUS
<1>4. disk \in [visible : OtaPersistentStates \cup {NoFile},
               stable : OtaPersistentStates \cup {NoFile}]
  BY DEF DeviceInv, InstallInv, TypeOK, AgentTypeOK
<1>5. CASE GoTo("exit") /\ UNCHANGED disk
  BY <1>1, <1>5, GoToControl, AgentOnly
<1>6. CASE /\ SaveSucceeds(next)
           /\ m' = next /\ pc' = cont
           /\ next' = ota_persistent_state_init /\ cont' = "down"
  <2>1. disk'.visible = v /\ disk'.stable = v /\ m' = v /\ pc' = cont
    BY <1>3, <1>6 DEF SaveSucceeds
  <2>2. Settled => Settled'
    BY <1>1, SameDevice
  <2>5. m'.state \in {"HEALTH_CHECK", "MARK_GOOD"} => Unjudged(m)'
    BY <1>1, <1>2, <1>3, <2>1, SameDevice
  <2>4. ControlInv'
    BY <1>1, <1>2, <1>3, <2>1, <2>2, <2>5 DEF ControlInv, HereAndNow
  <2>3. PendingStandsFor'
    BY <1>2, <2>1 DEF PendingStandsFor
  <2> QED
    BY <1>1, <1>2, <1>3, <2>1, <2>3, <2>4, DiskOnly
<1>7. CASE /\ SaveFails(disk, next) /\ pc' = "exit" /\ UNCHANGED m
  <2>1. disk'.visible \in {disk.visible, v} /\ disk'.stable = disk.stable
    BY <1>3, <1>4, <1>7 DEF SaveFails
  <2>2. ControlInv' /\ PendingStandsFor'
    BY <1>1, <1>2, <1>7 DEF ControlInv, PendingStandsFor
  <2> QED
    BY <1>1, <1>2, <1>3, <2>1, <2>2, DiskOnly
<1> QED
  BY <1>5, <1>6, <1>7 DEF Commit

\* ota_state_machine_open: a record is created, loaded or refused.
LEMMA OpenDevice == DeviceInv /\ InstallInv' /\ Open => DeviceInv'
<1> SUFFICES ASSUME DeviceInv, InstallInv', Open PROVE DeviceInv'
  OBVIOUS
<1>1. /\ pc = "down" /\ power = "up"
      /\ UNCHANGED <<power, booted, boot_id, meta, image, rauc, healthy>>
  BY DEF Open, bootVars, historyVars
<1>2. /\ boot_id \in Nat /\ m = ota_persistent_state_init
      /\ disk \in [visible : OtaPersistentStates \cup {NoFile},
                   stable : OtaPersistentStates \cup {NoFile}]
  BY <1>1 DEF DeviceInv, ControlInv, InstallInv, TypeOK, AgentTypeOK, DeviceTypeOK
<1>3. PICK v : v = ota_persistent_state_init
  OBVIOUS
<1>4. CASE disk.visible = NoFile
  <2>1. Settled
    BY <1>4 DEF DeviceInv, StandsFor
  <2>2. v.state \in IdleStates /\ v.boot_id_before <= boot_id
    BY <1>2, <1>3 DEF ota_persistent_state_init, IdleStates
  <2>3. StandsFor(v)
    BY <2>1, <2>2, QuietStands
  <2>4. \/ disk'.visible = v /\ disk'.stable = v /\ pc' = "recover" /\ m' = m
        \/ /\ disk'.visible \in {disk.visible, v} /\ disk'.stable = disk.visible
           /\ UNCHANGED <<pc, m>>
    BY <1>3, <1>4, OpenDisk DEF DeviceInv, InstallInv, TypeOK
  <2>5. ControlInv' /\ PendingStandsFor'
    BY <1>1, <1>2, <1>3, <2>4 DEF ControlInv, PendingStandsFor
  <2> QED
    BY <1>1, <2>3, <2>4, <2>5, DiskOnly
<1>5. CASE disk.visible # NoFile
  <2>1. /\ disk'.visible = disk.visible /\ disk'.stable = disk.visible
        /\ (m' = disk.visible /\ pc' = "recover") \/ UNCHANGED <<m, pc>>
    BY <1>2, <1>5 DEF Open, ota_storage_prepare
  <2>3. PICK w : w = disk.visible
    OBVIOUS
  <2>4. StandsFor(w)
    BY <2>3 DEF DeviceInv
  <2>2. ControlInv' /\ PendingStandsFor'
    BY <1>1, <1>2, <2>1 DEF ControlInv, PendingStandsFor
  <2> QED
    BY <1>1, <2>1, <2>2, <2>3, <2>4, DiskOnly
<1> QED
  BY <1>4, <1>5

\* A start that fails has synced the directory or not.
LEMMA StartFailsDevice == DeviceInv /\ InstallInv' /\ StartFails => DeviceInv'
<1> SUFFICES ASSUME DeviceInv, InstallInv', StartFails PROVE DeviceInv'
  OBVIOUS
<1>1. /\ pc = "down" /\ power = "up" /\ pc' = pc /\ m' = m
      /\ UNCHANGED <<power, booted, boot_id, meta, image, rauc, healthy>>
  BY DEF StartFails, agentVars, bootVars, historyVars
<1>2. disk \in [visible : OtaPersistentStates \cup {NoFile},
               stable : OtaPersistentStates \cup {NoFile}]
  BY DEF DeviceInv, InstallInv, TypeOK, AgentTypeOK
<1>3. disk'.visible = disk.visible /\ disk'.stable \in {disk.visible, disk.stable}
  BY <1>2 DEF StartFails, ota_storage_prepare
<1>4. PICK v : v = disk.visible
  OBVIOUS
<1>5. StandsFor(v)
  BY <1>4 DEF DeviceInv
<1>6. ControlInv' /\ PendingStandsFor'
  BY <1>1 DEF DeviceInv, ControlInv, PendingStandsFor
<1> QED
  BY <1>1, <1>3, <1>5, <1>6, DiskOnly

\* ota_state_machine_reboot writes again what is visible already.
LEMMA RebootRequestDevice == DeviceInv /\ InstallInv' /\ RebootRequest => DeviceInv'
<1> SUFFICES ASSUME DeviceInv, InstallInv', RebootRequest PROVE DeviceInv'
  OBVIOUS
<1>1. pc = "reboot" /\ UNCHANGED <<power, booted, boot_id, meta, image, rauc, healthy>>
  BY DEF RebootRequest, historyVars
<1>2. /\ m = disk.visible /\ m = disk.stable /\ power # "booting"
      /\ StandsFor(m) /\ RebootAuthorised(m)
  BY <1>1 DEF DeviceInv, ControlInv
<1>3. disk \in [visible : OtaPersistentStates \cup {NoFile},
               stable : OtaPersistentStates \cup {NoFile}]
  BY DEF DeviceInv, InstallInv, TypeOK, AgentTypeOK
<1>4. disk'.visible = m /\ disk'.stable = m
  BY <1>2, <1>3 DEF RebootRequest, SaveSucceeds, SaveFails
<1>5. PICK v : v = disk.visible
  OBVIOUS
<1> SUFFICES ControlInv' /\ PendingStandsFor'
  BY <1>1, <1>2, <1>4, <1>5, DiskOnly
<1>6. CASE ProcessEnds
  BY <1>1, <1>2, <1>6, EndControl
<1>7. CASE pc' = "exit"
  BY <1>1, <1>2, <1>7 DEF ControlInv, PendingStandsFor
<1>8. CASE m.last_error = "NONE" /\ Fail("REBOOT_FAILED", "exit")
  <2>1. m.state \notin {"ERROR", "ROLLBACK"}
    BY <1>2, <1>8 DEF StandsFor, RebootAuthorised
  <2> QED
    BY <1>1, <1>4, <1>8, <2>1, FailControl
<1> QED
  BY <1>6, <1>7, <1>8 DEF RebootRequest, GoTo
-----------------------------------------------------------------------------
(* Steps of the RAUC service.                                              *)

\* The intent to install is safe on the disk, so no view of it asks for a
\* settled or tried device.
LEMMA IntentStands ==
  ASSUME DeviceInv, InstallInv', m.state = "INSTALLING", pc \in {"loop", "installing"},
         UNCHANGED <<power, booted, boot_id, meta, image, disk, healthy>>,
         JobInv', ControlInv', PendingStandsFor'
  PROVE  DeviceInv'
<1>1. disk.visible = m /\ disk.stable = m
  BY DEF DeviceInv, ControlInv
<1>2. SlotInv'
  <2>1. \A s : Native(s)' = Native(s)
    BY DEF Native
  <2> QED
    BY <2>1 DEF DeviceInv, SlotInv, ConfirmedOnlyAfterHealth, FallbackExists
<1>3. PICK v : v = m
  OBVIOUS
<1>4. v.boot_id_before <= boot_id /\ v.state = "INSTALLING"
  BY <1>1, <1>3 DEF DeviceInv, StandsFor
<1>5. StandsFor(v)'
  BY <1>4 DEF StandsFor, IdleStates, PrepareStates, NoFile, ota_persistent_state_init
<1>6. StandsFor(disk.visible)' /\ StandsFor(disk.stable)'
  BY <1>1, <1>3, <1>5
<1> QED
  BY <1>2, <1>6 DEF DeviceInv

\* rauc install is called on a settled device, for the peer of the running slot.
LEMMA InstallCallDevice == DeviceInv /\ InstallInv' /\ InstallCall => DeviceInv'
<1> SUFFICES ASSUME DeviceInv, InstallInv', InstallCall PROVE DeviceInv'
  OBVIOUS
<1>1. /\ pc = "loop" /\ m.state = "INSTALLING" /\ pc' = "installing" /\ m' = m
      /\ UNCHANGED <<power, booted, boot_id, meta, image, disk, healthy>>
  BY DEF InstallCall, InState, GoTo, bootVars
<1>2. /\ Settled /\ HereAndNow(m) /\ power # "booting"
      /\ disk.visible = m /\ disk.stable = m /\ booted \in Slots
  BY <1>1 DEF DeviceInv, ControlInv, InstallInv, TypeOK, DeviceTypeOK
<1>3. /\ rauc'.phase = "started" /\ rauc'.target = Other(booted)
      /\ rauc'.image = [release |-> m.target, attempt |-> m.attempt_id]
  BY <1>2 DEF InstallCall, Settled
<1>4. /\ m.attempt_id # 0 /\ m.previous_slot = booted
      /\ m.expected_candidate_slot = Other(booted)
  BY <1>1, <1>2, RecordsValid, InstalledRecord DEF DeviceInv, InstalledStates, HereAndNow
<1>5. JobInv'
  <2>1. Fallback(booted)'
    BY <1>1, <1>2 DEF Settled, Fallback, Native
  <2>2. rauc'.target \in Slots /\ rauc'.target # booted' /\ Other(rauc'.target) = booted
    BY <1>1, <1>2, <1>3, TwoSlots
  <2>3. Fallback(Other(rauc.target))'
    BY <1>1, <2>1, <2>2 DEF Fallback, Native
  <2>4. rauc'.image # PartialImage
    BY <1>3, <1>4 DEF PartialImage
  <2> QED
    BY <1>3, <2>2, <2>3, <2>4 DEF JobInv
<1>6. ControlInv' /\ PendingStandsFor'
  BY <1>1, <1>2, <1>3, <1>4 DEF ControlInv, PendingStandsFor, HereAndNow
<1> QED
  BY <1>1, <1>5, <1>6, IntentStands

\* The CLI reported success: the candidate is written and activated.
LEMMA InstallSucceedsDevice == DeviceInv /\ InstallInv' /\ InstallSucceeds => DeviceInv'
<1> SUFFICES ASSUME DeviceInv, InstallInv', InstallSucceeds PROVE DeviceInv'
  OBVIOUS
<1>1. /\ pc = "installing" /\ rauc.phase = "done" /\ rauc'.phase = "idle"
      /\ UNCHANGED <<power, booted, boot_id, meta, image, disk, healthy>>
  BY DEF InstallSucceeds, IdleJob, bootVars, historyVars
<1>2. /\ m.state = "INSTALLING" /\ HereAndNow(m) /\ power # "booting" /\ m = disk.visible
      /\ rauc.target = m.expected_candidate_slot /\ m.boot_id_before <= boot_id
      /\ rauc.image = [release |-> m.target, attempt |-> m.attempt_id]
      /\ m \in OtaPersistentStates
  BY <1>1, RecordsValid DEF DeviceInv, ControlInv, StandsFor
<1>3. /\ m.previous_slot \in Slots /\ m.previous_slot = Other(m.expected_candidate_slot)
      /\ m.expected_candidate_slot \in Slots
  BY <1>2, RecordsValid, InstalledRecord DEF DeviceInv, InstalledStates
<1>4. /\ Fallback(m.previous_slot) /\ meta.slots[m.previous_slot].priority < AB_MAX_PRIORITY
      /\ image[m.expected_candidate_slot] = rauc.image
      /\ primary_slot(meta) = m.expected_candidate_slot
      /\ Native(m.expected_candidate_slot) = "pending" /\ m.expected_candidate_slot # booted
  BY <1>1, <1>2, <1>3 DEF DeviceInv, JobInv
<1>5. PICK rec : rec = [m EXCEPT !.state = "REBOOT_PENDING"]
  OBVIOUS
<1>6. /\ rec.state = "REBOOT_PENDING" /\ rec.previous_slot = m.previous_slot
      /\ rec.expected_candidate_slot = m.expected_candidate_slot
      /\ rec.target = m.target /\ rec.attempt_id = m.attempt_id
      /\ rec.boot_id_before = m.boot_id_before
  BY <1>2, <1>5 DEF OtaPersistentStates
<1>7. OnTrial(rec)'
  <2>1. Fallback(rec.previous_slot)'
    BY <1>1, <1>4, <1>6 DEF Fallback, Native
  <2>2. Unjudged(rec)'
    BY <1>1, <1>4, <1>6 DEF Unjudged, Native
  <2> QED
    BY <1>1, <1>2, <1>4, <1>6, <2>1, <2>2 DEF OnTrial, HereAndNow
<1>8. StandsFor(rec)'
  BY <1>1, <1>2, <1>6, <1>7
  DEF StandsFor, IdleStates, PrepareStates, NoFile, ota_persistent_state_init
<1>9. ControlInv' /\ PendingStandsFor'
  <2>1. Transition(rec, "loop")
    BY <1>5 DEF InstallSucceeds, Advance
  <2> QED
    BY <1>1, <1>2, <1>6, <1>8, <2>1, TransitionControl DEF HereAndNow
<1>10. JobInv'
  BY <1>1 DEF JobInv
<1> QED
  BY <1>1, <1>2, <1>9, <1>10, IntentStands

\* The CLI failed or timed out; the service may still be at work.
LEMMA InstallFailsDevice == DeviceInv /\ InstallInv' /\ InstallFails => DeviceInv'
<1> SUFFICES ASSUME DeviceInv, InstallInv', InstallFails PROVE DeviceInv'
  OBVIOUS
<1>1. /\ pc = "installing" /\ Fail("RAUC_INSTALL_FAILED", "loop")
      /\ UNCHANGED <<power, booted, boot_id, meta, image, disk, healthy>>
      /\ rauc' = rauc \/ rauc'.phase = "idle"
  BY DEF InstallFails, IdleJob, bootVars, historyVars
<1>2. m.state = "INSTALLING"
  BY <1>1 DEF DeviceInv, ControlInv
<1>3. ControlInv' /\ PendingStandsFor'
  BY <1>1, <1>2, FailControl
<1>4. JobInv'
  <2>1. CASE rauc'.phase = "idle"
    BY <2>1 DEF JobInv
  <2>2. CASE rauc' = rauc
    BY <1>1, <2>2 DEF DeviceInv, JobInv, Fallback, Native
  <2> QED
    BY <1>1, <2>1, <2>2
<1> QED
  BY <1>1, <1>2, <1>3, <1>4, IntentStands

\* While the service has a job, no record asks for a settled or tried device, and
\* only the promises about the slots and the job are at stake.
LEMMA RaucKeeps ==
  ASSUME DeviceInv, InstallInv', RaucUnchanged, power = "up",
         rauc.phase # "idle", rauc'.phase # "idle",
         rauc'.target = rauc.target, rauc'.image = rauc.image,
         SlotInv', JobInv'
  PROVE  DeviceInv'
<1>1. UNCHANGED <<pc, m, next, cont, disk, power, booted, boot_id>>
  BY DEF RaucUnchanged, agentVars, bootVars
<1>2. \A r : StandsFor(r) => StandsFor(r)'
  BY <1>1 DEF StandsFor, Settled, OnTrial, Armed
<1>3. StandsFor(disk.visible)' /\ StandsFor(disk.stable)'
  BY <1>1, <1>2, SameDisk DEF DeviceInv
<1>6. /\ pc \in {"started", "loop"} => m.state \notin {"HEALTH_CHECK", "MARK_GOOD"}
      /\ pc = "commit" => next.state \notin {"HEALTH_CHECK", "MARK_GOOD"}
  <2>1. \A r : StandsFor(r) => r.state \notin {"HEALTH_CHECK", "MARK_GOOD"}
    BY DEF StandsFor, OnTrial
  <2> QED
    BY <2>1 DEF DeviceInv, ControlInv, PendingStandsFor
<1>4. ControlInv'
  BY <1>1, <1>6 DEF DeviceInv, ControlInv, HereAndNow, Settled
<1>5. PendingStandsFor'
  BY <1>1, <1>2, <1>6 DEF DeviceInv, PendingStandsFor, HereAndNow, Settled
<1> QED
  BY <1>3, <1>4, <1>5 DEF DeviceInv

\* Every step of the service keeps the confirmed peer of its target.
LEMMA RaucDevice == DeviceInv /\ InstallInv' /\ (RaucStep \/ RaucFails) => DeviceInv'
<1> SUFFICES ASSUME DeviceInv, InstallInv', RaucStep \/ RaucFails PROVE DeviceInv'
  OBVIOUS
<1>a. PICK t : t = rauc.target
  OBVIOUS
<1>b. PICK o : o = Other(t)
  OBVIOUS
<1>1. /\ RaucUnchanged /\ power = "up" /\ UNCHANGED <<booted, healthy>>
      /\ rauc.phase \in {"started", "marked", "writing", "written"}
  BY DEF RaucStep, RaucMarkTarget, RaucWrite, RaucActivate, RaucFails, RaucUnchanged,
         bootVars, historyVars
<1>2. /\ meta \in ab_data /\ image \in [Slots -> Images] /\ rauc.image \in Images
      /\ rauc \in [phase : {"idle", "started", "marked", "writing", "written",
                            "done", "failed"},
                   target : Slots \cup {NoSlot}, image : Images]
  BY DEF DeviceInv, InstallInv, TypeOK, DeviceTypeOK
<1>3. /\ rauc'.phase \in {"marked", "writing", "written", "done", "failed"}
      /\ rauc'.target = t /\ rauc'.image = rauc.image
  BY <1>2, <1>a DEF RaucStep, RaucMarkTarget, RaucWrite, RaucActivate, RaucFails
<1>4. t \in Slots /\ t # booted /\ rauc.image # PartialImage /\ Fallback(o)
  BY <1>1, <1>a, <1>b DEF DeviceInv, JobInv
<1>5. o \in Slots /\ o # t /\ \A s \in Slots : s = t \/ s = o
  BY <1>4, <1>b, TwoSlots
<1>6. rauc.phase \in {"marked", "writing", "written"} => Native(t) = "bad"
  BY <1>a DEF DeviceInv, JobInv
<1>7. /\ Native(o) = "confirmed-good" /\ image[o] # PartialImage
      /\ image[o].attempt \in healthy \cup {0}
      /\ \A s \in Slots : image[s] = PartialImage => Native(s) = "bad"
      /\ Native(t) = "confirmed-good" =>
           image[t] # PartialImage /\ image[t].attempt \in healthy \cup {0}
  BY <1>4, <1>5 DEF DeviceInv, SlotInv, ConfirmedOnlyAfterHealth, Fallback
<1> SUFFICES SlotInv' /\ JobInv'
  BY <1>1, <1>3, <1>a, RaucKeeps
\* It is enough to look at the two slots, one by one.
<1>8. ASSUME Native(o)' = "confirmed-good", image'[o] = image[o],
             image'[t] = PartialImage => Native(t)' = "bad",
             Native(t)' = "confirmed-good" =>
               image'[t] # PartialImage /\ image'[t].attempt \in healthy \cup {0}
      PROVE  SlotInv' /\ Fallback(o)'
  <2>1. \A s \in Slots : image'[s] = PartialImage => Native(s)' = "bad"
    BY <1>5, <1>7, <1>8
  <2>2. ConfirmedOnlyAfterHealth'
    BY <1>1, <1>5, <1>7, <1>8 DEF ConfirmedOnlyAfterHealth
  <2>3. FallbackExists'
    BY <1>5, <1>7, <1>8 DEF FallbackExists
  <2> QED
    BY <1>7, <1>8, <2>1, <2>2, <2>3 DEF SlotInv, Fallback
\* And the job's promises, for the phase it reached.
<1>9. ASSUME Fallback(o)',
             rauc'.phase \in {"marked", "writing", "written"} => Native(t)' = "bad",
             rauc'.phase \in {"written", "done"} => image'[t] = rauc.image,
             rauc'.phase = "done" =>
               /\ primary_slot(meta') = t /\ Native(t)' = "pending"
               /\ meta'.slots[o].priority < AB_MAX_PRIORITY
      PROVE  JobInv'
  <2>1. t = rauc'.target /\ o = Other(rauc'.target) /\ rauc'.image = rauc.image
    BY <1>3, <1>b
  <2>2. Fallback(Other(rauc.target))' /\ Native(rauc.target)' = Native(t)'
    BY <1>9, <2>1 DEF Fallback, Native
  <2> QED
    BY <1>1, <1>4, <1>9, <2>1, <2>2 DEF JobInv
<1>10. CASE UNCHANGED <<meta, image>> /\ rauc'.phase = "failed"
  <2>1. \A s : Native(s)' = Native(s)
    BY <1>10 DEF Native
  <2>2. SlotInv'
    BY <1>4, <1>7, <1>8, <1>10, <2>1
  <2> QED
    BY <1>10, <2>2 DEF JobInv
<1>11. CASE meta' = mark_bad(meta, t) /\ UNCHANGED image /\ rauc'.phase = "marked"
  <2>1. Native(t)' = "bad" /\ Native(o)' = Native(o)
    BY <1>2, <1>4, <1>11, <1>b, MutationsSlotwise DEF Native
  <2>2. SlotInv' /\ Fallback(o)'
    BY <1>7, <1>8, <1>11, <2>1
  <2> QED
    BY <1>9, <1>11, <2>1, <2>2
<1>12. CASE /\ UNCHANGED meta /\ rauc.phase \in {"marked", "writing"}
            /\ \/ image' = [image EXCEPT ![t] = PartialImage] /\ rauc'.phase = "writing"
               \/ image' = [image EXCEPT ![t] = rauc.image] /\ rauc'.phase = "written"
  <2>1. Native(t)' = "bad" /\ Native(o)' = Native(o)
    BY <1>6, <1>12 DEF Native
  <2>2. image'[o] = image[o] /\ (rauc'.phase = "written" => image'[t] = rauc.image)
    BY <1>2, <1>4, <1>5, <1>12
  <2>3. SlotInv' /\ Fallback(o)'
    BY <1>7, <1>8, <2>1, <2>2
  <2> QED
    BY <1>9, <1>12, <2>1, <2>2, <2>3
<1>13. CASE /\ rauc.phase = "written" /\ meta' = set_primary(meta, t)
            /\ UNCHANGED image /\ rauc'.phase = "done"
  <2>1. /\ Native(t)' = "pending" /\ Native(o)' = Native(o)
        /\ primary_slot(meta') = t /\ meta'.slots[o].priority < AB_MAX_PRIORITY
    BY <1>2, <1>4, <1>13, <1>b, SetPrimarySelects DEF Native
  <2>2. image[t] = rauc.image
    BY <1>13, <1>a DEF DeviceInv, JobInv
  <2>3. SlotInv' /\ Fallback(o)'
    BY <1>4, <1>7, <1>8, <1>13, <2>1, <2>2
  <2> QED
    BY <1>9, <1>13, <2>1, <2>2, <2>3
<1>14. \/ UNCHANGED <<meta, image>> /\ rauc'.phase = "failed"
       \/ meta' = mark_bad(meta, t) /\ UNCHANGED image /\ rauc'.phase = "marked"
       \/ /\ UNCHANGED meta /\ rauc.phase \in {"marked", "writing"}
          /\ \/ image' = [image EXCEPT ![t] = PartialImage] /\ rauc'.phase = "writing"
             \/ image' = [image EXCEPT ![t] = rauc.image] /\ rauc'.phase = "written"
       \/ /\ rauc.phase = "written" /\ meta' = set_primary(meta, t)
          /\ UNCHANGED image /\ rauc'.phase = "done"
  BY <1>2, <1>a DEF RaucStep, RaucMarkTarget, RaucWrite, RaucActivate, RaucFails
<1> QED
  BY <1>10, <1>11, <1>12, <1>13, <1>14
-----------------------------------------------------------------------------
(* The verdict on the candidate.                                           *)

\* What the device looks like while the candidate is judged: the record is safe
\* on the disk, the previous slot is a fallback, no job is under way.
LEMMA Judgement ==
  ASSUME DeviceInv, pc = "loop", m.state \in {"HEALTH_CHECK", "MARK_GOOD"}
  PROVE  /\ disk.visible = m /\ disk.stable = m /\ OnTrial(m)
         /\ m.boot_id_before <= boot_id /\ m \in OtaPersistentStates
         /\ m.attempt_id # 0 /\ m.previous_slot \in Slots
         /\ m.expected_candidate_slot = Other(m.previous_slot)
         /\ m.expected_candidate_slot \in Slots
         /\ m.previous_slot = Other(m.expected_candidate_slot)
         /\ meta \in ab_data
<1>1. disk.visible = m /\ disk.stable = m
  BY DEF DeviceInv, ControlInv
<1>2. OnTrial(m) /\ m.boot_id_before <= boot_id
  BY <1>1 DEF DeviceInv, StandsFor
<1>3. ota_persistent_state_validate(m) /\ m \in OtaPersistentStates
  BY RecordsValid DEF DeviceInv
<1> QED
  BY <1>1, <1>2, <1>3, InstalledRecord
  DEF InstalledStates, DeviceInv, InstallInv, TypeOK, DeviceTypeOK

\* A verdict changes the candidate's metadata only; the record on trial stays one.
LEMMA VerdictKeeps ==
  ASSUME DeviceInv, InstallInv', pc = "loop", m.state \in {"HEALTH_CHECK", "MARK_GOOD"},
         UNCHANGED <<disk, power, booted, boot_id, image, rauc, healthy>>,
         NEW c, c = m.expected_candidate_slot,
         NEW p, p = m.previous_slot,
         meta'.slots[p] = meta.slots[p],
         \/ Native(c)' = "bad"
         \/ Native(c)' = "confirmed-good" /\ m.attempt_id \in healthy,
         ControlInv', PendingStandsFor'
  PROVE  DeviceInv'
<1>1. /\ disk.visible = m /\ disk.stable = m /\ OnTrial(m) /\ m.attempt_id # 0
      /\ p \in Slots /\ c \in Slots /\ p = Other(c) /\ c = Other(p)
      /\ m.boot_id_before <= boot_id
  BY Judgement
<1>2. /\ rauc.phase = "idle" /\ Fallback(p) /\ meta.slots[p].priority < AB_MAX_PRIORITY
      /\ image[c] = [release |-> m.target, attempt |-> m.attempt_id]
      /\ m.state = "MARK_GOOD" => m.attempt_id \in healthy
  BY <1>1 DEF OnTrial
<1>3. Native(p)' = Native(p) /\ Fallback(p)'
  BY <1>2 DEF Native, Fallback
<1>4. image[c] # PartialImage /\ image[c].attempt = m.attempt_id
  BY <1>1, <1>2 DEF PartialImage
<1>5. \A s \in Slots : s = p \/ s = c
  BY <1>1, TwoSlots
<1>6. SlotInv'
  <2>1. \A s \in Slots : image'[s] = PartialImage => Native(s)' = "bad"
    BY <1>3, <1>4, <1>5 DEF DeviceInv, SlotInv
  <2>2. ConfirmedOnlyAfterHealth'
    BY <1>3, <1>4, <1>5 DEF DeviceInv, SlotInv, ConfirmedOnlyAfterHealth
  <2>3. FallbackExists'
    BY <1>1, <1>3 DEF FallbackExists, Fallback
  <2> QED
    BY <2>1, <2>2, <2>3 DEF SlotInv
<1>7. JobInv'
  BY <1>2 DEF JobInv
<1>8. PICK r : r = m
  OBVIOUS
<1>9. OnTrial(r)'
  <2>1. r.previous_slot = p /\ r.expected_candidate_slot = c /\ r.state \in {"HEALTH_CHECK", "MARK_GOOD"}
    BY <1>8
  <2>2. Fallback(r.previous_slot)'
    BY <1>3, <2>1
  <2> QED
    BY <1>2, <1>8, <2>1, <2>2 DEF OnTrial
<1>10. StandsFor(r)'
  BY <1>1, <1>8, <1>9
  DEF StandsFor, IdleStates, PrepareStates, NoFile, ota_persistent_state_init
<1>11. StandsFor(disk.visible)' /\ StandsFor(disk.stable)'
  BY <1>1, <1>8, <1>10
<1> QED
  BY <1>6, <1>7, <1>11 DEF DeviceInv

\* An unhealthy candidate is marked bad before the rollback is recorded.
LEMMA HealthRejectsDevice == DeviceInv /\ InstallInv' /\ HealthRejects => DeviceInv'
<1> SUFFICES ASSUME DeviceInv, InstallInv', HealthRejects PROVE DeviceInv'
  OBVIOUS
<1>1. /\ pc = "loop" /\ m.state = "HEALTH_CHECK"
      /\ UNCHANGED <<disk, power, booted, boot_id, image, rauc, healthy>>
  BY DEF HealthRejects, InState, bootVars, historyVars
<1>2. /\ disk.visible = m /\ OnTrial(m) /\ m.boot_id_before <= boot_id
      /\ m.previous_slot \in Slots /\ m.expected_candidate_slot \in Slots
      /\ m.previous_slot = Other(m.expected_candidate_slot)
      /\ m \in OtaPersistentStates /\ meta \in ab_data
  BY <1>1, Judgement
<1>3. ASSUME NEW code, Fail(code, "loop")
      PROVE  ControlInv' /\ PendingStandsFor'
  BY <1>1, <1>3, FailControl
<1>4. CASE UNCHANGED meta /\ \E code : Fail(code, "loop")
  BY <1>1, <1>3, <1>4, AgentOnly
<1>5. CASE booted = m.expected_candidate_slot /\ meta' = mark_bad(meta, booted)
  <2>1. PICK c : c = m.expected_candidate_slot
    OBVIOUS
  <2>2. PICK p : p = m.previous_slot
    OBVIOUS
  <2>3. meta'.slots[p] = meta.slots[p] /\ Native(c)' = "bad"
    BY <1>2, <1>5, <2>1, <2>2, MutationsSlotwise DEF Native
  <2>4. Fallback(p)'
    BY <1>1, <1>2, <2>2, <2>3 DEF OnTrial, Fallback, Native
  <2>5. CASE Transition([m EXCEPT !.state = "ROLLBACK", !.last_error = "HEALTH_FAILED",
                                  !.reboot_context = "health_failure"], "reboot")
    <3>1. PICK rec : rec = [m EXCEPT !.state = "ROLLBACK", !.last_error = "HEALTH_FAILED",
                                     !.reboot_context = "health_failure"]
      OBVIOUS
    <3>2. /\ rec.state = "ROLLBACK" /\ rec.last_error = "HEALTH_FAILED"
          /\ rec.reboot_context = "health_failure"
          /\ rec.previous_slot = p /\ rec.expected_candidate_slot = c
          /\ rec.boot_id_before = m.boot_id_before
      BY <1>2, <2>1, <2>2, <3>1 DEF OtaPersistentStates
    <3>3. Armed(rec)'
      BY <1>1, <1>2, <2>3, <2>4, <3>2 DEF Armed, OnTrial
    <3>4. StandsFor(rec)'
      BY <1>1, <1>2, <3>2, <3>3
      DEF StandsFor, IdleStates, PrepareStates, NoFile, ota_persistent_state_init
    <3>5. Transition(rec, "reboot")
      BY <2>5, <3>1
    <3>6. RebootAuthorised(rec) /\ booted = rec.expected_candidate_slot
      BY <1>5, <2>1, <3>2 DEF RebootAuthorised
    <3>7. ControlInv' /\ PendingStandsFor'
      BY <1>1, <3>2, <3>4, <3>5, <3>6, TransitionControl
    <3> QED
      BY <1>1, <2>1, <2>2, <2>3, <3>7, VerdictKeeps
  <2>6. CASE Fail("RAUC_MARK_BAD_FAILED", "loop")
    BY <1>1, <1>3, <2>1, <2>2, <2>3, <2>6, VerdictKeeps
  <2>7. CASE Fail("RAUC_MARK_BAD_FAILED", "loop") /\ UNCHANGED meta
    BY <1>4, <2>7
  <2>8. CASE MarkIdentityFails /\ UNCHANGED meta
    BY <1>4, <2>8 DEF MarkIdentityFails
  <2> QED
    BY <2>5, <2>6, <2>7, <2>8 DEF HealthRejects
<1> QED
  BY <1>4, <1>5 DEF HealthRejects, MarkIdentityFails

\* A healthy candidate is confirmed and then outranks the previous slot.
LEMMA MarkGoodDevice == DeviceInv /\ InstallInv' /\ MarkGood => DeviceInv'
<1> SUFFICES ASSUME DeviceInv, InstallInv', MarkGood PROVE DeviceInv'
  OBVIOUS
<1>1. /\ pc = "loop" /\ m.state = "MARK_GOOD"
      /\ UNCHANGED <<disk, power, booted, boot_id, image, rauc, healthy>>
  BY DEF MarkGood, InState, bootVars, historyVars
<1>2. /\ disk.visible = m /\ OnTrial(m) /\ m.boot_id_before <= boot_id
      /\ m.previous_slot \in Slots /\ m.expected_candidate_slot \in Slots
      /\ m.previous_slot = Other(m.expected_candidate_slot) /\ m.attempt_id # 0
      /\ m \in OtaPersistentStates /\ meta \in ab_data
  BY <1>1, Judgement
<1>3. ASSUME NEW code, Fail(code, "loop")
      PROVE  ControlInv' /\ PendingStandsFor'
  BY <1>1, <1>3, FailControl
<1>4. CASE UNCHANGED meta /\ \E code : Fail(code, "loop")
  BY <1>1, <1>3, <1>4, AgentOnly
<1>5. CASE /\ booted = m.expected_candidate_slot /\ meta' = mark_good(meta, booted)
           /\ \/ Advance("REPORT_SUCCESS")
              \/ Fail("RAUC_MARK_GOOD_FAILED", "loop")
  <2>1. PICK c : c = m.expected_candidate_slot
    OBVIOUS
  <2>2. PICK p : p = m.previous_slot
    OBVIOUS
  <2>3. /\ meta'.slots[p] = meta.slots[p] /\ meta'.slots[c] = ConfirmedGood
        /\ Native(c)' = "confirmed-good"
    BY <1>2, <1>5, <2>1, <2>2, MutationsSlotwise DEF Native
  <2>4. /\ rauc.phase = "idle" /\ Fallback(p) /\ meta.slots[p].priority < AB_MAX_PRIORITY
        /\ image[c] = [release |-> m.target, attempt |-> m.attempt_id]
        /\ m.attempt_id \in healthy
    BY <1>1, <1>2, <2>1, <2>2 DEF OnTrial
  <2>5. Fallback(p)' /\ Fallback(c)'
    BY <1>1, <1>2, <2>3, <2>4 DEF Fallback, Native, PartialImage
  <2>6. Settled'
    <3>1. booted' = c /\ Other(c) = p
      BY <1>1, <1>2, <1>5, <2>1, <2>2
    <3>2. ConfirmedGood.priority = AB_MAX_PRIORITY
      BY DEF ConfirmedGood
    <3>3. meta'.slots[c].priority > meta'.slots[p].priority
      <4>1. meta.slots[p].priority \in Nat
        BY <1>2, <2>2, AbMaxAssumption DEF ab_data, slot_data
      <4> QED
        BY <2>3, <2>4, <3>2, <4>1, AbMaxAssumption
    <3>4. Fallback(booted)'
      BY <2>5, <3>1
    <3> QED
      BY <1>1, <2>4, <3>1, <3>3, <3>4 DEF Settled
  <2>7. CASE Advance("REPORT_SUCCESS")
    <3>1. PICK rec : rec = [m EXCEPT !.state = "REPORT_SUCCESS"]
      OBVIOUS
    <3>2. /\ rec.state = "REPORT_SUCCESS" /\ rec.previous_slot = p
          /\ rec.expected_candidate_slot = c
          /\ rec.target = m.target /\ rec.attempt_id = m.attempt_id
          /\ rec.boot_id_before = m.boot_id_before
      BY <1>2, <2>1, <2>2, <3>1 DEF OtaPersistentStates
    <3>3. OnTrial(rec)'
      BY <1>1, <1>5, <2>1, <2>3, <2>4, <2>5, <2>6, <3>2 DEF OnTrial
    <3>4. StandsFor(rec)'
      BY <1>1, <1>2, <3>2, <3>3
      DEF StandsFor, IdleStates, PrepareStates, NoFile, ota_persistent_state_init
    <3>5. Transition(rec, "loop")
      BY <2>7, <3>1 DEF Advance
    <3>6. ControlInv' /\ PendingStandsFor'
      BY <1>1, <3>2, <3>4, <3>5, TransitionControl
    <3> QED
      BY <1>1, <2>1, <2>2, <2>3, <2>4, <3>6, VerdictKeeps
  <2>8. CASE Fail("RAUC_MARK_GOOD_FAILED", "loop")
    BY <1>1, <1>3, <2>1, <2>2, <2>3, <2>4, <2>8, VerdictKeeps
  <2> QED
    BY <1>5, <2>7, <2>8
<1> QED
  BY <1>4, <1>5 DEF MarkGood, MarkIdentityFails, WrongRelease
-----------------------------------------------------------------------------
(* Power and the bootloader.                                               *)

\* The device goes down, with either view of the state file.
LEMMA PowerDevice == DeviceInv /\ InstallInv' /\ (PowerLoss \/ OrderlyReboot) => DeviceInv'
<1> SUFFICES ASSUME DeviceInv, InstallInv', PowerLoss \/ OrderlyReboot PROVE DeviceInv'
  OBVIOUS
<1>1. /\ ProcessEnds /\ rauc'.phase = "idle" /\ power' = "booting"
      /\ UNCHANGED <<booted, boot_id, meta, image, healthy>>
  BY DEF PowerLoss, OrderlyReboot, DeviceGoesDown, IdleJob, historyVars
<1>2. \A s : Native(s)' = Native(s) /\ (Fallback(s)' <=> Fallback(s))
  BY <1>1 DEF Native, Fallback
<1>3. Settled => Settled'
  BY <1>1, <1>2 DEF Settled
<1>4. \A r : OnTrial(r) => OnTrial(r)'
  <2>1. \A r : Unjudged(r) => Unjudged(r)'
    BY <1>1, <1>2 DEF Unjudged
  <2> QED
    BY <1>1, <1>2, <1>3, <2>1 DEF OnTrial
<1>5. \A r : StandsFor(r) => StandsFor(r)'
  BY <1>1, <1>2, <1>3, <1>4 DEF StandsFor, Armed
<1>6. SlotInv' /\ JobInv'
  BY <1>1, <1>2 DEF DeviceInv, SlotInv, ConfirmedOnlyAfterHealth, FallbackExists, JobInv
<1>7. /\ disk'.visible \in {disk.visible, disk.stable}
      /\ disk'.stable \in {disk.visible, disk.stable}
  <2>1. disk \in [visible : OtaPersistentStates \cup {NoFile},
                 stable : OtaPersistentStates \cup {NoFile}]
    BY DEF DeviceInv, InstallInv, TypeOK, AgentTypeOK
  <2> QED
    BY <2>1 DEF PowerLoss, OrderlyReboot
<1>8. StandsFor(disk.visible)' /\ StandsFor(disk.stable)'
  BY <1>5, <1>7, SameDisk DEF DeviceInv
<1>9. ControlInv' /\ PendingStandsFor'
  BY <1>1, EndControl
<1> QED
  BY <1>6, <1>8, <1>9 DEF DeviceInv

\* A boot attempt keeps confirmed and bad slots, and a settled device comes up on
\* the slot it ran.
LEMMA BootDevice == DeviceInv /\ InstallInv' /\ BootAttempt => DeviceInv'
<1> SUFFICES ASSUME DeviceInv, InstallInv', BootAttempt PROVE DeviceInv'
  OBVIOUS
<1>1. PICK d : d = NormaliseExhausted(meta)
  OBVIOUS
<1>2. PICK slot : slot = primary_slot(d)
  OBVIOUS
<1>3. /\ power = "booting" /\ slot # NoPrimary /\ meta' = ConsumeTry(d, slot)
      /\ UNCHANGED <<pc, m, disk, image, rauc, healthy>>
      /\ \/ booted' = slot /\ boot_id' = boot_id + 1 /\ power' = "up"
         \/ UNCHANGED <<booted, boot_id, power>>
  BY <1>1, <1>2 DEF BootAttempt, agentVars, historyVars
<1>4. /\ pc = "down" /\ rauc.phase = "idle" /\ meta \in ab_data /\ booted \in Slots
      /\ boot_id \in Nat /\ m = ota_persistent_state_init
  BY <1>3 DEF DeviceInv, ControlInv, InstallInv, TypeOK, DeviceTypeOK
<1>5. \A s \in Slots :
        /\ Native(s) = "confirmed-good" => meta'.slots[s] = meta.slots[s]
        /\ Native(s) = "bad" => Native(s)' = "bad"
        /\ Native(s)' = "confirmed-good" => Native(s) = "confirmed-good"
        /\ meta'.slots[s].priority <= meta.slots[s].priority
        /\ s = slot => Native(s)' # "bad"
  BY <1>1, <1>2, <1>3, <1>4, BootKeepsSlots DEF Native
<1>6. \A s \in Slots : Fallback(s) => Fallback(s)' /\ meta'.slots[s] = meta.slots[s]
  BY <1>3, <1>5 DEF Fallback, Native
<1>7. Settled => Settled' /\ booted' = booted
  <2> SUFFICES ASSUME Settled PROVE Settled' /\ booted' = booted
    OBVIOUS
  <2>1. /\ Native(booted) = "confirmed-good" /\ Other(booted) \in Slots
        /\ meta.slots[booted].priority > meta.slots[Other(booted)].priority
        /\ Fallback(booted)
    BY <1>4, TwoSlots DEF Settled, Fallback
  <2>2. d \in ab_data /\ meta.slots[booted] \in slot_data /\ meta.slots[Other(booted)] \in slot_data
    BY <1>1, <1>4, <2>1, MutationsTyped DEF ab_data
  <2>3. /\ d.slots[booted] = meta.slots[booted]
        /\ \/ d.slots[Other(booted)] = meta.slots[Other(booted)]
           \/ d.slots[Other(booted)] = Bad(meta.slots[Other(booted)])
    <3>1. is_bootable(meta.slots[booted])
      BY <2>1, <2>2, NativeStates DEF Native
    <3> QED
      BY <1>1, <1>4, <2>1, <3>1 DEF NormaliseExhausted, ab_data
  <2>4. d.slots[booted].priority > d.slots[Other(booted)].priority
    <3>1. meta.slots[booted].priority \in Nat /\ meta.slots[Other(booted)].priority \in Nat
      BY <2>2, AbMaxAssumption DEF slot_data
    <3>2. Bad(meta.slots[Other(booted)]).priority = 0
      BY DEF Bad
    <3> QED
      BY <2>1, <2>3, <3>1, <3>2
  <2>5. slot = booted
    BY <1>2, <1>4, <2>1, <2>2, <2>3, <2>4, Selection DEF Native
  <2>6. booted' = booted
    BY <1>3, <2>5
  <2>7. Fallback(booted)'
    BY <1>4, <1>6, <2>1, <2>6
  <2>8. meta'.slots[booted].priority > meta'.slots[Other(booted)].priority
    <3>1. meta' \in ab_data
      BY DEF InstallInv, TypeOK, DeviceTypeOK
    <3>2. /\ meta.slots[booted].priority \in Nat /\ meta.slots[Other(booted)].priority \in Nat
          /\ meta'.slots[Other(booted)].priority \in Nat
      BY <2>1, <2>2, <3>1, AbMaxAssumption DEF slot_data, ab_data
    <3>3. /\ meta'.slots[booted] = meta.slots[booted]
          /\ meta'.slots[Other(booted)].priority <= meta.slots[Other(booted)].priority
      BY <1>4, <1>5, <1>6, <2>1
    <3> QED
      BY <2>1, <3>2, <3>3
  <2> QED
    BY <1>3, <1>4, <2>6, <2>7, <2>8 DEF Settled
<1>8. SlotInv'
  <2>1. \A s \in Slots : image'[s] = PartialImage => Native(s)' = "bad"
    BY <1>3, <1>5 DEF DeviceInv, SlotInv
  <2>2. ConfirmedOnlyAfterHealth'
    BY <1>3, <1>5 DEF DeviceInv, SlotInv, ConfirmedOnlyAfterHealth
  <2>3. FallbackExists'
    BY <1>6 DEF DeviceInv, SlotInv, FallbackExists, Fallback
  <2> QED
    BY <2>1, <2>2, <2>3 DEF SlotInv
<1>9. JobInv' /\ ControlInv' /\ PendingStandsFor'
  BY <1>3, <1>4 DEF JobInv, ControlInv, PendingStandsFor
<1>10. ASSUME NEW r, StandsFor(r), r = NoFile \/ ota_persistent_state_validate(r)
       PROVE  StandsFor(r)'
  <2>1. r.boot_id_before \in Nat
    <3>1. NoFile.boot_id_before = 0
      BY DEF NoFile, ota_persistent_state_init
    <3> QED
      BY <1>10, <3>1 DEF ota_persistent_state_validate, OtaPersistentStates
  <2>2. r.boot_id_before <= boot_id' /\ (power' = "up" => r.boot_id_before # boot_id')
    BY <1>3, <1>4, <1>10, <2>1 DEF StandsFor
  <2>3. r.state \in InstalledStates => r.previous_slot \in Slots /\ r.expected_candidate_slot \in Slots
    <3>1. NoFile.state \notin InstalledStates
      BY DEF NoFile, ota_persistent_state_init, InstalledStates
    <3> QED
      BY <1>10, <3>1, InstalledRecord
  <2>6. r.state \in InstalledStates /\ Unjudged(r) => Unjudged(r)'
    <3>1. PICK c : c = r.expected_candidate_slot
      OBVIOUS
    <3>2. r.state \in InstalledStates /\ Native(c) # "confirmed-good" =>
            Native(c)' # "confirmed-good" /\ (c = slot => Native(c)' # "bad")
      BY <1>5, <2>3, <3>1
    <3>3. power' = "up" => booted' = slot
      BY <1>3
    <3> QED
      BY <3>1, <3>2, <3>3 DEF Unjudged, Native
  <2>4. r.state \in InstalledStates /\ OnTrial(r) => OnTrial(r)'
    BY <1>3, <1>4, <1>6, <1>7, <2>2, <2>3, <2>6 DEF OnTrial
  <2>5. r.state \in InstalledStates /\ Armed(r) => Armed(r)'
    BY <1>3, <1>5, <1>6, <2>3 DEF Armed
  <2> QED
    BY <1>7, <1>10, <2>2, <2>4, <2>5 DEF StandsFor, InstalledStates
<1>11. StandsFor(disk.visible)' /\ StandsFor(disk.stable)'
  BY <1>3, <1>10, RecordsValid DEF DeviceInv
<1> QED
  BY <1>8, <1>9, <1>11 DEF DeviceInv
-----------------------------------------------------------------------------
(* The theorems.                                                           *)

\* The factory states satisfy the inductive invariant.
LEMMA InitDeviceInv == Init => DeviceInv
<1> SUFFICES ASSUME Init PROVE DeviceInv
  OBVIOUS
<1>1. /\ pc = "down" /\ m = ota_persistent_state_init /\ power = "up" /\ boot_id = 1
      /\ disk.visible = NoFile /\ disk.stable = NoFile /\ rauc.phase = "idle"
      /\ booted \in Slots /\ image = [s \in Slots |-> [release |-> 1, attempt |-> 0]]
  BY DEF Init, IdleJob
<1>2. Other(booted) \in Slots /\ Other(booted) # booted
  BY <1>1, TwoSlots
<1>3. /\ meta.slots[booted] = ConfirmedGood
      /\ meta.slots[Other(booted)] \in FactoryPeer
  BY <1>1, <1>2 DEF Init
<1>4. /\ \A s \in Slots : image[s] # PartialImage /\ image[s].attempt = 0
  BY <1>1 DEF PartialImage
<1>5. native_state(ConfirmedGood) = "confirmed-good"
  BY AbMaxAssumption DEF native_state, ConfirmedGood
<1>6. Fallback(booted)
  BY <1>1, <1>3, <1>4, <1>5 DEF Fallback, Native
<1>7. meta.slots[booted].priority > meta.slots[Other(booted)].priority
  BY <1>3, AbMaxAssumption DEF ConfirmedGood, FactoryPeer
<1>8. Settled
  BY <1>1, <1>6, <1>7 DEF Settled
<1>9. SlotInv /\ JobInv
  BY <1>1, <1>4, <1>6 DEF SlotInv, JobInv, ConfirmedOnlyAfterHealth, FallbackExists, Fallback
<1>10. StandsFor(NoFile)
  <2>1. NoFile.boot_id_before <= boot_id
    BY <1>1 DEF NoFile, ota_persistent_state_init
  <2> QED
    BY <1>8, <2>1, QuietStands
<1>11. ControlInv /\ PendingStandsFor
  BY <1>1 DEF ControlInv, PendingStandsFor
<1> QED
  BY <1>1, <1>9, <1>10, <1>11, InitInstallInv DEF DeviceInv

\* DeviceInv is an invariant: whatever the agent, the RAUC service, the bootloader
\* and the faults do, every record a restart can find fits the device.
THEOREM DeviceInvariant == Spec => []DeviceInv
<1>1. ASSUME DeviceInv, [Next]_vars
      PROVE  DeviceInv'
  <2>1. InstallInv'
    BY <1>1, CoreInductive, DeviceInductive DEF DeviceInv, InstallInv, TypeOK, Core
  <2>2. CASE UNCHANGED vars
    <3>1. UNCHANGED <<agentVars, disk, power, booted, boot_id, meta, image, rauc, healthy>>
      BY <2>2 DEF vars, agentVars
    <3> QED
      BY <1>1, <2>1, <3>1, IdleControl, AgentOnly
  <2>3. CASE AgentStep
    BY <1>1, <2>1, <2>3, OpenDevice, RecoverDevice, StartedDevice, CommitDevice, PlainSteps,
       QuietPhases, RaucVerifyDevice, InstallCallDevice, InstallSucceedsDevice,
       InstallFailsDevice, HealthPassesDevice, HealthRejectsDevice, MarkGoodDevice,
       RebootRequestDevice
    DEF AgentStep, StartAtBoot
  <2>4. CASE Environment
    BY <1>1, <2>1, <2>4, OpenDevice, StartFailsDevice, PlainSteps, RaucDevice,
       PowerDevice, BootDevice
    DEF Environment, OperatorStart
  <2> QED
    BY <1>1, <2>2, <2>3, <2>4 DEF Next
<1> QED
  BY <1>1, InitDeviceInv, PTL DEF Spec

\* A slot is confirmed with an attempt's image only after that attempt's candidate
\* passed its health check, and never half written.
THEOREM ConfirmationNeedsHealth == Spec => []ConfirmedOnlyAfterHealth
<1>1. DeviceInv => ConfirmedOnlyAfterHealth
  BY DEF DeviceInv, SlotInv
<1> QED
  BY <1>1, DeviceInvariant, PTL

\* At every moment some slot is confirmed and whole.
THEOREM AlwaysAFallback == Spec => []FallbackExists
<1>1. DeviceInv => FallbackExists
  BY DEF DeviceInv, SlotInv
<1> QED
  BY <1>1, DeviceInvariant, PTL

\* The bootloader's next choice is a slot with a whole image, at whatever moment
\* the power fails.
THEOREM SelectsWholeImage == Spec => []NeverSelectsPartialImage
<1>1. ASSUME DeviceInv PROVE NeverSelectsPartialImage
  <2> DEFINE d == NormaliseExhausted(meta)
             p == primary_slot(d)
  <2>1. meta \in ab_data /\ d \in ab_data
    BY <1>1, MutationsTyped DEF DeviceInv, InstallInv, TypeOK, DeviceTypeOK
  <2>2. \A s \in Slots : /\ meta.slots[s] \in slot_data
                        /\ d.slots[s] = IF ~is_bootable(meta.slots[s])
                                        THEN Bad(meta.slots[s]) ELSE meta.slots[s]
    BY <2>1 DEF NormaliseExhausted, ab_data
  <2>3. \A s \in Slots : is_bootable(d.slots[s]) <=> is_bootable(meta.slots[s])
    <3>1. \A x : ~is_bootable(Bad(x))
      BY DEF Bad, is_bootable
    <3> QED
      BY <2>2, <3>1
  <2> HIDE DEF d
  <2>4. p # NoPrimary
    <3>1. PICK s \in Slots : Native(s) = "confirmed-good"
      BY <1>1 DEF DeviceInv, SlotInv, FallbackExists
    <3>2. is_bootable(meta.slots[s])
      BY <2>2, <3>1, NativeStates DEF Native
    <3> QED
      BY <2>3, <3>2, PrimaryExists
  <2>5. p \in Slots /\ is_bootable(d.slots[p])
    BY <2>1, <2>4, Selection
  <2> HIDE DEF p
  <2>6. Native(p) # "bad"
    BY <2>2, <2>3, <2>5, NativeStates DEF Native
  <2>7. image[p] # PartialImage
    BY <1>1, <2>5, <2>6 DEF DeviceInv, SlotInv
  <2> QED
    BY <2>4, <2>7 DEF NeverSelectsPartialImage, p, d
<1> QED
  BY <1>1, DeviceInvariant, PTL

\* A recorded health rollback, or one about to be followed, was armed: the
\* previous slot is the bootloader's choice.
LEMMA ArmedSelectsPrevious ==
  ASSUME InstallInv, NEW r, ota_persistent_state_validate(r), r.state = "ROLLBACK", Armed(r)
  PROVE  primary_slot(meta) = r.previous_slot
<1>1. r.previous_slot \in Slots /\ r.expected_candidate_slot = Other(r.previous_slot)
  BY InstalledRecord DEF InstalledStates
<1>2. meta \in ab_data
  BY DEF InstallInv, TypeOK, DeviceTypeOK
<1>3. /\ native_state(meta.slots[r.previous_slot]) = "confirmed-good"
      /\ native_state(meta.slots[Other(r.previous_slot)]) = "bad"
  BY <1>1 DEF Armed, Fallback, Native
<1> QED
  BY <1>1, <1>2, <1>3, Selection

\* The durable obligation to report success stands only for a confirmed candidate
\* that holds the attempt's image.
THEOREM SuccessIsConfirmed == Spec => []SuccessMeansConfirmed
<1>1. DeviceInv => SuccessMeansConfirmed
  BY DEF DeviceInv, StandsFor, OnTrial, Settled, Fallback, SuccessMeansConfirmed
<1> QED
  BY <1>1, DeviceInvariant, PTL

\* A recorded health rollback was armed first: the candidate is bad and the
\* previous slot next in line.
THEOREM RollbackIsArmed == Spec => []RollbackArmed
<1>1. ASSUME DeviceInv PROVE RollbackArmed
  <2>1. PICK r : r = disk.visible
    OBVIOUS
  <2>2. CASE r.state = "ROLLBACK" /\ r.reboot_context = "health_failure"
    <3>1. Armed(r)
      BY <1>1, <2>1, <2>2 DEF DeviceInv, StandsFor
    <3>2. r # NoFile
      BY <2>2 DEF NoFile, ota_persistent_state_init
    <3>3. ota_persistent_state_validate(r)
      BY <1>1, <2>1, <3>2, RecordsValid DEF DeviceInv
    <3>4. primary_slot(meta) = r.previous_slot
      BY <1>1, <2>2, <3>1, <3>3, ArmedSelectsPrevious DEF DeviceInv
    <3> QED
      BY <2>1, <3>1, <3>4 DEF RollbackArmed, Armed
  <2> QED
    BY <2>1, <2>2 DEF RollbackArmed
<1> QED
  BY <1>1, DeviceInvariant, PTL

\* Which steps write or sync the state file.
LEMMA DiskWriters ==
  ASSUME [Next]_vars
  PROVE  \/ UNCHANGED disk \/ Commit \/ Open \/ StartFails \/ RebootRequest
         \/ PowerLoss \/ OrderlyReboot
BY DEF Next, AgentStep, Environment, StartAtBoot, OperatorStart, Recover, Started, Exit,
       Idle, CheckNetwork, CheckUpdateNothing, CheckUpdateFound, CheckUpdateFails,
       PrecheckPhase, DownloadPhase, RaucVerify, InstallCall, InstallSucceeds,
       InstallFails, HealthPasses, HealthRejects, MarkGood, ReportSuccess,
       ReportTerminal, RebootPending, RaucStep, RaucMarkTarget, RaucWrite, RaucActivate,
       RaucFails, RaucUnchanged, Stop, Kill, BootAttempt, OutsideUnchanged, vars

\* What they leave visible.
LEMMA DiskSteps ==
  ASSUME DeviceInv, [Next]_vars
  PROVE  \/ disk'.visible = disk.visible
         \/ power' = "booting"
         \/ pc = "commit" /\ m = disk.visible /\ m.state \notin {"ERROR", "ROLLBACK"}
         \/ disk.visible = NoFile
<1>1. disk \in [visible : OtaPersistentStates \cup {NoFile},
               stable : OtaPersistentStates \cup {NoFile}]
  BY DEF DeviceInv, InstallInv, TypeOK, AgentTypeOK
<1>2. CASE Commit
  BY <1>2 DEF Commit, DeviceInv, ControlInv, PendingStandsFor
<1>3. CASE Open \/ StartFails
  BY <1>1, <1>3 DEF Open, StartFails, ota_storage_prepare
<1>4. CASE RebootRequest
  <2>1. m = disk.visible
    BY <1>4 DEF RebootRequest, DeviceInv, ControlInv
  <2> QED
    BY <1>1, <1>4, <2>1 DEF RebootRequest, SaveSucceeds, SaveFails
<1>5. CASE PowerLoss \/ OrderlyReboot
  BY <1>5 DEF PowerLoss, OrderlyReboot, DeviceGoesDown
<1> QED
  BY <1>2, <1>3, <1>4, <1>5, DiskWriters

\* A terminal record, with the cause it carries, is not replaced while the device
\* is up.
THEOREM TerminalStays == Spec => TerminalIsFinal
<1>1. ASSUME DeviceInv, [Next]_vars
      PROVE  [ disk.visible.state \in {"ERROR", "ROLLBACK"} /\ power' = "up"
                 => disk'.visible = disk.visible ]_vars
  <2>1. NoFile.state \notin {"ERROR", "ROLLBACK"}
    BY DEF NoFile, ota_persistent_state_init
  <2> QED
    BY <1>1, <2>1, DiskSteps
<1> QED
  BY <1>1, DeviceInvariant, PTL DEF Spec, TerminalIsFinal

\* The agent reboots only into a freshly written candidate, in the boot that
\* installed it, or away from a candidate already marked bad.
THEOREM RebootsAreArmed == Spec => RebootOnlyWhenArmed
<1> DEFINE Armable == LET d == disk'.stable IN
        \/ /\ d.state = "REBOOT_PENDING"
           /\ d.boot_id_before = boot_id
           /\ primary_slot(meta) = d.expected_candidate_slot
           /\ image[d.expected_candidate_slot].attempt = d.attempt_id
        \/ /\ d.state = "ROLLBACK"
           /\ booted = d.expected_candidate_slot
           /\ primary_slot(meta) = d.previous_slot
<1>1. ASSUME DeviceInv, [Next]_vars, ~rebooting, rebooting'
      PROVE  Armable
  <2>1. RebootRequest
    BY <1>1
    DEF Next, AgentStep, Environment, StartAtBoot, OperatorStart, Open, Recover, Started,
        Commit, Exit, Idle, CheckNetwork, CheckUpdateNothing, CheckUpdateFound,
        CheckUpdateFails, PrecheckPhase, DownloadPhase, RaucVerify, InstallCall,
        InstallSucceeds, InstallFails, HealthPasses, HealthRejects, MarkGood,
        ReportSuccess, ReportTerminal, RebootPending, StartFails, RaucStep,
        RaucMarkTarget, RaucWrite, RaucActivate, RaucFails, RaucUnchanged, Stop, Kill,
        PowerLoss, OrderlyReboot, DeviceGoesDown, BootAttempt, OutsideUnchanged,
        bootVars, vars
  <2>2. SaveSucceeds(m) /\ pc = "reboot"
    BY <1>1, <2>1 DEF RebootRequest
  <2>3. disk'.stable = m
    BY <2>2 DEF SaveSucceeds
  <2>4. /\ m = disk.visible /\ StandsFor(m) /\ power = "up" /\ RebootAuthorised(m)
        /\ m.state = "ROLLBACK" => booted = m.expected_candidate_slot
        /\ m.state = "REBOOT_PENDING" => m.boot_id_before = boot_id
    BY <1>1, <2>2 DEF DeviceInv, ControlInv, InstallInv, TypeOK, DeviceTypeOK
  <2>5. CASE m.state = "REBOOT_PENDING"
    BY <2>3, <2>4, <2>5 DEF StandsFor, OnTrial
  <2>6. CASE m.state = "ROLLBACK" /\ m.reboot_context = "health_failure"
    <3>1. primary_slot(meta) = m.previous_slot
      BY <1>1, <2>4, <2>6, RecordsValid, ArmedSelectsPrevious DEF DeviceInv, StandsFor
    <3> QED
      BY <2>3, <2>4, <2>6, <3>1
  <2> QED
    BY <2>4, <2>5, <2>6 DEF RebootAuthorised
<1>2. ASSUME DeviceInv, [Next]_vars
      PROVE  [ ~rebooting /\ rebooting' => Armable ]_vars
  <2> HIDE DEF Armable
  <2> QED
    BY <1>1, <1>2
<1> QED
  BY <1>2, DeviceInvariant, PTL DEF Spec, RebootOnlyWhenArmed
-----------------------------------------------------------------------------
(* Reports.  A report is sent of a record that is in both views of the     *)
(* disk: the start synced what it loaded, and a save that failed ended the *)
(* process.                                                                *)

\* A reported success is left behind for good; a reported failure stays on the
\* disk for good, in both views.
ReportInv ==
  /\ \A a \in Attempts : <<a, "success">> \in reported =>
       /\ a <= attempts
       /\ \A r \in {disk.visible, disk.stable} :
            r.attempt_id = a => r.state = "REPORT_SUCCESS"
       /\ pc = "commit" => next.attempt_id # a
  /\ \A a \in Attempts : <<a, "failure">> \in reported =>
       \A r \in {disk.visible, disk.stable} :
         r.attempt_id = a /\ r.state \in {"ERROR", "ROLLBACK"}

\* A step that hands a record over keeps the attempt of the loaded one, unless it
\* resets the record or draws a fresh attempt; a success to be reported is only
\* ever reset.
LEMMA PendingAttempt ==
  ASSUME DeviceInv, [Next]_vars, pc' = "commit"
  PROVE  \/ pc = "commit" /\ next' = next
         \/ next' = ota_persistent_state_init
         \/ next'.attempt_id = attempts + 1
         \/ /\ next'.attempt_id = m.attempt_id
            /\ m = disk.visible /\ m.state # "REPORT_SUCCESS"
<1>1. m \in OtaPersistentStates
  BY DEF DeviceInv, InstallInv, TypeOK, AgentTypeOK
<1>2. ASSUME NEW code, NEW after, Fail(code, after)
      PROVE  next'.attempt_id = m.attempt_id
  BY <1>1, <1>2 DEF Fail, Transition, ErrorRecord, OtaPersistentStates
<1>3. ASSUME NEW st, Advance(st)
      PROVE  next'.attempt_id = m.attempt_id
  BY <1>1, <1>3 DEF Advance, Transition, OtaPersistentStates
<1>4. pc \notin {"down", "exit"} => m = disk.visible
  BY DEF DeviceInv, ControlInv
<1>5. CASE Recover
  <2>1. pc = "recover"
    BY <1>5 DEF Recover
  <2>2. next'.attempt_id = m.attempt_id /\ m.state # "REPORT_SUCCESS"
    BY <1>1, <1>2, <1>5
    DEF Recover, RecoverReplaySafe, RecoverInterrupted, RecoverSameBoot, RecoverNewBoot,
        RecoverNewSlot, GoTo, Transition, ReplaySafeStates, OtaPersistentStates
  <2> QED
    BY <1>4, <2>1, <2>2
<1>6. CASE CheckUpdateFound
  BY <1>1, <1>6 DEF CheckUpdateFound, Transition, OtaPersistentStates
<1>7. CASE CheckUpdateNothing
  BY <1>7 DEF CheckUpdateNothing, Transition
<1>8. CASE \/ Idle \/ CheckNetwork \/ CheckUpdateFails \/ PrecheckPhase \/ DownloadPhase
  <2>1. pc = "loop" /\ m.state # "REPORT_SUCCESS"
    BY <1>8 DEF Idle, CheckNetwork, CheckUpdateFails, PrecheckPhase, DownloadPhase, InState
  <2>2. next'.attempt_id = m.attempt_id
    BY <1>2, <1>3, <1>8
    DEF Idle, CheckNetwork, CheckUpdateFails, PrecheckPhase, DownloadPhase
  <2> QED
    BY <1>4, <2>1, <2>2
<1>9. CASE RaucVerify
  <2>1. pc = "loop" /\ m.state # "REPORT_SUCCESS"
    BY <1>9 DEF RaucVerify, InState
  <2>2. next'.attempt_id = m.attempt_id
    BY <1>1, <1>2, <1>9 DEF RaucVerify, Transition, OtaPersistentStates
  <2> QED
    BY <1>4, <2>1, <2>2
<1>10. CASE InstallSucceeds \/ InstallFails
  <2>1. pc = "installing" /\ m.state # "REPORT_SUCCESS"
    BY <1>10 DEF InstallSucceeds, InstallFails, DeviceInv, ControlInv
  <2>2. next'.attempt_id = m.attempt_id
    BY <1>2, <1>3, <1>10 DEF InstallSucceeds, InstallFails
  <2> QED
    BY <1>4, <2>1, <2>2
<1>11. CASE HealthPasses \/ HealthRejects \/ MarkGood
  <2>1. pc = "loop" /\ m.state # "REPORT_SUCCESS"
    BY <1>11 DEF HealthPasses, HealthRejects, MarkGood, InState
  <2>2. next'.attempt_id = m.attempt_id
    <3>1. CASE Transition([m EXCEPT !.state = "ROLLBACK", !.last_error = "HEALTH_FAILED",
                                    !.reboot_context = "health_failure"], "reboot")
      BY <1>1, <3>1 DEF Transition, OtaPersistentStates
    <3> QED
      BY <1>2, <1>3, <1>11, <3>1
      DEF HealthPasses, HealthRejects, MarkGood, MarkIdentityFails, WrongRelease
  <2> QED
    BY <1>4, <2>1, <2>2
<1>12. CASE ReportSuccess \/ ReportTerminal
  BY <1>12 DEF ReportSuccess, ReportTerminal, Transition, GoTo, agentVars
<1>13. CASE RebootRequest
  <2>1. pc = "reboot" /\ RebootAuthorised(m)
    BY <1>13 DEF RebootRequest, DeviceInv, ControlInv
  <2>2. next'.attempt_id = m.attempt_id
    BY <1>2, <1>13 DEF RebootRequest, ProcessEnds, GoTo
  <2> QED
    BY <1>4, <2>1, <2>2 DEF RebootAuthorised
<1>14. CASE Commit
  BY <1>14 DEF Commit, GoTo, DeviceInv, PendingStandsFor
<1>15. CASE \/ Open \/ Started \/ Exit \/ InstallCall \/ RebootPending \/ Stop \/ Kill
            \/ PowerLoss \/ OrderlyReboot
  BY <1>15 DEF Open, Started, Exit, InstallCall, RebootPending, Stop, Kill, PowerLoss,
               OrderlyReboot, DeviceGoesDown, ProcessEnds, GoTo, agentVars
<1>16. CASE \/ StartFails \/ RaucStep \/ RaucFails \/ BootAttempt \/ UNCHANGED vars
  BY <1>16 DEF StartFails, RaucStep, RaucMarkTarget, RaucWrite, RaucActivate, RaucFails,
               RaucUnchanged, BootAttempt, agentVars, vars
<1> QED
  BY <1>5, <1>6, <1>7, <1>8, <1>9, <1>10, <1>11, <1>12, <1>13, <1>14, <1>15, <1>16
  DEF Next, AgentStep, Environment, StartAtBoot, OperatorStart

\* Where a record that a step leaves in a view of the disk comes from: it was in
\* one before, or is the pending record, or the first one.
LEMMA ViewSteps ==
  ASSUME DeviceInv, [Next]_vars, NEW r \in {disk'.visible, disk'.stable}
  PROVE  \/ r \in {disk.visible, disk.stable}
         \/ Commit /\ r = next /\ m = disk.visible /\ m.state \notin {"ERROR", "ROLLBACK"}
         \/ disk.visible = NoFile /\ r = ota_persistent_state_init
<1>1. disk \in [visible : OtaPersistentStates \cup {NoFile},
               stable : OtaPersistentStates \cup {NoFile}]
  BY DEF DeviceInv, InstallInv, TypeOK, AgentTypeOK
<1>2. CASE Commit
  <2>1. m = disk.visible /\ m.state \notin {"ERROR", "ROLLBACK"}
    BY <1>2 DEF Commit, DeviceInv, ControlInv, PendingStandsFor
  <2>2. UNCHANGED disk \/ SaveSucceeds(next) \/ SaveFails(disk, next)
    BY <1>2 DEF Commit
  <2>3. disk'.visible \in {disk.visible, next} /\ disk'.stable \in {disk.stable, next}
    BY <1>1, <2>2 DEF SaveSucceeds, SaveFails
  <2> QED
    BY <1>2, <2>1, <2>3
<1>3. CASE Open
  BY <1>3, OpenDisk DEF DeviceInv, InstallInv, TypeOK
<1>6. CASE StartFails
  BY <1>1, <1>6 DEF StartFails, ota_storage_prepare
<1>4. CASE RebootRequest
  <2>1. m = disk.visible
    BY <1>4 DEF RebootRequest, DeviceInv, ControlInv
  <2> QED
    BY <1>1, <1>4, <2>1 DEF RebootRequest, SaveSucceeds, SaveFails
<1>5. CASE PowerLoss \/ OrderlyReboot
  BY <1>1, <1>5 DEF PowerLoss, OrderlyReboot
<1> QED
  BY <1>2, <1>3, <1>4, <1>5, <1>6, DiskWriters

\* Which steps deliver a report, of which record.
LEMMA ReportSteps ==
  ASSUME DeviceInv, [Next]_vars
  PROVE  \/ UNCHANGED reported
         \/ /\ ReportSuccess /\ m.attempt_id # 0 /\ UNCHANGED disk
            /\ m = disk.visible /\ m = disk.stable
            /\ m.state = "REPORT_SUCCESS" /\ reported' = reported \cup {<<m.attempt_id, "success">>}
         \/ /\ ReportTerminal /\ m.attempt_id # 0 /\ UNCHANGED disk
            /\ m = disk.visible /\ m = disk.stable /\ m.state \in {"ERROR", "ROLLBACK"}
            /\ reported' = reported \cup {<<m.attempt_id, "failure">>}
<1>1. CASE ReportSuccess
  <2>1. m = disk.visible /\ m = disk.stable /\ m.state = "REPORT_SUCCESS" /\ UNCHANGED disk
    BY <1>1 DEF ReportSuccess, InState, OutsideUnchanged, DeviceInv, ControlInv
  <2> QED
    BY <1>1, <2>1 DEF ReportSuccess, Delivered
<1>2. CASE ReportTerminal
  <2>1. m = disk.visible /\ m = disk.stable /\ m.state \in {"ERROR", "ROLLBACK"} /\ UNCHANGED disk
    BY <1>2 DEF ReportTerminal, InState, OutsideUnchanged, DeviceInv, ControlInv
  <2> QED
    BY <1>2, <2>1 DEF ReportTerminal, Delivered
<1>3. ReportSuccess \/ ReportTerminal \/ UNCHANGED reported
  BY DEF Next, AgentStep, Environment, StartAtBoot, OperatorStart, Open, Recover, Started,
         Commit, Exit, Idle, CheckNetwork, CheckUpdateNothing, CheckUpdateFound,
         CheckUpdateFails, PrecheckPhase, DownloadPhase, RaucVerify, InstallCall,
         InstallSucceeds, InstallFails, HealthPasses, HealthRejects, MarkGood,
         RebootPending, RebootRequest, StartFails, RaucStep, RaucMarkTarget, RaucWrite,
         RaucActivate, RaucFails, RaucUnchanged, Stop, Kill, PowerLoss, OrderlyReboot,
         DeviceGoesDown, BootAttempt, historyVars, vars
<1> QED
  BY <1>1, <1>2, <1>3

\* Attempt ids are never taken back.
LEMMA AttemptsGrow ==
  ASSUME InstallInv, [Next]_vars
  PROVE  attempts \in Nat /\ attempts' \in {attempts, attempts + 1}
<1>1. attempts \in Nat
  BY OtaAgentAssumption DEF InstallInv, TypeOK, AgentTypeOK
<1>2. attempts' \in {attempts, attempts + 1}
  BY DEF Next, AgentStep, Environment, StartAtBoot, OperatorStart, Open, Recover, Started,
         Commit, Exit, Idle, CheckNetwork, CheckUpdateNothing, CheckUpdateFound,
         CheckUpdateFails, PrecheckPhase, DownloadPhase, RaucVerify, InstallCall,
         InstallSucceeds, InstallFails, HealthPasses, HealthRejects, MarkGood,
         ReportSuccess, ReportTerminal, RebootPending, RebootRequest, StartFails, RaucStep,
         RaucMarkTarget, RaucWrite, RaucActivate, RaucFails, RaucUnchanged, Stop, Kill,
         PowerLoss, OrderlyReboot, DeviceGoesDown, BootAttempt, vars
<1> QED
  BY <1>1, <1>2

\* Every step keeps ReportInv.
LEMMA ReportInductive ==
  ASSUME DeviceInv, ReportInv, [Next]_vars
  PROVE  ReportInv'
<1>2. attempts \in Nat /\ attempts' \in {attempts, attempts + 1}
  BY AttemptsGrow DEF DeviceInv
<1>3. \A a \in Attempts : a \in Nat /\ a # 0
  BY OtaAgentAssumption DEF Attempts
<1>4. m \in OtaPersistentStates /\ m.attempt_id <= attempts
  BY RecordsValid DEF DeviceInv, InstallInv, AttemptInv, RecordInv
<1>5. ota_persistent_state_init.attempt_id = 0 /\ NoFile.state = "MISSING"
  BY DEF ota_persistent_state_init, NoFile
<1>6. pc' = "commit" =>
        \/ pc = "commit" /\ next' = next
        \/ next'.attempt_id = 0
        \/ next'.attempt_id = attempts + 1
        \/ next'.attempt_id = m.attempt_id /\ m = disk.visible /\ m.state # "REPORT_SUCCESS"
  BY <1>5, PendingAttempt
<1>7. Commit => pc = "commit"
  BY DEF Commit
<1>9. ReportSuccess /\ pc' = "commit" => next'.attempt_id = 0
  BY <1>5 DEF ReportSuccess, InState, Transition, GoTo, agentVars
<1>10. ASSUME NEW a \in Attempts, <<a, "success">> \in reported'
       PROVE  /\ a <= attempts'
              /\ \A r \in {disk'.visible, disk'.stable} :
                   r.attempt_id = a => r.state = "REPORT_SUCCESS"
              /\ pc' = "commit" => next'.attempt_id # a
  <2>1. CASE <<a, "success">> \in reported
    <3>1. /\ a <= attempts /\ a \in Nat /\ a # 0
          /\ \A r \in {disk.visible, disk.stable} :
               r.attempt_id = a => r.state = "REPORT_SUCCESS"
          /\ pc = "commit" => next.attempt_id # a
      BY <1>3, <2>1 DEF ReportInv
    <3>2. a <= attempts'
      BY <1>2, <3>1
    <3>3. ASSUME NEW r \in {disk'.visible, disk'.stable}, r.attempt_id = a
          PROVE  r.state = "REPORT_SUCCESS"
      BY <1>5, <1>7, <3>1, <3>3, ViewSteps
    <3>4. pc' = "commit" => next'.attempt_id # a
      BY <1>2, <1>6, <3>1
    <3> QED
      BY <3>2, <3>3, <3>4
  <2>2. CASE <<a, "success">> \notin reported
    <3>1. /\ ReportSuccess /\ m = disk.visible /\ m = disk.stable /\ UNCHANGED disk
          /\ m.state = "REPORT_SUCCESS" /\ a = m.attempt_id
      BY <1>10, <2>2, ReportSteps
    <3>2. a \in Nat /\ a # 0
      BY <1>3
    <3>3. a <= attempts'
      BY <1>2, <1>4, <3>1, <3>2
    <3> QED
      BY <1>9, <3>1, <3>2, <3>3
  <2> QED
    BY <2>1, <2>2
<1>11. ASSUME NEW a \in Attempts, <<a, "failure">> \in reported',
              NEW r \in {disk'.visible, disk'.stable}
       PROVE  r.attempt_id = a /\ r.state \in {"ERROR", "ROLLBACK"}
  <2>1. CASE <<a, "failure">> \in reported
    <3>1. \A w \in {disk.visible, disk.stable} :
            w.attempt_id = a /\ w.state \in {"ERROR", "ROLLBACK"}
      BY <2>1 DEF ReportInv
    <3> QED
      BY <1>5, <3>1, ViewSteps
  <2>2. CASE <<a, "failure">> \notin reported
    BY <1>11, <2>2, ReportSteps
  <2> QED
    BY <2>1, <2>2
<1> QED
  BY <1>10, <1>11 DEF ReportInv

\* What the server heard of an attempt stands, through failed saves, restarts and
\* power losses: a success is never followed by a failure report, nor held as a
\* failure in any view of the disk.
THEOREM ReportsAgree == Spec => []NoConflictingReports
<1>1. Init => ReportInv
  BY DEF Init, ReportInv
<1>2. DeviceInv /\ ReportInv /\ [Next]_vars => ReportInv'
  BY ReportInductive
<1>3. ReportInv => NoConflictingReports
  BY DEF ReportInv, NoConflictingReports
<1> QED
  BY <1>1, <1>2, <1>3, DeviceInvariant, PTL DEF Spec
-----------------------------------------------------------------------------
(* The device implements the abstract trial update.                        *)

\* The status of a slot, as the abstract update sees it.
LEMMA StatusOf ==
  ASSUME NEW s
  PROVE  /\ SlotStatus(s) = "good" <=> Native(s) = "confirmed-good"
         /\ SlotStatus(s) = "bad" <=> Native(s) = "bad"
         /\ SlotStatus(s) \in {"good", "trial", "bad"}
BY DEF SlotStatus

\* A slot to fall back to is a whole one of the abstract update.
LEMMA WholeIsFallback ==
  ASSUME NEW s \in Slots
  PROVE  /\ Trial!Whole(s) <=> Fallback(s)
         /\ Trial!Slots = Slots /\ Trial!Other(s) = Other(s)
<1>1. [t \in Slots |-> SlotStatus(t)][s] = SlotStatus(s)
  OBVIOUS
<1>2. Trial!Whole(s) <=> SlotStatus(s) = "good" /\ image[s] # PartialImage
  BY <1>1 DEF Trial!Whole
<1> QED
  BY <1>2, StatusOf DEF Fallback, Trial!Slots, Trial!Other, Slots, Other

\* One slot changes its status.
LEMMA StatusUpdated ==
  ASSUME NEW s \in Slots, NEW v, SlotStatus(s)' = v,
         SlotStatus(Other(s))' = SlotStatus(Other(s))
  PROVE  [t \in Slots |-> SlotStatus(t)]' = [[t \in Slots |-> SlotStatus(t)] EXCEPT ![s] = v]
<1>1. ASSUME NEW t \in Slots
      PROVE  SlotStatus(t)' = IF t = s THEN v ELSE SlotStatus(t)
  BY TwoSlots
<1> QED
  BY <1>1

\* Most steps leave everything the abstract update sees alone.
LEMMA TrialUnseen ==
  ASSUME UNCHANGED <<meta, image, booted, healthy>>
  PROVE  UNCHANGED Trial!trialVars
<1>1. \A s : SlotStatus(s)' = SlotStatus(s)
  BY DEF SlotStatus, Native
<1> QED
  BY <1>1 DEF Trial!trialVars

\* The factory states are initial states of the abstract update.
LEMMA TrialInit == Init => Trial!Init
<1> SUFFICES ASSUME Init PROVE Trial!Init
  OBVIOUS
<1>1. DeviceInv
  BY InitDeviceInv
<1>2. /\ booted \in Slots /\ meta \in ab_data /\ image \in [Slots -> Images] /\ Settled
  <2>1. disk.visible = NoFile
    BY DEF Init
  <2> QED
    BY <1>1, <2>1 DEF DeviceInv, StandsFor, InstallInv, TypeOK, DeviceTypeOK
<1>3. Trial!Whole(booted) /\ Trial!Slots = Slots
  BY <1>2, WholeIsFallback DEF Settled
<1>4. primary_slot(meta) = booted
  BY <1>2, Selection DEF Settled, Fallback, Native
<1>5. [s \in Slots |-> SlotStatus(s)] \in [Slots -> {"good", "trial", "bad"}]
  BY StatusOf
<1>6. \A s \in Slots : image[s].attempt = 0
  BY DEF Init
<1>7. healthy = {}
  BY DEF Init
<1> QED
  BY <1>2, <1>3, <1>4, <1>5, <1>6, <1>7 DEF Trial!Init

\* mark-bad, by the RAUC service or the agent, retires a slot whose peer is whole.
LEMMA TrialRetires ==
  ASSUME meta \in ab_data, meta' \in ab_data, NEW s \in Slots, Fallback(Other(s)),
         meta' = mark_bad(meta, s), UNCHANGED <<image, booted, healthy>>
  PROVE  Trial!Retire(s)
<1>1. Other(s) \in Slots /\ Other(Other(s)) = s
  BY TwoSlots
<1>2. Native(s)' = "bad" /\ Native(Other(s))' = Native(Other(s))
  BY MutationsSlotwise DEF Native
<1>3. SlotStatus(s)' = "bad" /\ SlotStatus(Other(s))' = SlotStatus(Other(s))
  BY <1>2 DEF SlotStatus
<1>4. [t \in Slots |-> SlotStatus(t)]' = [[t \in Slots |-> SlotStatus(t)] EXCEPT ![s] = "bad"]
  BY <1>3, StatusUpdated
<1>5. primary_slot(meta)' = Other(s)
  BY <1>1, <1>2, Selection DEF Fallback, Native
<1>6. Trial!Whole(Other(s)) /\ Trial!Other(s) = Other(s)
  BY <1>1, WholeIsFallback
<1> QED
  BY <1>4, <1>5, <1>6 DEF Trial!Retire

\* The RAUC service retires, writes and offers its target.
LEMMA TrialRauc ==
  ASSUME DeviceInv, meta' \in ab_data, RaucStep
  PROVE  Trial!Next \/ UNCHANGED Trial!trialVars
<1>1. PICK t : t = rauc.target
  OBVIOUS
<1>2. /\ UNCHANGED <<booted, healthy>>
      /\ rauc.phase \in {"started", "marked", "writing", "written"}
  BY DEF RaucStep, RaucMarkTarget, RaucWrite, RaucActivate, RaucUnchanged, bootVars, historyVars
<1>3. /\ t \in Slots /\ t # booted /\ Fallback(Other(t)) /\ rauc.image # PartialImage
      /\ rauc.phase \in {"marked", "writing", "written"} => Native(t) = "bad"
      /\ rauc.phase = "written" => image[t] = rauc.image
  BY <1>1, <1>2 DEF DeviceInv, JobInv
<1>4. meta \in ab_data /\ image \in [Slots -> Images] /\ rauc.image \in Images
  BY DEF DeviceInv, InstallInv, TypeOK, DeviceTypeOK
<1>5. /\ Trial!Slots = Slots /\ Trial!Other(t) = Other(t) /\ Trial!Whole(Other(t))
      /\ Native(t) = "bad" => [s \in Slots |-> SlotStatus(s)][t] = "bad"
  BY <1>3, TwoSlots, WholeIsFallback, StatusOf
<1>6. CASE RaucMarkTarget
  <2>1. CASE meta' = mark_bad(meta, t) /\ UNCHANGED image
    BY <1>2, <1>3, <1>4, <1>5, <2>1, TrialRetires DEF Trial!Next
  <2>2. CASE UNCHANGED <<meta, image>>
    BY <1>2, <2>2, TrialUnseen
  <2> QED
    BY <1>1, <1>6, <2>1, <2>2 DEF RaucMarkTarget
<1>7. CASE RaucWrite
  <2>1. PICK i \in Images : image' = [image EXCEPT ![t] = i]
    BY <1>1, <1>4, <1>7, OtaAgentAssumption DEF RaucWrite, Images, PartialImage
  <2>2. UNCHANGED meta /\ Native(t) = "bad"
    BY <1>3, <1>7 DEF RaucWrite
  <2>3. [s \in Slots |-> SlotStatus(s)]' = [s \in Slots |-> SlotStatus(s)]
    BY <2>2 DEF SlotStatus, Native
  <2>4. Trial!Write(t, i)
    BY <1>2, <1>3, <1>5, <2>1, <2>2, <2>3 DEF Trial!Write
  <2> QED
    BY <1>3, <1>5, <2>4 DEF Trial!Next
<1>8. CASE RaucActivate
  <2>1. /\ meta' = set_primary(meta, t) /\ UNCHANGED image
        /\ Native(t) = "bad" /\ image[t] # PartialImage
    BY <1>1, <1>3, <1>8 DEF RaucActivate
  <2>2. /\ Native(t)' = "pending" /\ Native(Other(t))' = Native(Other(t))
        /\ primary_slot(meta)' = t
    BY <1>3, <1>4, <2>1, SetPrimarySelects DEF Native
  <2>3. SlotStatus(t)' = "trial" /\ SlotStatus(Other(t))' = SlotStatus(Other(t))
    BY <2>2 DEF SlotStatus
  <2>4. [s \in Slots |-> SlotStatus(s)]' = [[s \in Slots |-> SlotStatus(s)] EXCEPT ![t] = "trial"]
    BY <1>3, <2>3, StatusUpdated
  <2>5. Trial!Offer(t)
    BY <1>2, <1>3, <1>5, <2>1, <2>2, <2>4 DEF Trial!Offer
  <2> QED
    BY <1>3, <1>5, <2>5 DEF Trial!Next
<1> QED
  BY <1>6, <1>7, <1>8 DEF RaucStep

\* The agent passes, confirms or retires the candidate that runs.
LEMMA TrialVerdict ==
  ASSUME DeviceInv, meta' \in ab_data, HealthPasses \/ HealthRejects \/ MarkGood
  PROVE  Trial!Next \/ UNCHANGED Trial!trialVars
<1>1. /\ pc = "loop" /\ m.state \in {"HEALTH_CHECK", "MARK_GOOD"}
      /\ UNCHANGED <<image, booted>>
  BY DEF HealthPasses, HealthRejects, MarkGood, InState, OutsideUnchanged, bootVars
<1>2. PICK c : c = m.expected_candidate_slot
  OBVIOUS
<1>3. /\ OnTrial(m) /\ m.attempt_id # 0 /\ c \in Slots /\ m.previous_slot = Other(c)
      /\ meta \in ab_data
  BY <1>1, <1>2, Judgement
<1>4. power = "up" /\ Unjudged(m)
  BY <1>1 DEF DeviceInv, ControlInv, InstallInv, TypeOK, DeviceTypeOK
<1>5. /\ Fallback(Other(c)) /\ meta.slots[Other(c)].priority < AB_MAX_PRIORITY
      /\ image[c] = [release |-> m.target, attempt |-> m.attempt_id]
      /\ m.state = "MARK_GOOD" => m.attempt_id \in healthy
  BY <1>2, <1>3 DEF OnTrial
<1>6. image[c].attempt = m.attempt_id /\ image[c] # PartialImage
  BY <1>3, <1>5 DEF PartialImage
<1>7. /\ Trial!Slots = Slots /\ Trial!Other(c) = Other(c) /\ Trial!Whole(Other(c))
  BY <1>3, <1>5, TwoSlots, WholeIsFallback
<1>8. booted = c => [s \in Slots |-> SlotStatus(s)][booted] = "trial"
  <2>1. booted = c => SlotStatus(c) = "trial"
    BY <1>2, <1>4, StatusOf DEF Unjudged
  <2> QED
    BY <1>3, <2>1
<1>9. CASE UNCHANGED <<meta, healthy>>
  BY <1>1, <1>9, TrialUnseen
<1>10. CASE booted = c /\ UNCHANGED meta /\ healthy' = healthy \cup {m.attempt_id}
  <2>1. [s \in Slots |-> SlotStatus(s)]' = [s \in Slots |-> SlotStatus(s)]
    BY <1>10 DEF SlotStatus, Native
  <2>2. Trial!Pass
    BY <1>1, <1>6, <1>7, <1>8, <1>10, <2>1 DEF Trial!Pass
  <2> QED
    BY <2>2 DEF Trial!Next
<1>11. CASE booted = c /\ meta' = mark_bad(meta, booted) /\ UNCHANGED healthy
  BY <1>1, <1>3, <1>5, <1>7, <1>11, TrialRetires DEF Trial!Next
<1>12. CASE /\ booted = c /\ meta' = mark_good(meta, booted) /\ UNCHANGED healthy
            /\ m.state = "MARK_GOOD"
  <2>1. /\ meta'.slots[c] = ConfirmedGood /\ meta'.slots[Other(c)] = meta.slots[Other(c)]
        /\ native_state(ConfirmedGood) = "confirmed-good"
    BY <1>3, <1>12, MutationsSlotwise
  <2>2. SlotStatus(c)' = "good" /\ SlotStatus(Other(c))' = SlotStatus(Other(c))
    BY <2>1 DEF SlotStatus, Native
  <2>3. [s \in Slots |-> SlotStatus(s)]' = [[s \in Slots |-> SlotStatus(s)] EXCEPT ![c] = "good"]
    BY <1>3, <2>2, StatusUpdated
  <2>4. primary_slot(meta)' = c
    <3>1. meta'.slots[c].priority > meta'.slots[Other(c)].priority
      <4>1. meta.slots[Other(c)].priority \in Nat
        BY <1>3, TwoSlots, AbMaxAssumption DEF ab_data, slot_data
      <4> QED
        BY <1>5, <2>1, <4>1, AbMaxAssumption DEF ConfirmedGood
    <3> QED
      BY <1>3, <2>1, <3>1, Selection
  <2>5. Trial!Confirm
    BY <1>1, <1>5, <1>6, <1>8, <1>12, <2>3, <2>4 DEF Trial!Confirm
  <2> QED
    BY <2>5 DEF Trial!Next
<1> QED
  BY <1>2, <1>9, <1>10, <1>11, <1>12
  DEF HealthPasses, HealthRejects, MarkGood, InState, OutsideUnchanged, bootVars, historyVars,
      MarkIdentityFails, WrongRelease

\* A boot attempt starts the choice, or ends the trials of a slot.
LEMMA TrialBoot ==
  ASSUME DeviceInv, meta' \in ab_data, BootAttempt
  PROVE  Trial!Next
<1>1. PICK slot : slot = primary_slot(NormaliseExhausted(meta))
  OBVIOUS
<1>2. /\ slot # NoPrimary /\ meta' = ConsumeTry(NormaliseExhausted(meta), slot)
      /\ UNCHANGED <<image, healthy>>
      /\ \/ image[slot] # PartialImage /\ booted' = slot
         \/ NormaliseExhausted(meta).slots[slot].successful_boot = 0 /\ UNCHANGED booted
  BY <1>1 DEF BootAttempt, historyVars
<1>3. meta \in ab_data
  BY DEF DeviceInv, InstallInv, TypeOK, DeviceTypeOK
<1>4. PICK o : o = Other(slot)
  OBVIOUS
<1>5. /\ slot \in Slots /\ slot = primary_slot(meta) /\ Native(slot) # "bad"
      /\ meta'.slots[o] = meta.slots[o] \/ native_state(meta'.slots[o]) = "bad"
      /\ \/ primary_slot(meta') = slot
         \/ Native(slot) # "confirmed-good" /\ ~is_bootable(meta'.slots[slot])
  BY <1>1, <1>2, <1>3, <1>4, BootSelects DEF Native
<1>6. o \in Slots /\ o # slot /\ slot = Other(o) /\ \A s \in Slots : s = slot \/ s = o
  BY <1>4, <1>5, TwoSlots
<1>7. \A s \in Slots :
        /\ Native(s) = "confirmed-good" => meta'.slots[s] = meta.slots[s]
        /\ Native(s) = "bad" => Native(s)' = "bad"
        /\ Native(s)' = "confirmed-good" => Native(s) = "confirmed-good"
        /\ s = slot => Native(s)' # "bad"
  BY <1>1, <1>2, <1>3, BootKeepsSlots DEF Native
<1>8. SlotStatus(slot)' = SlotStatus(slot)
  <2>1. Native(slot) = "confirmed-good" => Native(slot)' = "confirmed-good"
    BY <1>5, <1>7 DEF Native
  <2> QED
    BY <1>5, <1>7, <2>1 DEF SlotStatus
<1>9. Native(slot) # "confirmed-good" => Fallback(o)
  BY <1>6 DEF DeviceInv, SlotInv, FallbackExists, Fallback
<1>10. Native(o) # "confirmed-good" => Fallback(slot)
  BY <1>6 DEF DeviceInv, SlotInv, FallbackExists, Fallback
<1>11. \/ SlotStatus(o)' = SlotStatus(o)
       \/ SlotStatus(o)' = "bad" /\ SlotStatus(o) = "trial" /\ Fallback(slot)
  <2>1. CASE meta'.slots[o] = meta.slots[o]
    BY <2>1 DEF SlotStatus, Native
  <2>2. CASE native_state(meta'.slots[o]) = "bad" /\ meta'.slots[o] # meta.slots[o]
    <3>1. Native(o)' = "bad" /\ Native(o) # "confirmed-good"
      BY <1>6, <1>7, <2>2 DEF Native
    <3> QED
      BY <1>10, <3>1 DEF SlotStatus
  <2> QED
    BY <1>5, <2>1, <2>2
<1>12. /\ Trial!Slots = Slots /\ Trial!Other(slot) = o
       /\ Trial!Whole(slot) <=> Fallback(slot)
       /\ Trial!Whole(o) <=> Fallback(o)
  BY <1>4, <1>5, <1>6, WholeIsFallback
<1>13. /\ [s \in Slots |-> SlotStatus(s)][slot] = SlotStatus(slot)
       /\ [s \in Slots |-> SlotStatus(s)][o] = SlotStatus(o)
  BY <1>5, <1>6
<1>14. \/ image[slot] # PartialImage /\ booted' = slot
       \/ SlotStatus(slot) = "trial" /\ UNCHANGED booted
  <2>1. CASE NormaliseExhausted(meta).slots[slot].successful_boot = 0 /\ UNCHANGED booted
    <3>1. Native(slot) # "confirmed-good"
      <4>1. meta.slots[slot] \in slot_data
        BY <1>3, <1>5 DEF ab_data
      <4>2. Native(slot) = "confirmed-good" =>
              is_bootable(meta.slots[slot]) /\ meta.slots[slot].successful_boot = 1
        BY <4>1, NativeStates DEF Native
      <4>3. is_bootable(meta.slots[slot]) =>
              NormaliseExhausted(meta).slots[slot] = meta.slots[slot]
        BY <1>3, <1>5 DEF NormaliseExhausted, ab_data
      <4> QED
        BY <2>1, <4>2, <4>3
    <3> QED
      BY <1>5, <2>1, <3>1 DEF SlotStatus
  <2> QED
    BY <1>2, <2>1
<1>15. \/ primary_slot(meta') = slot
       \/ SlotStatus(slot) = "trial" /\ Fallback(o) /\ primary_slot(meta') = o
  <2>1. CASE Native(slot) # "confirmed-good" /\ ~is_bootable(meta'.slots[slot])
    <3>1. SlotStatus(slot) = "trial" /\ Fallback(o)
      BY <1>5, <1>9, <2>1 DEF SlotStatus
    <3>2. native_state(meta'.slots[o]) = "confirmed-good"
      BY <1>6, <1>7, <3>1 DEF Fallback, Native
    <3>3. meta'.slots[o] \in slot_data
      BY <1>6 DEF ab_data
    <3>4. is_bootable(meta'.slots[o])
      BY <3>2, <3>3, NativeStates
    <3>5. primary_slot(meta') = o
      BY <1>5, <1>6, <2>1, <3>4 DEF primary_slot, Slots
    <3> QED
      BY <3>1, <3>5
  <2> QED
    BY <1>5, <2>1
<1>16. \/ [s \in Slots |-> SlotStatus(s)]' = [s \in Slots |-> SlotStatus(s)]
       \/ /\ SlotStatus(o) = "trial" /\ Fallback(slot)
          /\ [s \in Slots |-> SlotStatus(s)]' =
               [[s \in Slots |-> SlotStatus(s)] EXCEPT ![o] = "bad"]
  <2>1. CASE SlotStatus(o)' = SlotStatus(o)
    <3>1. ASSUME NEW s \in Slots PROVE SlotStatus(s)' = SlotStatus(s)
      BY <1>6, <1>8, <2>1
    <3> QED
      BY <3>1
  <2>2. CASE SlotStatus(o)' = "bad" /\ SlotStatus(o) = "trial" /\ Fallback(slot)
    <3>1. SlotStatus(Other(o))' = SlotStatus(Other(o))
      BY <1>6, <1>8
    <3> QED
      BY <1>6, <2>2, <3>1, StatusUpdated
  <2> QED
    BY <1>11, <2>1, <2>2
<1>17. Trial!Boot
  BY <1>2, <1>5, <1>12, <1>13, <1>14, <1>15, <1>16 DEF Trial!Boot
<1> QED
  BY <1>17 DEF Trial!Next

\* The agent, the RAUC service, the tool and the bootloader implement the abstract
\* trial update: whatever restarts, faults and timeouts do to the records, the slots
\* change only as a trial update may change them.
THEOREM TrialRefined == Spec => TrialUpdate
<1>1. ASSUME DeviceInv, DeviceInv', [Next]_vars
      PROVE  [Trial!Next]_(Trial!trialVars)
  <2>1. meta' \in ab_data
    BY <1>1 DEF DeviceInv, InstallInv, TypeOK, DeviceTypeOK
  <2>2. \/ UNCHANGED <<meta, image, booted, healthy>>
        \/ RaucStep \/ BootAttempt \/ HealthPasses \/ HealthRejects \/ MarkGood
    BY <1>1
    DEF Next, AgentStep, Environment, StartAtBoot, OperatorStart, Open, Recover, Started,
        Commit, Exit, Idle, CheckNetwork, CheckUpdateNothing, CheckUpdateFound,
        CheckUpdateFails, PrecheckPhase, DownloadPhase, RaucVerify, InstallCall,
        InstallSucceeds, InstallFails, ReportSuccess, ReportTerminal, RebootPending,
        RebootRequest, StartFails, RaucFails, RaucUnchanged, Stop, Kill, PowerLoss,
        OrderlyReboot, DeviceGoesDown, OutsideUnchanged, bootVars, historyVars, vars
  <2> QED
    BY <1>1, <2>1, <2>2, TrialUnseen, TrialRauc, TrialBoot, TrialVerdict
<1> QED
  BY <1>1, TrialInit, DeviceInvariant, PTL DEF Spec, TrialUpdate, Trial!Spec
=============================================================================
