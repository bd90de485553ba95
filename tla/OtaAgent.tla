------------------------------ MODULE OtaAgent ------------------------------
(***************************************************************************)
(* One device: the OTA agent process (main.c, state_machine.c, services.c, *)
(* persistence.c, reboot.c, rauc_adapter.c), the state file it keeps on    *)
(* /userdata, the RAUC service that installs for it, the A/B metadata      *)
(* edgeguard-rk-abctl keeps, and the bootloader.                           *)
(*                                                                         *)
(* A handler of the agent is one action up to the point where a crash      *)
(* could separate an external effect from the durable record of it: a      *)
(* phase computes `next` and performs its external effect, Commit is the   *)
(* ota_state_machine_transition that follows.  pc tells where the process  *)
(* is; cont is where it goes on once Commit succeeded.                     *)
(*                                                                         *)
(* A retryable phase failure leaves every variable as it is and is a       *)
(* stuttering step.  Downloading and network traffic are reduced to their  *)
(* outcomes here.                                                          *)
(***************************************************************************)
EXTENDS OtaModel, AbMeta, FiniteSets

CONSTANTS MaxRelease,   \* releases are 1..MaxRelease, a larger one is newer
          MaxAttempts,  \* bound: update attempts in one behaviour
          MaxFaults,    \* bound: faults in one behaviour
          FaultKinds    \* which faults may happen

AllFaults == {"kill", "stop", "power", "save", "query", "reboot", "start"}

ASSUME OtaAgentAssumption ==
  /\ MaxRelease \in Nat \ {0} /\ MaxAttempts \in Nat /\ MaxFaults \in Nat
  /\ FaultKinds \subseteq AllFaults

VARIABLES
  pc,        \* control point of the agent process, "down" when none runs
  m,         \* machine->current
  blocked,   \* machine->blocked
  next,      \* the record a pending transition will save
  cont,      \* control point after the pending transition
  disk,      \* the state file: what is visible, what survives a power loss
  power,     \* "up" or "booting"
  booted,    \* the running slot
  boot_id,   \* kernel boot id
  autostart, \* the init script has yet to start the agent in this boot
  rebooting, \* /sbin/reboot has been executed
  meta,      \* A/B metadata
  image,     \* what each slot holds: a release and the attempt that wrote it
  rauc,      \* the RAUC service's current job
  attempts,  \* attempt ids drawn so far
  faults,    \* faults so far
  installs,  \* history: rauc install calls per attempt
  healthy,   \* history: attempts whose candidate passed the health check
  reported   \* history: outcomes the server received, <<attempt, outcome>>

agentVars == <<pc, m, blocked, next, cont>>
bootVars == <<power, booted, boot_id, rebooting>>
historyVars == <<installs, healthy, reported>>
vars == <<pc, m, blocked, next, cont, disk, power, booted, boot_id, autostart,
          rebooting, meta, image, rauc, attempts, faults, installs, healthy,
          reported>>

Releases == 1..MaxRelease
Attempts == 1..MaxAttempts
Images == [release : 0..MaxRelease, attempt : 0..MaxAttempts]
PartialImage == [release |-> 0, attempt |-> 0]
IdleJob == [phase |-> "idle", target |-> NoSlot, image |-> PartialImage]

PCs == {"down", "recover", "started", "loop", "commit", "installing",
        "reboot", "exit"}

AgentTypeOK ==
  /\ pc \in PCs
  /\ cont \in PCs
  /\ m \in OtaPersistentStates
  /\ next \in OtaPersistentStates
  /\ blocked \in BOOLEAN
  /\ disk \in [visible : OtaPersistentStates \cup {NoFile},
               stable : OtaPersistentStates \cup {NoFile}]
  /\ attempts \in 0..MaxAttempts
  /\ installs \in [Attempts -> Nat]

DeviceTypeOK ==
  /\ power \in {"up", "booting"}
  /\ booted \in Slots
  /\ boot_id \in Nat \ {0}
  /\ autostart \in BOOLEAN
  /\ rebooting \in BOOLEAN
  /\ meta \in ab_data
  /\ image \in [Slots -> Images]
  /\ rauc \in [phase : {"idle", "started", "marked", "writing", "written",
                        "done", "failed"},
               target : Slots \cup {NoSlot}, image : Images]
  /\ faults \in 0..MaxFaults
  /\ healthy \subseteq Attempts
  /\ reported \subseteq Attempts \X {"success", "failure"}

TypeOK == AgentTypeOK /\ DeviceTypeOK
-----------------------------------------------------------------------------
(* The device leaves the factory on a confirmed slot of release 1, without *)
(* a state file; the other slot may be confirmed, pending or bad.          *)

FactoryPeer ==
  { [priority |-> AB_MAX_PRIORITY - 1, tries_remaining |-> 0,
     successful_boot |-> 1, is_update |-> 0],
    [priority |-> AB_MAX_PRIORITY - 1, tries_remaining |-> AB_MAX_TRIES,
     successful_boot |-> 0, is_update |-> 0],
    [priority |-> 0, tries_remaining |-> 0,
     successful_boot |-> 0, is_update |-> 0] }

Init ==
  /\ pc = "down" /\ cont = "down" /\ blocked = FALSE
  /\ m = ota_persistent_state_init
  /\ next = ota_persistent_state_init
  /\ disk = [visible |-> NoFile, stable |-> NoFile]
  /\ power = "up" /\ rebooting = FALSE /\ autostart = TRUE
  /\ boot_id = 1
  /\ booted \in Slots
  /\ \E peer \in FactoryPeer :
       meta = [slots |-> [s \in Slots |->
                 IF s = booted
                 THEN ConfirmedGood ELSE peer],
               last_boot |-> booted]
  /\ image = [s \in Slots |-> [release |-> 1, attempt |-> 0]]
  /\ rauc = IdleJob
  /\ attempts = 0 /\ faults = 0
  /\ installs = [a \in Attempts |-> 0]
  /\ healthy = {} /\ reported = {}
-----------------------------------------------------------------------------
(* Building blocks.                                                        *)

Fault(kind) ==
  /\ kind \in FaultKinds
  /\ faults < MaxFaults
  /\ faults' = faults + 1

\* The process is gone: its memory is lost and the agent lock released.
ProcessEnds ==
  /\ pc' = "down" /\ cont' = "down" /\ blocked' = FALSE
  /\ m' = ota_persistent_state_init
  /\ next' = ota_persistent_state_init

\* Mutant: the parent directory is not synced after the rename.
SaveSucceeds_NoParentFsync(s) ==
  /\ disk' = [disk EXCEPT !.visible = s]
  /\ UNCHANGED faults

\* ota_persistence_save through ota_atomic_write.  A success is durable.  A
\* failure before the rename leaves the disk as it was found; one after it
\* leaves the new record visible but not yet safe from a power loss.
SaveSucceeds(s) ==
  /\ disk' = [visible |-> s, stable |-> s]
  /\ UNCHANGED faults

SaveFails(found, s) ==
  /\ Fault("save")
  /\ disk' \in {found, [found EXCEPT !.visible = s]}

\* ota_rauc_current_slot: abctl get-current answers the running slot or fails.
CurrentSlot(q) ==
  \/ q = booted /\ UNCHANGED faults
  \/ q = NoSlot /\ Fault("query")

GoTo(label) ==
  /\ pc' = label
  /\ UNCHANGED <<m, blocked, next, cont>>

\* Hand a record to ota_state_machine_transition.
Transition(record, after) ==
  /\ pc' = "commit" /\ next' = record /\ cont' = after
  /\ UNCHANGED <<m, blocked>>

Advance(state) == Transition([m EXCEPT !.state = state], "loop")

\* ota_state_machine_fail.
Fail(code, after) == Transition(ErrorRecord(m, code), after)

\* ota_state_machine_transition: refuse, or save and only then adopt.
Commit ==
  /\ pc = "commit"
  /\ IF blocked \/ ~TransitionAccepted(m, next)
     THEN GoTo("exit") /\ UNCHANGED <<disk, faults>>
     ELSE \/ /\ SaveSucceeds(next)
             /\ m' = next
             /\ pc' = cont
             /\ next' = ota_persistent_state_init
             /\ cont' = "down"
             /\ UNCHANGED blocked
          \/ /\ SaveFails(disk, next)
             /\ blocked' = TRUE
             /\ pc' = "exit"
             /\ UNCHANGED <<m, next, cont>>
  /\ UNCHANGED <<bootVars, autostart, meta, image, rauc, attempts, historyVars>>

Exit ==
  /\ pc = "exit"
  /\ ProcessEnds
  /\ UNCHANGED <<disk, bootVars, autostart, meta, image, rauc, attempts,
                 faults, historyVars>>
-----------------------------------------------------------------------------
(* Start and recovery (main, ota_state_machine_open, _recover).            *)

\* Mutant: the state directory is not synced at the start.
ota_storage_prepare_NoFsync == disk

\* ota_storage_prepare: every start syncs the state directory, so a rename that
\* an earlier process left unsynced is safe before the record is loaded.
ota_storage_prepare == [disk EXCEPT !.stable = disk.visible]

\* ota_state_machine_open: load the record, or create it when missing; a record
\* that does not validate ends the start.
Open ==
  /\ pc = "down" /\ power = "up"
  /\ IF disk.visible = NoFile
     THEN \/ /\ SaveSucceeds(ota_persistent_state_init)
             /\ pc' = "recover"
             /\ UNCHANGED <<m, blocked, next, cont>>
          \/ /\ SaveFails(ota_storage_prepare, ota_persistent_state_init)
             /\ UNCHANGED agentVars
     ELSE /\ IF ota_persistent_state_validate(disk.visible)
             THEN m' = disk.visible /\ pc' = "recover"
             ELSE UNCHANGED <<m, pc>>
          /\ disk' = ota_storage_prepare
          /\ UNCHANGED <<blocked, next, cont, faults>>
  /\ autostart' = FALSE
  /\ UNCHANGED <<bootVars, meta, image, rauc, attempts, historyVars>>

\* The init script starts the agent once per boot, without a restart loop.
StartAtBoot == autostart /\ Open

\* An operator starts it again later.
OperatorStart == ~autostart /\ Open

\* main leaves before opening the state: bad configuration or unusable storage
\* (nothing synced), a lock that is held or an unreadable identity (synced).  An
\* unreadable release is found later and is as a Kill before the recovery.
StartFails ==
  /\ pc = "down" /\ power = "up" /\ autostart
  /\ Fault("start")
  /\ autostart' = FALSE
  /\ disk' \in {disk, ota_storage_prepare}
  /\ UNCHANGED <<agentVars, bootVars, meta, image, rauc, attempts,
                 historyVars>>

\* Recovery of a durable phase after a process start.
RecoverReplaySafe ==
  /\ m.state \in ReplaySafeStates
  /\ GoTo("started")
  /\ UNCHANGED faults

\* Mutant: an interrupted phase ends the process without a durable error.
RecoverInterrupted_NoRecord ==
  /\ m.state \notin ReplaySafeStates \cup {"REBOOT_PENDING", "BOOT_NEW_SLOT"}
  /\ GoTo("exit")
  /\ UNCHANGED faults

RecoverInterrupted ==
  /\ m.state \notin ReplaySafeStates \cup {"REBOOT_PENDING", "BOOT_NEW_SLOT"}
  /\ Fail(InterruptedCause(m.state), "started")
  /\ UNCHANGED faults

RecoverSameBoot ==
  /\ m.state \in {"REBOOT_PENDING", "BOOT_NEW_SLOT"}
  /\ m.boot_id_before = boot_id
  /\ IF m.state = "REBOOT_PENDING"
     THEN GoTo("started")
     ELSE Fail("REBOOT_CONTEXT_INVALID", "started")
  /\ UNCHANGED faults

RecoverNewBoot ==
  /\ m.state = "REBOOT_PENDING"
  /\ m.boot_id_before # boot_id
  /\ Transition([m EXCEPT !.state = "BOOT_NEW_SLOT"], "recover")
  /\ UNCHANGED faults

RecoverNewSlot ==
  /\ m.state = "BOOT_NEW_SLOT"
  /\ m.boot_id_before # boot_id
  /\ \E q \in Slots \cup {NoSlot} :
       /\ CurrentSlot(q)
       /\ CASE q = m.expected_candidate_slot ->
                 Transition([m EXCEPT !.state = "HEALTH_CHECK"], "started")
            [] q = m.previous_slot ->
                 Transition([m EXCEPT !.state = "ROLLBACK",
                                      !.last_error = "HEALTH_FAILED"], "started")
            [] OTHER -> Fail("REBOOT_CONTEXT_INVALID", "started")

Recover ==
  /\ pc = "recover"
  /\ \/ RecoverReplaySafe
     \/ RecoverInterrupted
     \/ RecoverSameBoot
     \/ RecoverNewBoot
     \/ RecoverNewSlot
  /\ UNCHANGED <<disk, bootVars, autostart, meta, image, rauc, attempts,
                 historyVars>>

\* Mutant: a persisted health rollback reboots whatever slot runs.
Started_AlwaysReboots ==
  /\ pc = "started"
  /\ IF m.state = "ROLLBACK" /\ m.reboot_context = "health_failure"
     THEN GoTo("reboot") ELSE GoTo("loop")
  /\ UNCHANGED <<faults, disk, bootVars, autostart, meta, image, rauc,
                 attempts, historyVars>>

\* main after recovery: a persisted health rollback reboots only while the bad
\* candidate still runs.
Started ==
  /\ pc = "started"
  /\ IF m.state = "ROLLBACK" /\ m.reboot_context = "health_failure"
     THEN \E q \in Slots \cup {NoSlot} :
            /\ CurrentSlot(q)
            /\ GoTo(CASE q = m.expected_candidate_slot -> "reboot"
                      [] q = m.previous_slot -> "loop"
                      [] OTHER -> "exit")
     ELSE GoTo("loop") /\ UNCHANGED faults
  /\ UNCHANGED <<disk, bootVars, autostart, meta, image, rauc, attempts,
                 historyVars>>
-----------------------------------------------------------------------------
(* The phases of run() and services.c before the installation.             *)

InState(state) == pc = "loop" /\ m.state = state
OutsideUnchanged == UNCHANGED <<disk, bootVars, autostart, meta, image, rauc>>

\* The idle wait ended: a new cycle begins.
Idle ==
  /\ InState("IDLE")
  /\ Advance("CHECK_NETWORK")
  /\ OutsideUnchanged /\ UNCHANGED <<attempts, faults, historyVars>>

CheckNetwork ==
  /\ InState("CHECK_NETWORK")
  /\ Advance("CHECK_UPDATE")
  /\ OutsideUnchanged /\ UNCHANGED <<attempts, faults, historyVars>>

\* ota_compatibility_precheck on versions: an older release is refused.
Precheck(local, remote) ==
  CASE remote < local -> "DOWNGRADE_REJECTED"
    [] remote = local -> "current"
    [] OTHER -> "update"

\* No release, or the current one: back to IDLE with a cleared record.
CheckUpdateNothing ==
  /\ InState("CHECK_UPDATE")
  /\ Transition(ota_persistent_state_init, "loop")
  /\ OutsideUnchanged /\ UNCHANGED <<attempts, faults, historyVars>>

\* A newer release: a fresh attempt id and the manifest become one record.
CheckUpdateFound ==
  /\ InState("CHECK_UPDATE")
  /\ attempts < MaxAttempts
  /\ \E remote \in Releases :
       /\ Precheck(image[booted].release, remote) = "update"
       /\ Transition([m EXCEPT !.state = "PRECHECK",
                               !.attempt_id = attempts + 1,
                               !.target = remote], "loop")
  /\ attempts' = attempts + 1
  /\ OutsideUnchanged /\ UNCHANGED <<faults, historyVars>>

\* An older release, or a manifest that fails any other check.
CheckUpdateFails ==
  /\ InState("CHECK_UPDATE")
  /\ \/ /\ \E remote \in Releases :
             Precheck(image[booted].release, remote) = "DOWNGRADE_REJECTED"
        /\ Fail("DOWNGRADE_REJECTED", "loop")
     \/ Fail("PHASE_FAILED", "loop")
  /\ OutsideUnchanged /\ UNCHANGED <<attempts, faults, historyVars>>

\* PRECHECK revalidates the durable attempt against the local release and
\* discards an earlier partial download.
PrecheckPhase ==
  /\ InState("PRECHECK")
  /\ \/ LET verdict == Precheck(image[booted].release, m.target)
        IN CASE verdict = "update" -> Advance("DOWNLOADING")
             [] verdict = "current" -> Fail("ILLEGAL_TRANSITION", "loop")
             [] OTHER -> Fail(verdict, "loop")
     \/ Fail("PHASE_FAILED", "loop")
  /\ OutsideUnchanged /\ UNCHANGED <<attempts, faults, historyVars>>

\* DOWNLOADING and VERIFY_DOWNLOAD: done, or a failure that is not retryable.
DownloadPhase ==
  /\ \/ InState("DOWNLOADING") /\ Advance("VERIFY_DOWNLOAD")
     \/ InState("VERIFY_DOWNLOAD") /\ Advance("RAUC_VERIFY")
     \/ /\ InState("DOWNLOADING") \/ InState("VERIFY_DOWNLOAD")
        /\ Fail("PHASE_FAILED", "loop")
  /\ OutsideUnchanged /\ UNCHANGED <<attempts, faults, historyVars>>

\* RAUC_VERIFY accepts the bundle and captures where the device stands: the
\* running slot, its peer as candidate, the boot id.
RaucVerify ==
  /\ InState("RAUC_VERIFY")
  /\ \/ Fail("PHASE_FAILED", "loop") /\ UNCHANGED faults
     \/ \E q \in Slots \cup {NoSlot} :
          /\ CurrentSlot(q)
          /\ IF q = NoSlot
             THEN Fail("REBOOT_CONTEXT_INVALID", "loop")
             ELSE Transition([m EXCEPT !.state = "INSTALLING",
                                       !.previous_slot = q,
                                       !.expected_candidate_slot = Other(q),
                                       !.boot_id_before = boot_id,
                                       !.reboot_context = "install"], "loop")
  /\ OutsideUnchanged /\ UNCHANGED <<attempts, historyVars>>
-----------------------------------------------------------------------------
(* Installation: the agent calls the RAUC CLI once and waits; the RAUC     *)
(* service (external) works on, whatever becomes of the CLI.               *)

\* rauc install: the service takes the job unless it is still busy.
InstallCall ==
  /\ InState("INSTALLING")
  /\ GoTo("installing")
  /\ installs' = [installs EXCEPT ![m.attempt_id] = @ + 1]
  /\ rauc' = IF rauc.phase \in {"idle", "done", "failed"}
             THEN [phase |-> "started", target |-> Other(booted),
                   image |-> [release |-> m.target, attempt |-> m.attempt_id]]
             ELSE rauc
  /\ UNCHANGED <<disk, bootVars, autostart, meta, image, attempts, faults,
                 healthy, reported>>

InstallSucceeds ==
  /\ pc = "installing"
  /\ rauc.phase = "done"
  /\ Advance("REBOOT_PENDING")
  /\ rauc' = IdleJob
  /\ UNCHANGED <<disk, bootVars, autostart, meta, image, attempts, faults,
                 historyVars>>

\* The CLI reports a failure, or its deadline passed and only the CLI was
\* killed: the service keeps its job.
InstallFails ==
  /\ pc = "installing"
  /\ Fail("RAUC_INSTALL_FAILED", "loop")
  /\ rauc' = IF rauc.phase = "failed" THEN IdleJob ELSE rauc
  /\ UNCHANGED <<disk, bootVars, autostart, meta, image, attempts, faults,
                 historyVars>>

RaucUnchanged ==
  UNCHANGED <<agentVars, disk, bootVars, autostart, attempts, faults,
              historyVars>>

\* The service makes the target unbootable, writes it, then activates it.
RaucMarkTarget ==
  /\ rauc.phase = "started" /\ power = "up"
  /\ IF MarkBadAllowed(meta, rauc.target)
     THEN /\ meta' = mark_bad(meta, rauc.target)
          /\ rauc' = [rauc EXCEPT !.phase = "marked"]
     ELSE /\ rauc' = [rauc EXCEPT !.phase = "failed"]
          /\ UNCHANGED meta
  /\ UNCHANGED image /\ RaucUnchanged

RaucWrite ==
  /\ power = "up"
  /\ \/ /\ rauc.phase = "marked"
        /\ image' = [image EXCEPT ![rauc.target] = PartialImage]
        /\ rauc' = [rauc EXCEPT !.phase = "writing"]
     \/ /\ rauc.phase = "writing"
        /\ image' = [image EXCEPT ![rauc.target] = rauc.image]
        /\ rauc' = [rauc EXCEPT !.phase = "written"]
  /\ UNCHANGED meta /\ RaucUnchanged

RaucActivate ==
  /\ rauc.phase = "written" /\ power = "up"
  /\ meta' = set_primary(meta, rauc.target)
  /\ rauc' = [rauc EXCEPT !.phase = "done"]
  /\ UNCHANGED image /\ RaucUnchanged

RaucFails ==
  /\ rauc.phase \in {"started", "marked", "writing", "written"} /\ power = "up"
  /\ rauc' = [rauc EXCEPT !.phase = "failed"]
  /\ UNCHANGED <<meta, image>> /\ RaucUnchanged

RaucStep == RaucMarkTarget \/ RaucWrite \/ RaucActivate
-----------------------------------------------------------------------------
(* The new boot: health check, confirmation, rollback, reports.            *)

\* candidate_release_valid: the running release is the attempt's target.
CandidateReleaseValid == image[booted].release = m.target

\* mark() of rauc_adapter.c up to the RAUC call: the running slot is re-read
\* and must be the candidate.
MarkIdentityFails ==
  \E q \in {NoSlot, booted} :
    /\ CurrentSlot(q)
    /\ q # m.expected_candidate_slot
    /\ Fail("IDENTITY_AMBIGUOUS", "loop")

\* A candidate that runs another release than the attempt's is an error; it
\* is neither confirmed nor marked bad.
WrongRelease ==
  /\ ~CandidateReleaseValid
  /\ Fail("RAUC_IDENTITY_MISMATCH", "loop")

HealthPasses ==
  /\ InState("HEALTH_CHECK")
  /\ IF CandidateReleaseValid
     THEN /\ booted = m.expected_candidate_slot
          /\ Advance("MARK_GOOD")
          /\ healthy' = healthy \cup {m.attempt_id}
     ELSE WrongRelease /\ UNCHANGED healthy
  /\ OutsideUnchanged /\ UNCHANGED <<attempts, faults, installs, reported>>

\* Unhealthy: mark the candidate bad, and only then record the rollback.  The
\* CLI may fail although the metadata was written.
HealthRejects ==
  /\ InState("HEALTH_CHECK")
  /\ CandidateReleaseValid
  /\ \/ MarkIdentityFails /\ UNCHANGED meta
     \/ /\ booted = m.expected_candidate_slot
        /\ MarkBadAllowed(meta, booted)
        /\ meta' = mark_bad(meta, booted)
        /\ \/ Transition([m EXCEPT !.state = "ROLLBACK",
                                   !.last_error = "HEALTH_FAILED",
                                   !.reboot_context = "health_failure"],
                         "reboot")
           \/ Fail("RAUC_MARK_BAD_FAILED", "loop")
        /\ UNCHANGED faults
     \/ /\ booted = m.expected_candidate_slot
        /\ Fail("RAUC_MARK_BAD_FAILED", "loop")
        /\ UNCHANGED <<meta, faults>>
  /\ UNCHANGED <<disk, bootVars, autostart, image, rauc, attempts, historyVars>>

\* MARK_GOOD: confirm the running candidate, once its identity is certain.
MarkGood ==
  /\ InState("MARK_GOOD")
  /\ \/ MarkIdentityFails /\ UNCHANGED meta
     \/ /\ booted = m.expected_candidate_slot
        /\ IF CandidateReleaseValid
           THEN \/ /\ MarkGoodAllowed(meta, m.expected_candidate_slot, booted)
                   /\ meta' = mark_good(meta, booted)
                   /\ \/ Advance("REPORT_SUCCESS")
                      \/ Fail("RAUC_MARK_GOOD_FAILED", "loop")
                \/ Fail("RAUC_MARK_GOOD_FAILED", "loop") /\ UNCHANGED meta
           ELSE WrongRelease /\ UNCHANGED meta
        /\ UNCHANGED faults
  /\ UNCHANGED <<disk, bootVars, autostart, image, rauc, attempts, historyVars>>

\* A report reaches the server, whether or not the agent learns of it.
Delivered(outcome) ==
  reported' = IF m.attempt_id = 0 THEN reported
              ELSE reported \cup {<<m.attempt_id, outcome>>}

\* REPORT_SUCCESS: acknowledged, lost answer (retry), or a refusal that ends
\* the process and keeps the durable obligation.
ReportSuccess ==
  /\ InState("REPORT_SUCCESS")
  /\ \/ Delivered("success") /\ Transition(ota_persistent_state_init, "loop")
     \/ Delivered("success") /\ UNCHANGED agentVars
     \/ GoTo("exit") /\ UNCHANGED reported
  /\ OutsideUnchanged /\ UNCHANGED <<attempts, faults, installs, healthy>>

\* ERROR and ROLLBACK are reported and never left.
ReportTerminal ==
  /\ InState("ERROR") \/ InState("ROLLBACK")
  /\ \/ Delivered("failure") /\ GoTo("exit")
     \/ Delivered("failure") /\ UNCHANGED agentVars
     \/ GoTo("exit") /\ UNCHANGED reported
  /\ OutsideUnchanged /\ UNCHANGED <<attempts, faults, installs, healthy>>

RebootPending ==
  /\ InState("REBOOT_PENDING")
  /\ GoTo("reboot")
  /\ OutsideUnchanged /\ UNCHANGED <<attempts, faults, historyVars>>

\* ota_state_machine_reboot: unless the record asks for no reboot, save it again
\* and replace the process by /sbin/reboot.
RebootRequest ==
  /\ pc = "reboot"
  /\ IF RebootAuthorised(m)
     THEN \/ SaveSucceeds(m) /\ ProcessEnds /\ rebooting' = TRUE
          \/ /\ SaveFails(disk, m)
             /\ pc' = "exit" /\ blocked' = TRUE
             /\ UNCHANGED <<m, next, cont, rebooting>>
          \/ /\ Fault("reboot")
             /\ disk' = [visible |-> m, stable |-> m]
             /\ IF m.last_error = "NONE" THEN Fail("REBOOT_FAILED", "exit")
                                         ELSE GoTo("exit")
             /\ UNCHANGED rebooting
     ELSE GoTo("exit") /\ UNCHANGED <<disk, faults, rebooting>>
  /\ UNCHANGED <<power, booted, boot_id, autostart, meta, image, rauc,
                 attempts, historyVars>>
-----------------------------------------------------------------------------
(* The environment: signals, power, bootloader.                            *)

\* SIGTERM: the run loop leaves at its next turn.
Stop ==
  /\ pc = "loop"
  /\ Fault("stop")
  /\ ProcessEnds
  /\ OutsideUnchanged /\ UNCHANGED <<attempts, historyVars>>

\* The process dies at any point, even between an effect and its record.
Kill ==
  /\ pc # "down"
  /\ Fault("kill")
  /\ ProcessEnds
  /\ OutsideUnchanged /\ UNCHANGED <<attempts, historyVars>>

DeviceGoesDown ==
  /\ power' = "booting"
  /\ rebooting' = FALSE
  /\ autostart' = FALSE
  /\ rauc' = IdleJob
  /\ ProcessEnds
  /\ UNCHANGED <<booted, boot_id, meta, image, attempts, historyVars>>

\* The reboot the agent asked for: file systems are synced.
OrderlyReboot ==
  /\ power = "up" /\ rebooting
  /\ disk' = [disk EXCEPT !.stable = disk.visible]
  /\ DeviceGoesDown
  /\ UNCHANGED faults

\* Power fails: a rename that was never synced may be undone.
PowerLoss ==
  /\ power = "up"
  /\ Fault("power")
  /\ \E s \in {disk.visible, disk.stable} :
       disk' = [visible |-> s, stable |-> s]
  /\ DeviceGoesDown

\* The bootloader tries the primary slot; only an unconfirmed one may crash.
BootAttempt ==
  LET d == NormaliseExhausted(meta)
      slot == primary_slot(d)
  IN /\ power = "booting"
     /\ slot # NoPrimary
     /\ meta' = ConsumeTry(d, slot)
     /\ \/ /\ image[slot] # PartialImage
           /\ booted' = slot
           /\ boot_id' = boot_id + 1
           /\ power' = "up" /\ autostart' = TRUE
        \/ /\ d.slots[slot].successful_boot = 0
           /\ UNCHANGED <<booted, boot_id, power, autostart>>
     /\ UNCHANGED <<agentVars, disk, rebooting, image, rauc, attempts, faults,
                    historyVars>>
-----------------------------------------------------------------------------
\* The agent's own steps, each one a bounded computation or a call with a
\* timeout.
AgentStep ==
  \/ StartAtBoot \/ Recover \/ Started \/ Commit \/ Exit
  \/ Idle \/ CheckNetwork
  \/ CheckUpdateNothing \/ CheckUpdateFound \/ CheckUpdateFails
  \/ PrecheckPhase \/ DownloadPhase \/ RaucVerify
  \/ InstallCall \/ InstallSucceeds \/ InstallFails
  \/ HealthPasses \/ HealthRejects \/ MarkGood
  \/ ReportSuccess \/ ReportTerminal \/ RebootPending \/ RebootRequest

Environment ==
  \/ OperatorStart \/ StartFails
  \/ RaucStep \/ RaucFails
  \/ Stop \/ Kill \/ PowerLoss \/ OrderlyReboot \/ BootAttempt

Next == AgentStep \/ Environment

Spec == Init /\ [][Next]_vars

-----------------------------------------------------------------------------
(* Safety.                                                                 *)

Native(s) == native_state(meta.slots[s])

\* Whatever crashes, restarts, failed saves and power losses happen, rauc
\* install is called at most once for one attempt id (the destructive phase
\* is never replayed by recovery).
InstallAtMostOnce == \A a \in Attempts : installs[a] <= 1

\* A slot becomes confirmed-good with an attempt's image only after that
\* attempt's candidate passed its health check, and never half written.
ConfirmedOnlyAfterHealth ==
  \A s \in Slots : Native(s) = "confirmed-good" =>
    /\ image[s] # PartialImage
    /\ image[s].attempt \in healthy \cup {0}

\* There is always a confirmed-good slot with a complete image to fall back
\* to: during the installation, the trial boots, a rollback, and after any
\* interruption of them.
FallbackExists ==
  \E s \in Slots : Native(s) = "confirmed-good" /\ image[s] # PartialImage

\* The bootloader's next choice is never a slot whose image is only partly
\* written, at whatever moment the power fails.
NeverSelectsPartialImage ==
  LET s == primary_slot(NormaliseExhausted(meta))
  IN s # NoPrimary /\ image[s] # PartialImage

\* The durable REPORT_SUCCESS obligation exists only for a candidate that the
\* metadata confirms and that holds this attempt's image.
SuccessMeansConfirmed ==
  LET d == disk.visible IN
  d.state = "REPORT_SUCCESS" =>
    /\ Native(d.expected_candidate_slot) = "confirmed-good"
    /\ image[d.expected_candidate_slot].attempt = d.attempt_id

\* A recorded health rollback was armed first: the candidate is bad and the
\* previous slot is confirmed and next in line.
RollbackArmed ==
  LET d == disk.visible IN
  d.state = "ROLLBACK" /\ d.reboot_context = "health_failure" =>
    /\ Native(d.expected_candidate_slot) = "bad"
    /\ primary_slot(meta) = d.previous_slot

\* What the server heard of an attempt stands: once it was told of a success it is
\* never told of a failure, and the device holds no failed record of that attempt,
\* neither visibly nor where a power loss would bring it back ("accepted candidate
\* and report delivery are two commits; neither may be rolled back",
\* docs/R4/02_FROZEN_CONTRACTS.md:82), in whatever order failed saves, restarts
\* and power losses let reports repeat.
NoConflictingReports ==
  \A a \in Attempts : <<a, "success">> \in reported =>
    /\ <<a, "failure">> \notin reported
    /\ \A r \in {disk.visible, disk.stable} :
         ~(r.attempt_id = a /\ r.state \in {"ERROR", "ROLLBACK"})

\* A terminal record, with the cause it carries, is never replaced while the
\* device is up: not by reporting, not by a failing reboot request, not by a
\* restart.
TerminalIsFinal ==
  [][ disk.visible.state \in {"ERROR", "ROLLBACK"} /\ power' = "up"
        => disk'.visible = disk.visible ]_vars

\* The agent reboots the device only from a durable record that asks for it:
\* into the freshly written candidate, in the boot that installed it, or away
\* from a candidate already marked bad.  It never reboots the previous slot
\* after a fallback.
RebootOnlyWhenArmed ==
  [][ ~rebooting /\ rebooting' =>
        LET d == disk'.stable IN
        \/ /\ d.state = "REBOOT_PENDING"
           /\ d.boot_id_before = boot_id
           /\ primary_slot(meta) = d.expected_candidate_slot
           /\ image[d.expected_candidate_slot].attempt = d.attempt_id
        \/ /\ d.state = "ROLLBACK"
           /\ booted = d.expected_candidate_slot
           /\ primary_slot(meta) = d.previous_slot ]_vars

-----------------------------------------------------------------------------
(* The inductive invariant behind InstallAtMostOnce.                       *)

\* A durable or loaded record is consistent and belongs to an attempt already
\* drawn; while it stands before the installation, nothing was installed for it.
RecordInv(r) ==
  \/ r = NoFile
  \/ /\ ota_persistent_state_validate(r)
     /\ r.attempt_id <= attempts /\ r.target <= MaxRelease
     /\ r.state \in PrepareStates => installs[r.attempt_id] = 0

\* A record on its way to the disk: what TransitionAccepted does not check.
PendingInv ==
  /\ next.attempt_id <= attempts /\ next.target <= MaxRelease
  /\ pc = "commit" =>
       /\ next.state \in PrepareStates \cup {"INSTALLING"} =>
            installs[next.attempt_id] = 0
       /\ cont = "started" => next.state # "INSTALLING"

\* The destructive phase is entered with its intent safe on the disk, never
\* through a restart, and with no install call behind it.
IntentInv ==
  /\ pc = "started" => m.state # "INSTALLING"
  /\ pc = "loop" /\ m.state = "INSTALLING" =>
       /\ disk.visible = m /\ disk.stable = m
       /\ installs[m.attempt_id] = 0

AttemptInv ==
  /\ RecordInv(m) /\ RecordInv(disk.visible) /\ RecordInv(disk.stable)
  /\ PendingInv
  /\ IntentInv
  /\ \A a \in Attempts : a > attempts => installs[a] = 0
  /\ InstallAtMostOnce

\* Why the destructive phase is never replayed: before rauc install runs its
\* intent is durable in both views of the disk, so no restart and no power loss
\* can bring back a record from before the call.  This is InstallAtMostOnce
\* strengthened until every step preserves it.
InstallInv ==
  /\ TypeOK
  /\ AttemptInv
-----------------------------------------------------------------------------
(* The device implements the abstract trial update of its slots.           *)

\* A slot that is neither confirmed nor bad is on trial: pending, or running on the
\* last of its tries.
SlotStatus(s) ==
  CASE Native(s) = "confirmed-good" -> "good"
    [] Native(s) = "bad" -> "bad"
    [] OTHER -> "trial"

Trial == INSTANCE AbTrial WITH
  Partial <- PartialImage,
  status <- [s \in Slots |-> SlotStatus(s)],
  holds <- image,
  running <- booted,
  choice <- primary_slot(meta),
  passed <- healthy

\* Agent, RAUC service, tool and bootloader together, with all their records and
\* restarts, do to the slots what a trial update may do, and nothing else: no slot in
\* service is written, none is retired without a peer to fall back to, and none is
\* confirmed but the running one after its own health check.
TrialUpdate == Trial!Spec
-----------------------------------------------------------------------------
(* The inductive invariant behind the promises about the slots.            *)

Fallback(s) == Native(s) = "confirmed-good" /\ image[s] # PartialImage

\* Nothing is under way: the running slot is confirmed and the bootloader's
\* choice, and the RAUC service has no job.
Settled ==
  /\ rauc.phase = "idle"
  /\ Fallback(booted)
  /\ meta.slots[booted].priority > meta.slots[Other(booted)].priority

\* The candidate of record r has no verdict yet: it is not confirmed, and bad only
\* after its trials ended, when another slot runs.
Unjudged(r) ==
  /\ Native(r.expected_candidate_slot) # "confirmed-good"
  /\ power = "up" /\ booted = r.expected_candidate_slot => Native(booted) # "bad"

\* The candidate of record r is written, and the previous slot is still there to
\* fall back to; it is activated, healthy or confirmed as far as r says.
OnTrial(r) ==
  /\ rauc.phase = "idle"
  /\ Fallback(r.previous_slot)
  /\ meta.slots[r.previous_slot].priority < AB_MAX_PRIORITY
  /\ image[r.expected_candidate_slot] = [release |-> r.target, attempt |-> r.attempt_id]
  /\ r.state \in {"REBOOT_PENDING", "BOOT_NEW_SLOT"} => Unjudged(r)
  /\ r.state \in {"MARK_GOOD", "REPORT_SUCCESS"} => r.attempt_id \in healthy
  /\ r.state = "REPORT_SUCCESS" => booted = r.expected_candidate_slot /\ Settled
  /\ r.state = "REBOOT_PENDING" /\ r.boot_id_before = boot_id /\ power = "up" =>
       booted = r.previous_slot /\ primary_slot(meta) = r.expected_candidate_slot

\* The candidate is out of the bootloader's reach.
Armed(r) ==
  /\ rauc.phase = "idle"
  /\ Native(r.expected_candidate_slot) = "bad"
  /\ Fallback(r.previous_slot)

\* What a record that may be read after a restart tells of the device.
StandsFor(r) ==
  /\ r.state \in IdleStates \cup PrepareStates \cup {NoFile.state} => Settled
  /\ r.state \in {"REBOOT_PENDING", "BOOT_NEW_SLOT", "HEALTH_CHECK", "MARK_GOOD",
                  "REPORT_SUCCESS"} => OnTrial(r)
  /\ r.state = "ROLLBACK" => r.last_error # "NONE"
  /\ r.state = "ROLLBACK" /\ r.reboot_context = "health_failure" => Armed(r)
  /\ r.boot_id_before <= boot_id

\* The slots: a half written one is bad, an installed one is confirmed only after
\* its health check, and one is always there to fall back to.
SlotInv ==
  /\ \A s \in Slots : image[s] = PartialImage => Native(s) = "bad"
  /\ ConfirmedOnlyAfterHealth
  /\ FallbackExists

\* The RAUC service works on the peer of a confirmed slot, never on the running one,
\* whatever became of the agent that asked for it.
JobInv ==
  LET target == rauc.target IN
  /\ rauc.phase \notin {"idle", "failed"} =>
       /\ target \in Slots /\ target # booted
       /\ rauc.image # PartialImage /\ Fallback(Other(target))
  /\ rauc.phase \in {"marked", "writing", "written"} => Native(target) = "bad"
  /\ rauc.phase \in {"written", "done"} => image[target] = rauc.image
  /\ rauc.phase = "done" =>
       /\ primary_slot(meta) = target /\ Native(target) = "pending"
       /\ meta.slots[Other(target)].priority < AB_MAX_PRIORITY

\* The identity RAUC_VERIFY captured is still the device's.
HereAndNow(r) == r.previous_slot = booted /\ r.boot_id_before = boot_id

\* The process: its record is the visible one and safe on the disk, by the sync at
\* the start and by leaving after a save that failed; reboots have their reason.
ControlInv ==
  /\ power = "booting" => pc = "down" /\ rauc.phase = "idle"
  /\ pc = "down" => m = ota_persistent_state_init
  /\ pc \notin {"down", "exit"} => m = disk.visible /\ m = disk.stable
  /\ pc \in {"started", "loop", "reboot"} /\ m.state = "REBOOT_PENDING" =>
       m.boot_id_before = boot_id
  /\ pc = "loop" /\ m.state = "INSTALLING" => Settled /\ HereAndNow(m)
  /\ pc \in {"started", "loop"} /\ m.state \in {"HEALTH_CHECK", "MARK_GOOD"} => Unjudged(m)
  /\ pc = "installing" =>
       /\ m.state = "INSTALLING" /\ HereAndNow(m) /\ rauc.phase # "idle"
       /\ rauc.target = m.expected_candidate_slot
       /\ rauc.image = [release |-> m.target, attempt |-> m.attempt_id]
  /\ pc = "reboot" =>
       RebootAuthorised(m) /\ (m.state = "ROLLBACK" => booted = m.expected_candidate_slot)

\* A transition under way.
PendingStandsFor ==
  pc = "commit" =>
    /\ m.state \notin {"ERROR", "ROLLBACK"}
    /\ StandsFor(next)
    /\ next.state = "INSTALLING" => Settled /\ HereAndNow(next)
    /\ next.state \in {"HEALTH_CHECK", "MARK_GOOD"} => Unjudged(next)
    /\ next.state = "REBOOT_PENDING" => next.boot_id_before = boot_id
    /\ cont = "reboot" => RebootAuthorised(next) /\ next.state = "ROLLBACK"
                             /\ booted = next.expected_candidate_slot
    /\ cont \notin {"down", "commit", "installing"}

\* Why a whole, confirmed slot survives every interruption: each record a restart
\* can find fits the metadata, the images and the RAUC job as they are.
DeviceInv ==
  /\ InstallInv
  /\ SlotInv /\ JobInv
  /\ StandsFor(disk.visible) /\ StandsFor(disk.stable)
  /\ ControlInv /\ PendingStandsFor
-----------------------------------------------------------------------------
(* Liveness.  Every agent step is a bounded computation or a call with a   *)
(* deadline; the init script starts the agent once per boot; a reboot that *)
(* was requested and a boot that began go on.  Nothing is assumed of       *)
(* operators, faults or retries over the network.                          *)

Fairness ==
  /\ WF_vars(AgentStep)
  /\ WF_vars(OrderlyReboot)
  /\ WF_vars(BootAttempt)

LiveSpec == Spec /\ Fairness

\* From the destructive install call on, an attempt does not hang: the durable
\* record reaches success, rollback or error, through reboots, boot crashes
\* and power losses.
Unresolved == {"INSTALLING", "REBOOT_PENDING", "BOOT_NEW_SLOT", "HEALTH_CHECK",
               "MARK_GOOD"}
InstallResolves ==
  disk.visible.state \in Unresolved ~> disk.visible.state \notin Unresolved

\* A candidate that was rejected by its health check is left: the device comes
\* up again on the previous slot.
RejectedCandidateIsLeft ==
  (disk.visible.state = "ROLLBACK" /\ disk.visible.reboot_context = "health_failure")
    ~> (power = "up" /\ booted = disk.visible.previous_slot)

=============================================================================
