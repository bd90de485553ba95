------------------------------ MODULE OtaModel ------------------------------
(***************************************************************************)
(* The durable record of the OTA agent (include/edgeguard_ota/model.h) and *)
(* the pure rules over it: which transitions exist, which records are      *)
(* consistent, what may change within one update attempt.                  *)
(*                                                                         *)
(* Data abstraction.  attempt_id is the attempt's UUID drawn as a number,  *)
(* 0 the empty string.  target stands for the five manifest fields that    *)
(* travel together (version, build, URL, size, SHA-256): a release number, *)
(* 0 when empty.  boot_id_before is a boot UUID drawn as a number, 0 when  *)
(* empty.  last_error keeps the code and drops the message.                *)
(***************************************************************************)
EXTENDS Naturals, AbSlots

\* OTA_SLOT_UNKNOWN: also the answer of a failed current-slot query.
NoSlot == "unknown"

\* State names in the order of the C enumeration, split where the code
\* compares positions: before an attempt exists, attempt without reboot
\* identity, attempt with reboot identity.
IdleStates == {"IDLE", "CHECK_NETWORK", "CHECK_UPDATE"}
PrepareStates == {"PRECHECK", "DOWNLOADING", "VERIFY_DOWNLOAD", "RAUC_VERIFY"}
InstalledStates == {"INSTALLING", "REBOOT_PENDING", "BOOT_NEW_SLOT",
                    "HEALTH_CHECK", "MARK_GOOD", "REPORT_SUCCESS", "ROLLBACK"}
OtaStates == IdleStates \cup PrepareStates \cup InstalledStates \cup {"ERROR"}

\* The error codes the agent's own control flow stores; a phase's detailed
\* transport and parsing codes share PHASE_FAILED.
OtaErrorCodes == {"NONE", "PHASE_FAILED", "DOWNGRADE_REJECTED",
                  "ILLEGAL_TRANSITION", "RAUC_IDENTITY_MISMATCH",
                  "RAUC_INSTALL_FAILED", "RAUC_MARK_GOOD_FAILED",
                  "RAUC_MARK_BAD_FAILED", "HEALTH_FAILED",
                  "IDENTITY_AMBIGUOUS", "REBOOT_CONTEXT_INVALID",
                  "REBOOT_FAILED"}

OtaRebootContexts == {"none", "install", "health_failure"}

OtaPersistentStates ==
  [state : OtaStates, attempt_id : Nat, target : Nat,
   last_error : OtaErrorCodes, previous_slot : Slots \cup {NoSlot},
   expected_candidate_slot : Slots \cup {NoSlot}, boot_id_before : Nat,
   reboot_context : OtaRebootContexts]

ota_persistent_state_init ==
  [state |-> "IDLE", attempt_id |-> 0, target |-> 0, last_error |-> "NONE",
   previous_slot |-> NoSlot, expected_candidate_slot |-> NoSlot,
   boot_id_before |-> 0, reboot_context |-> "none"]

\* ota_persistence_load's "missing" answer: no state file at the path.
NoFile == [ota_persistent_state_init EXCEPT !.state = "MISSING"]
-----------------------------------------------------------------------------
transitions ==
  { <<"IDLE", "CHECK_NETWORK">>, <<"CHECK_NETWORK", "CHECK_UPDATE">>,
    <<"CHECK_UPDATE", "PRECHECK">>, <<"CHECK_UPDATE", "IDLE">>,
    <<"PRECHECK", "IDLE">>, <<"PRECHECK", "DOWNLOADING">>,
    <<"DOWNLOADING", "VERIFY_DOWNLOAD">>,
    <<"VERIFY_DOWNLOAD", "RAUC_VERIFY">>, <<"RAUC_VERIFY", "INSTALLING">>,
    <<"INSTALLING", "REBOOT_PENDING">>,
    <<"REBOOT_PENDING", "BOOT_NEW_SLOT">>,
    <<"BOOT_NEW_SLOT", "HEALTH_CHECK">>, <<"BOOT_NEW_SLOT", "ROLLBACK">>,
    <<"HEALTH_CHECK", "MARK_GOOD">>, <<"HEALTH_CHECK", "ROLLBACK">>,
    <<"MARK_GOOD", "REPORT_SUCCESS">>, <<"REPORT_SUCCESS", "IDLE">> }

ota_transition_allowed(from, to) ==
  /\ from # to
  /\ to = "ERROR" \/ <<from, to>> \in transitions

\* A record is consistent when its attempt identity, its reboot identity and
\* its error are present exactly where the state calls for them.
ota_persistent_state_validate(s) ==
  LET has_attempt == s.attempt_id # 0
      has_boot == s.previous_slot # NoSlot
  IN /\ s \in OtaPersistentStates
     /\ has_attempt <=> s.target # 0
     /\ s.state \in PrepareStates \cup InstalledStates => has_attempt
     /\ s.state \in IdleStates => ~has_attempt
     /\ IF has_boot
        THEN /\ has_attempt
             /\ s.expected_candidate_slot = Other(s.previous_slot)
             /\ s.boot_id_before # 0
             /\ s.reboot_context # "none"
        ELSE /\ s.expected_candidate_slot = NoSlot
             /\ s.boot_id_before = 0
             /\ s.reboot_context = "none"
     /\ s.state \in InstalledStates => has_boot
     /\ s.state \in IdleStates \cup PrepareStates => ~has_boot
     /\ s.reboot_context = "health_failure" => s.state \in {"ROLLBACK", "ERROR"}
     /\ s.state = "ERROR" => s.last_error # "NONE"
     /\ s.state \notin {"ERROR", "ROLLBACK"} => s.last_error = "NONE"

same_attempt(a, b) == a.attempt_id = b.attempt_id /\ a.target = b.target

\* The guard of ota_state_machine_transition on what one attempt may change.
IdentityKept(old, new) ==
  \/ new.state = "IDLE"
  \/ /\ old.attempt_id # 0 => same_attempt(old, new)
     /\ old.previous_slot # NoSlot =>
          /\ old.previous_slot = new.previous_slot
          /\ old.expected_candidate_slot = new.expected_candidate_slot
          /\ old.boot_id_before = new.boot_id_before
     /\ \/ new.reboot_context = old.reboot_context
        \/ /\ <<old.state, new.state>> = <<"RAUC_VERIFY", "INSTALLING">>
           /\ new.reboot_context = "install"
        \/ /\ <<old.state, new.state>> = <<"HEALTH_CHECK", "ROLLBACK">>
           /\ new.reboot_context = "health_failure"

\* What ota_state_machine_transition refuses before it touches the disk.
TransitionAccepted(old, new) ==
  /\ ota_transition_allowed(old.state, new.state)
  /\ ota_persistent_state_validate(new)
  /\ IdentityKept(old, new)

ErrorRecord(s, code) == [s EXCEPT !.state = "ERROR", !.last_error = code]

\* Mutants: a state whose replay was forgotten.
ReplaySafe_NoRollback == IdleStates \cup PrepareStates
                           \cup {"REPORT_SUCCESS", "ERROR"}
ReplaySafe_NoReport == IdleStates \cup PrepareStates \cup {"ROLLBACK", "ERROR"}

\* States a restarted process resumes from as they stand.
ReplaySafeStates == IdleStates \cup PrepareStates
                      \cup {"REPORT_SUCCESS", "ROLLBACK", "ERROR"}

\* The cause recovery records for an interrupted phase it will not replay.
InterruptedCause(state) ==
  CASE state = "INSTALLING" -> "RAUC_INSTALL_FAILED"
    [] state = "MARK_GOOD" -> "RAUC_MARK_GOOD_FAILED"
    [] state = "HEALTH_CHECK" -> "HEALTH_FAILED"
    [] OTHER -> "REBOOT_CONTEXT_INVALID"

\* Mutant: the health rollback is not a reason to reboot.
RebootAuthorised_InstallOnly(s) == s.state = "REBOOT_PENDING"

RebootAuthorised(s) ==
  \/ s.state = "REBOOT_PENDING"
  \/ s.state = "ROLLBACK" /\ s.reboot_context = "health_failure"

=============================================================================
