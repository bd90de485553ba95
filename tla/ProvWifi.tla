------------------------------ MODULE ProvWifi ------------------------------
(***************************************************************************)
(* The provisioning daemon's mutations: one worker at a time (operations.c)*)
(* changes the canonical store (store.c) and the derived ConnMan profile   *)
(* (connman.c); the main loop reconciles the profile with the store while  *)
(* ConnMan is there (main.c).  One action is one call that a kill, a power *)
(* loss or the main loop could come between.                               *)
(*                                                                         *)
(* dirs holds the store's directory: the versions since the last fsync of  *)
(* it, the current one last; a power loss keeps any of them.  Files are    *)
(* written aside and synced before they are renamed, so a name holds a     *)
(* whole value or nothing.  Generations and temporary names are left out.  *)
(* The profile is on the root file system of the running slot: after a     *)
(* reboot into the other slot it is whatever that one held.                *)
(*                                                                         *)
(* The OTA agent is here as the reader of the endpoint: it reads it when a *)
(* cycle begins, before the record that it is not IDLE is written, and     *)
(* again when it is restarted in a cycle (its main.c).  ConnMan is         *)
(* external: what it answers is a free choice.                             *)
(***************************************************************************)
EXTENDS Naturals, Sequences

CONSTANTS Networks,     \* Wi-Fi configurations
          Endpoints,    \* server URLs
          Nothing,      \* no such file
          MaxRequests,  \* bound: operations submitted in one behaviour
          MaxFaults,    \* bound: failing calls, kills, power losses
          MaxCycles     \* bound: update cycles of the agent

ASSUME ProvWifiAssumption ==
  /\ Nothing \notin Networks \cup Endpoints
  /\ MaxRequests \in Nat /\ MaxFaults \in Nat /\ MaxCycles \in Nat

VARIABLES
  dirs,      \* [wifi, forget, runtime]: wifi.json, its tombstone, runtime.json
  profile,   \* the derived ConnMan profile
  w,         \* Work: the operation of the worker thread, and its result
  daemon,    \* "up", "stopping" (operations->closing) or "down"
  connman,   \* connman_present
  retry,     \* connman_retry_source is armed
  shown,     \* status->provisioning_state
  settled,   \* history: reconciled since ConnMan appeared
  agent,     \* the agent: its state on the medium, and the cycle's endpoint
  requests, faults, cycles

agentVars == <<agent, cycles>>
mainVars == <<daemon, connman, retry, settled, requests, agentVars>>
vars == <<dirs, profile, w, daemon, connman, retry, shown, settled,
          requests, faults, agentVars>>

Files == [wifi : Networks \cup {Nothing}, forget : Networks \cup {Nothing},
          runtime : Endpoints \cup {Nothing}]
Ops == {"SET_WIFI", "FORGET_WIFI", "SET_ENDPOINT", "CHECK_UPDATE_NOW", "reconcile"}
PCs == {"idle", "gate", "replace", "endpoint", "ask", "begin", "pending",
        "sync", "profile", "associate", "publish", "restore", "restored",
        "revoke", "confirm", "remove", "finish", "finished", "done"}

\* EgpProvisioningState; the failures of network and dependency are one.
Shown == {"UNPROVISIONED", "APPLYING", "ASSOCIATING", "CONNECTED", "FAILED"}
Changes == {"NONE", "COMMITTED", "ROLLED_BACK", "UNCERTAIN"}

\* EgpConnmanDisposition and the state that goes with it.
Dispositions == {"CONNECTED", "ROLLBACK_ALLOWED", "RETAIN_CANONICAL"}

NoWork == [pc |-> "idle", op |-> "reconcile", value |-> Nothing,
           previous |-> Nothing, after |-> "idle", undoing |-> FALSE,
           complete |-> FALSE, cancelled |-> FALSE, raced |-> FALSE, ok |-> FALSE,
           change |-> "NONE", disposition |-> "RETAIN_CANONICAL",
           state |-> "FAILED"]

\* The agent at IDLE, on the medium too.
NoCycle == [pc |-> "idle", durable |-> FALSE, endpoint |-> Nothing, bound |-> Nothing]

Works == [pc : PCs, op : Ops, value : Networks \cup Endpoints \cup {Nothing},
          previous : Networks \cup {Nothing}, after : PCs, undoing : BOOLEAN,
          complete : BOOLEAN, cancelled : BOOLEAN, raced : BOOLEAN,
          ok : BOOLEAN, change : Changes, disposition : Dispositions, state : Shown]

TypeOK ==
  /\ dirs \in Seq(Files) /\ dirs # <<>>
  /\ profile \in Networks \cup {Nothing}
  /\ w \in Works
  /\ daemon \in {"up", "stopping", "down"}
  /\ {connman, retry, settled} \subseteq BOOLEAN
  /\ shown \in Shown
  /\ agent \in [pc : {"down", "idle", "begun", "cycle"}, durable : BOOLEAN,
                endpoint : Endpoints \cup {Nothing}, bound : Endpoints \cup {Nothing}]
  /\ requests \in 0..MaxRequests /\ faults \in 0..MaxFaults
  /\ cycles \in 0..MaxCycles

Here == dirs[Len(dirs)]

\* A fresh board: an empty store, no profile; the daemon has started.
Init ==
  /\ dirs = <<[wifi |-> Nothing, forget |-> Nothing, runtime |-> Nothing]>>
  /\ profile = Nothing
  /\ w = NoWork
  /\ daemon = "up" /\ connman = FALSE /\ retry = FALSE
  /\ shown = "UNPROVISIONED" /\ settled = FALSE
  /\ agent = NoCycle
  /\ requests = 0 /\ faults = 0 /\ cycles = 0
-----------------------------------------------------------------------------
(* Building blocks.                                                        *)

Fault == faults < MaxFaults /\ faults' = faults + 1

At(label) == w.pc = label
GoTo(label) == w' = [w EXCEPT !.pc = label]

\* The operation ends with this result; completed() will follow.
Result(ok, change) == w' = [w EXCEPT !.pc = "done", !.ok = ok, !.change = change]

\* A rename or unlink in the store, its directory sync still to come.
Change(files, after) ==
  /\ dirs' = Append(dirs, files)
  /\ w' = [w EXCEPT !.pc = "sync", !.after = after]

\* egp_status_agent_idle after the commit: the agent has left IDLE, or its
\* record cannot be read.
Races(work) == {[work EXCEPT !.raced = raced] : raced \in {agent.durable, TRUE}}

\* Success, or PROVISIONING_RACE.
Completed(change) ==
  w' = [w EXCEPT !.pc = "done", !.ok = ~w.raced, !.change = change, !.complete = TRUE]
-----------------------------------------------------------------------------
(* The main loop.                                                          *)

\* egp_operations_submit: one operation at a time.
Submit(op, value) ==
  /\ daemon = "up" /\ At("idle")
  /\ requests < MaxRequests /\ requests' = requests + 1
  /\ w' = [NoWork EXCEPT !.pc = "gate", !.op = op, !.value = value]
  /\ UNCHANGED <<dirs, profile, daemon, connman, retry, shown, settled, faults, agentVars>>

\* connman_appeared schedules a reconciliation.
ConnmanAppears ==
  /\ daemon = "up" /\ ~connman
  /\ connman' = TRUE /\ retry' = TRUE /\ settled' = FALSE
  /\ UNCHANGED <<dirs, profile, w, daemon, shown, requests, faults, agentVars>>

\* connman_vanished: no more retries, and the active operation is cancelled.
ConnmanVanishes ==
  /\ daemon = "up" /\ connman
  /\ connman' = FALSE /\ retry' = FALSE
  /\ w' = IF At("idle") THEN w ELSE [w EXCEPT !.cancelled = TRUE]
  /\ shown' = "FAILED"
  /\ UNCHANGED <<dirs, profile, daemon, settled, requests, faults, agentVars>>

\* Mutant: a busy worker ends the retries.
RetryFires_DropsWhenBusy ==
  /\ daemon = "up" /\ retry
  /\ retry' = FALSE
  /\ w' = IF At("idle") THEN [NoWork EXCEPT !.pc = "pending"] ELSE w
  /\ UNCHANGED <<dirs, profile, daemon, connman, shown, settled, requests, faults,
                 agentVars>>

\* connman_reconcile_retry: begin, or try again later when the worker is busy.
RetryFires ==
  /\ daemon = "up" /\ retry
  /\ IF At("idle")
     THEN w' = [NoWork EXCEPT !.pc = "pending"] /\ retry' = FALSE
     ELSE UNCHANGED <<w, retry>>
  /\ UNCHANGED <<dirs, profile, daemon, connman, shown, settled, requests, faults,
                 agentVars>>

\* completed: the worker is free; a failed reconciliation is scheduled again,
\* the result of an operation is published.
WorkerDone ==
  /\ At("done")
  /\ w' = NoWork
  /\ IF w.op = "reconcile" /\ daemon = "up"
     THEN /\ retry' = (retry \/ (~w.ok /\ connman))
          /\ settled' = (settled \/ w.ok)
     ELSE UNCHANGED <<retry, settled>>
  /\ UNCHANGED <<dirs, profile, daemon, connman, shown, requests, faults, agentVars>>

\* SIGTERM: egp_operations_free waits for the worker.
StopDaemon ==
  /\ daemon = "up"
  /\ daemon' = "stopping" /\ retry' = FALSE
  /\ UNCHANGED <<dirs, profile, w, connman, shown, settled, requests, faults, agentVars>>

DaemonEnds ==
  /\ daemon = "stopping" /\ At("idle")
  /\ daemon' = "down"
  /\ UNCHANGED <<dirs, profile, w, connman, retry, shown, settled, requests, faults,
                 agentVars>>

\* egp_store_open removes temporary files only; everything else starts afresh.
StartDaemon ==
  /\ daemon = "down"
  /\ daemon' = "up" /\ connman' = FALSE /\ retry' = FALSE
  /\ shown' = "UNPROVISIONED" /\ settled' = FALSE
  /\ UNCHANGED <<dirs, profile, w, requests, faults, agentVars>>

Kill ==
  /\ daemon # "down"
  /\ Fault
  /\ daemon' = "down" /\ w' = NoWork
  /\ UNCHANGED <<dirs, profile, connman, retry, shown, settled, requests, agentVars>>

\* The agent's process is gone; its record says whether a cycle is under way.
AgentGone ==
  IF agent.durable THEN [agent EXCEPT !.pc = "down", !.endpoint = Nothing]
  ELSE [NoCycle EXCEPT !.pc = "down"]

\* The board comes up again, perhaps in the other slot with its own profile.
PowerLoss ==
  /\ Fault
  /\ \E k \in DOMAIN dirs : dirs' = <<dirs[k]>>
  /\ profile' \in Networks \cup {Nothing}
  /\ daemon' = "down" /\ w' = NoWork
  /\ agent' = AgentGone
  /\ UNCHANGED <<connman, retry, shown, settled, requests, cycles>>
-----------------------------------------------------------------------------
(* The agent: its endpoint and the record of its state.                    *)

\* ota_runtime_endpoint_refresh: the override, or the default when there is
\* none or it cannot be read.
Refreshed(endpoint) ==
  \/ endpoint = Here.runtime /\ UNCHANGED faults
  \/ endpoint = Nothing /\ Here.runtime # Nothing /\ Fault

\* run at IDLE: the endpoint is read first, CHECK_NETWORK recorded then.
CycleBegins ==
  /\ agent.pc = "idle"
  /\ cycles < MaxCycles /\ cycles' = cycles + 1
  /\ \E e \in Endpoints \cup {Nothing} :
       Refreshed(e) /\ agent' = [pc |-> "begun", durable |-> FALSE,
                                 endpoint |-> e, bound |-> e]
  /\ UNCHANGED <<dirs, profile, w, daemon, connman, retry, shown, settled, requests>>

CycleRecorded ==
  /\ agent.pc = "begun"
  /\ agent' = [agent EXCEPT !.pc = "cycle", !.durable = TRUE]
  /\ UNCHANGED <<dirs, profile, w, daemon, connman, retry, shown, settled,
                 requests, faults, cycles>>

CycleEnds ==
  /\ agent.pc = "cycle"
  /\ agent' = NoCycle
  /\ UNCHANGED <<dirs, profile, w, daemon, connman, retry, shown, settled,
                 requests, faults, cycles>>

AgentDies ==
  /\ agent.pc # "down"
  /\ Fault
  /\ agent' = AgentGone
  /\ UNCHANGED <<dirs, profile, w, daemon, connman, retry, shown, settled,
                 requests, cycles>>

\* run with a record that is not IDLE: the endpoint is read again.
AgentStarts ==
  /\ agent.pc = "down"
  /\ IF agent.durable
     THEN \E e \in Endpoints \cup {Nothing} :
            Refreshed(e) /\ agent' = [agent EXCEPT !.pc = "cycle", !.endpoint = e]
     ELSE agent' = NoCycle /\ UNCHANGED faults
  /\ UNCHANGED <<dirs, profile, w, daemon, connman, retry, shown, settled,
                 requests, cycles>>
-----------------------------------------------------------------------------
(* The worker: entry of the operations.                                    *)

\* Parsing, stable_idle and authorize_commit refuse, or let the operation in;
\* then the agent may go on before the operation does.
GateRefuses ==
  /\ At("gate")
  /\ Result(FALSE, "NONE")
  /\ UNCHANGED <<dirs, profile, shown, faults, mainVars>>

\* Mutant: the old state stays on show while a new network is stored.
GatePasses_KeepsState ==
  /\ At("gate") /\ ~agent.durable
  /\ GoTo(CASE w.op = "SET_WIFI" -> "replace"
            [] w.op = "FORGET_WIFI" -> "begin"
            [] w.op = "SET_ENDPOINT" -> "endpoint"
            [] w.op = "CHECK_UPDATE_NOW" -> "ask")
  /\ UNCHANGED <<dirs, profile, shown, faults, mainVars>>

GatePasses ==
  /\ At("gate") /\ ~agent.durable
  /\ GoTo(CASE w.op = "SET_WIFI" -> "replace"
            [] w.op = "FORGET_WIFI" -> "begin"
            [] w.op = "SET_ENDPOINT" -> "endpoint"
            [] w.op = "CHECK_UPDATE_NOW" -> "ask")
  /\ shown' = IF w.op = "SET_WIFI" THEN "APPLYING" ELSE shown
  /\ UNCHANGED <<dirs, profile, faults, mainVars>>

\* check_update: the agent's control socket answers; nothing is stored.
CheckUpdate ==
  /\ At("ask")
  /\ \E ok \in BOOLEAN : Result(ok, "NONE")
  /\ UNCHANGED <<dirs, profile, shown, faults, mainVars>>

\* egp_store_replace_wifi, _replace_runtime: rename over the old file.
ReplaceWifi ==
  /\ At("replace")
  /\ dirs' = Append(dirs, [Here EXCEPT !.wifi = w.value])
  /\ w' = [w EXCEPT !.pc = "sync", !.after = "profile", !.previous = Here.wifi]
  /\ UNCHANGED <<profile, shown, faults, mainVars>>

\* Mutant: the endpoint goes into the wrong file.
ReplaceRuntime_WrongFile ==
  /\ At("endpoint")
  /\ Change([Here EXCEPT !.wifi = w.value], "finished")
  /\ UNCHANGED <<profile, shown, faults, mainVars>>

ReplaceRuntime ==
  /\ At("endpoint")
  /\ Change([Here EXCEPT !.runtime = w.value], "finished")
  /\ UNCHANGED <<profile, shown, faults, mainVars>>

\* Mutant: the directory is not synced.
SyncStore_Skipped ==
  /\ At("sync")
  /\ GoTo(w.after)
  /\ UNCHANGED <<dirs, profile, shown, faults, mainVars>>

SyncStore ==
  /\ At("sync")
  /\ dirs' = <<Here>>
  /\ w' \in IF w.after \in {"profile", "revoke"} \/ w.op = "SET_ENDPOINT"
           THEN Races([w EXCEPT !.pc = w.after])
           ELSE {[w EXCEPT !.pc = w.after]}
  /\ UNCHANGED <<profile, shown, faults, mainVars>>

SyncFails ==
  /\ At("sync")
  /\ Fault
  /\ Result(FALSE, "UNCERTAIN")
  /\ UNCHANGED <<dirs, profile, shown, mainVars>>

\* A store call fails before its rename, or cannot read: it reports NONE.
StoreFails ==
  /\ w.pc \in {"replace", "endpoint", "begin", "restore", "finish", "pending"}
  /\ Fault
  /\ Result(FALSE, "NONE")
  /\ shown' \in IF At("pending") THEN {shown, "FAILED"} ELSE {shown}
  /\ UNCHANGED <<dirs, profile, mainVars>>
-----------------------------------------------------------------------------
(* egp_connman_apply, for the candidate, the restored network or the       *)
(* canonical one.                                                          *)

Applied == IF w.undoing THEN w.previous ELSE w.value

\* The EgpConnmanResult of the call; the worker has not looked at it yet.
ConnmanResult(disposition, state) ==
  w' = [w EXCEPT !.pc = "publish", !.disposition = disposition, !.state = state]

WriteProfile ==
  /\ At("profile")
  /\ profile' = Applied
  /\ GoTo("associate")
  /\ UNCHANGED <<dirs, shown, faults, mainVars>>

\* The profile is not written, or its directory not synced.
WriteProfileFails ==
  /\ At("profile")
  /\ Fault
  /\ profile' \in {profile, Applied}
  /\ ConnmanResult("RETAIN_CANONICAL", "APPLYING")
  /\ UNCHANGED <<dirs, shown, mainVars>>

\* Calls fail at once after a cancellation or without ConnMan.
ConnmanAnswers == connman /\ ~w.cancelled

Connects ==
  /\ At("associate") /\ ConnmanAnswers
  /\ ConnmanResult("CONNECTED", "CONNECTED")
  /\ UNCHANGED <<dirs, profile, shown, faults, mainVars>>

\* Wrong key or no such network.
ConnmanRejects ==
  /\ At("associate") /\ ConnmanAnswers
  /\ ConnmanResult("ROLLBACK_ALLOWED", "FAILED")
  /\ UNCHANGED <<dirs, profile, shown, faults, mainVars>>

\* Timeout, an association that does not start, or no ConnMan.
OutcomeUncertain ==
  /\ At("associate")
  /\ \E state \in IF ConnmanAnswers THEN {"FAILED", "ASSOCIATING"} ELSE {"FAILED"} :
       ConnmanResult("RETAIN_CANONICAL", state)
  /\ UNCHANGED <<dirs, profile, shown, faults, mainVars>>

\* What apply_wifi and reconcile_canonical make of the result: the status shows
\* it, whatever the main loop has shown meanwhile, and the operation goes on.
Publish ==
  /\ At("publish")
  /\ shown' = w.state
  /\ LET connected == w.disposition = "CONNECTED"
     IN  CASE w.op = "reconcile" -> Result(connected, "NONE")
           [] w.undoing ->
                Result(FALSE, IF connected THEN "ROLLED_BACK" ELSE "UNCERTAIN")
           [] w.op = "SET_WIFI" /\ ~w.undoing /\ connected -> Completed("COMMITTED")
           [] w.op = "SET_WIFI" /\ ~w.undoing /\ w.disposition = "ROLLBACK_ALLOWED" ->
                GoTo("restore")
           [] OTHER -> Result(FALSE, "COMMITTED")
  /\ UNCHANGED <<dirs, profile, faults, mainVars>>

\* egp_store_restore_wifi: the previous network, or its absence.
RestoreWifi ==
  /\ At("restore")
  /\ Change([Here EXCEPT !.wifi = w.previous], "restored")
  /\ UNCHANGED <<profile, shown, faults, mainVars>>

Restored ==
  /\ At("restored")
  /\ \/ w' = [w EXCEPT !.undoing = TRUE,
                       !.pc = IF w.previous = Nothing THEN "remove" ELSE "profile"]
        /\ UNCHANGED faults
     \/ w.previous = Nothing /\ Fault /\ Result(FALSE, "UNCERTAIN")
  /\ UNCHANGED <<dirs, profile, shown, mainVars>>
-----------------------------------------------------------------------------
(* Forgetting, reconciliation, and the removal of the profile.             *)

\* egp_store_forget_begin: go on with a tombstone, or make one.
ForgetBegin ==
  /\ At("begin")
  /\ CASE Here.forget # Nothing /\ Here.wifi # Nothing ->
            Result(FALSE, "NONE") /\ UNCHANGED dirs
       [] Here.forget # Nothing /\ Here.wifi = Nothing ->
            /\ w' \in Races([w EXCEPT !.pc = "revoke", !.value = Here.forget])
            /\ UNCHANGED dirs
       [] Here.forget = Nothing /\ Here.wifi = Nothing ->
            w' \in Races([w EXCEPT !.pc = "remove"]) /\ UNCHANGED dirs
       [] OTHER ->
            /\ dirs' = Append(dirs, [Here EXCEPT !.wifi = Nothing, !.forget = Here.wifi])
            /\ w' = [w EXCEPT !.pc = "sync", !.after = "revoke", !.value = Here.wifi]
  /\ UNCHANGED <<profile, shown, faults, mainVars>>

\* Mutant: a tombstone is taken for the network to apply.
Reconcile_AppliesTombstone ==
  /\ At("pending")
  /\ CASE Here.forget # Nothing -> w' = [w EXCEPT !.pc = "profile", !.value = Here.forget]
       [] Here.wifi = Nothing -> GoTo("remove")
       [] OTHER -> w' = [w EXCEPT !.pc = "profile", !.value = Here.wifi]
  /\ UNCHANGED <<dirs, profile, shown, faults, mainVars>>

\* reconcile_canonical: finish a forget, or make the profile follow the store.
Reconcile ==
  /\ At("pending")
  /\ CASE Here.forget # Nothing /\ Here.wifi # Nothing -> Result(FALSE, "NONE")
       [] Here.forget # Nothing /\ Here.wifi = Nothing ->
            w' = [w EXCEPT !.pc = "revoke", !.value = Here.forget]
       [] Here.forget = Nothing /\ Here.wifi = Nothing -> GoTo("remove")
       [] OTHER -> w' = [w EXCEPT !.pc = "profile", !.value = Here.wifi]
  /\ UNCHANGED <<dirs, profile, shown, faults, mainVars>>

\* Where the operations stand when the profile could not be removed or its
\* revocation not be seen.
RevokeFailed ==
  Result(FALSE, IF w.op = "FORGET_WIFI" THEN "COMMITTED" ELSE "NONE")

\* egp_connman_revoke: with a profile there, ConnMan's services are looked at
\* before the removal, and after it when one was attested.
Revoke ==
  /\ At("revoke")
  /\ profile # Nothing => ConnmanAnswers
  /\ profile' = Nothing
  /\ \E attested \in {FALSE, profile # Nothing} :
       GoTo(IF attested THEN "confirm" ELSE "finish")
  /\ UNCHANGED <<dirs, shown, faults, mainVars>>

RevokeConfirmed ==
  /\ At("confirm") /\ ConnmanAnswers
  /\ GoTo("finish")
  /\ UNCHANGED <<dirs, profile, shown, faults, mainVars>>

\* No ConnMan before the removal, or no confirmation after it.
RevokeUncertain ==
  /\ At("confirm") \/ (At("revoke") /\ profile # Nothing)
  /\ RevokeFailed
  /\ shown' \in IF w.op = "reconcile"
                THEN IF At("confirm") THEN {"APPLYING", "FAILED"} ELSE {"FAILED"}
                ELSE {shown}
  /\ UNCHANGED <<dirs, profile, faults, mainVars>>

\* The removal fails, or its directory sync.
RevokeFails ==
  /\ At("revoke")
  /\ profile # Nothing => ConnmanAnswers
  /\ Fault
  /\ profile' \in {profile, Nothing}
  /\ RevokeFailed
  /\ shown' = IF w.op = "reconcile" THEN "APPLYING" ELSE shown
  /\ UNCHANGED <<dirs, mainVars>>

\* egp_connman_remove_profile without a network to revoke: a rollback to
\* absence, a forget of nothing, a reconciliation of absence.
RemoveProfile ==
  /\ At("remove")
  /\ profile' = Nothing
  /\ CASE w.op = "reconcile" -> Result(TRUE, "NONE")
       [] w.undoing -> Result(FALSE, "ROLLED_BACK")
       [] OTHER -> Completed("COMMITTED")
  /\ shown' = "UNPROVISIONED"
  /\ UNCHANGED <<dirs, faults, mainVars>>

RemoveProfileFails ==
  /\ At("remove")
  /\ Fault
  /\ profile' \in {profile, Nothing}
  /\ Result(FALSE, IF w.undoing THEN "UNCERTAIN" ELSE "NONE")
  /\ shown' = CASE w.op = "reconcile" -> "FAILED"
                [] w.undoing -> "UNPROVISIONED"
                [] OTHER -> shown
  /\ UNCHANGED <<dirs, mainVars>>

\* egp_store_forget_finish: the tombstone goes.
ForgetFinish ==
  /\ At("finish")
  /\ Change([Here EXCEPT !.forget = Nothing], "finished")
  /\ UNCHANGED <<profile, shown, faults, mainVars>>

Finished ==
  /\ At("finished")
  /\ IF w.op = "reconcile" THEN Result(TRUE, "COMMITTED") ELSE Completed("COMMITTED")
  /\ shown' = IF w.op = "SET_ENDPOINT" THEN shown ELSE "UNPROVISIONED"
  /\ UNCHANGED <<dirs, profile, faults, mainVars>>
-----------------------------------------------------------------------------
MainLoop ==
  \/ \E n \in Networks : Submit("SET_WIFI", n)
  \/ \E e \in Endpoints : Submit("SET_ENDPOINT", e)
  \/ Submit("FORGET_WIFI", Nothing) \/ Submit("CHECK_UPDATE_NOW", Nothing)
  \/ ConnmanAppears \/ ConnmanVanishes \/ RetryFires \/ WorkerDone
  \/ StopDaemon \/ DaemonEnds \/ StartDaemon \/ Kill \/ PowerLoss

Worker ==
  \/ GateRefuses \/ GatePasses \/ CheckUpdate \/ ReplaceWifi \/ ReplaceRuntime
  \/ SyncStore \/ SyncFails \/ StoreFails
  \/ WriteProfile \/ WriteProfileFails \/ Connects \/ ConnmanRejects
  \/ OutcomeUncertain \/ Publish \/ RestoreWifi \/ Restored
  \/ ForgetBegin \/ Reconcile \/ Revoke \/ RevokeConfirmed
  \/ RevokeUncertain \/ RevokeFails
  \/ RemoveProfile \/ RemoveProfileFails \/ ForgetFinish \/ Finished

Agent == CycleBegins \/ CycleRecorded \/ CycleEnds \/ AgentDies \/ AgentStarts

Next == MainLoop \/ Worker \/ Agent

Spec == Init /\ [][Next]_vars
-----------------------------------------------------------------------------
(* Properties.                                                             *)

\* A result that claims a change has it safe on the medium: a committed network
\* or endpoint, a rollback to the previous network (and ConnMan has that one
\* again), a completed forget of a network.
CommittedIsDurable ==
  At("done") /\ w.op # "reconcile" =>
    \A k \in DOMAIN dirs :
      /\ w.op = "SET_WIFI" /\ w.change = "COMMITTED" => dirs[k].wifi = w.value
      /\ w.change = "ROLLED_BACK" => dirs[k].wifi = w.previous /\ profile = w.previous
      /\ w.op = "SET_ENDPOINT" /\ w.change = "COMMITTED" => dirs[k].runtime = w.value
      /\ w.op = "FORGET_WIFI" /\ w.complete /\ w.value # Nothing =>
           dirs[k].wifi = Nothing /\ dirs[k].forget = Nothing /\ profile = Nothing

\* The status says CONNECTED only about the canonical network: whatever
\* failed, was rolled back or cancelled, ConnMan's profile is that network's.
ConnectedIsCanonical ==
  daemon = "up" /\ At("idle") /\ shown = "CONNECTED"
    /\ Here.wifi # Nothing /\ Here.forget = Nothing => profile = Here.wifi

\* While ConnMan is there and has not been reconciled, a retry is armed or at
\* work: no interleaving of operations, losses and late results drops it.
NoLostRetry ==
  daemon = "up" /\ connman /\ ~settled =>
    retry \/ (w.op = "reconcile" /\ ~At("idle"))

\* ConnMan is given a network only while the store names it as canonical: never
\* one that was forgotten, rolled back or not committed yet.
CanonicalFirst ==
  [][ daemon = "up" /\ profile' # profile /\ profile' # Nothing /\ daemon' = "up"
        => profile' = Here.wifi ]_vars

-----------------------------------------------------------------------------
(* The inductive invariant behind these properties: what each operation may *)
(* rely on at each of its calls.                                           *)

\* The calls an operation makes.
Steps(op) ==
  CASE op = "SET_WIFI" -> {"gate", "replace", "sync", "profile", "associate", "publish",
                           "restore", "restored", "remove", "done"}
    [] op = "SET_ENDPOINT" -> {"gate", "endpoint", "sync", "finished", "done"}
    [] op = "CHECK_UPDATE_NOW" -> {"gate", "ask", "done"}
    [] op = "FORGET_WIFI" -> {"gate", "begin", "sync", "revoke", "confirm", "remove",
                              "finish", "finished", "done"}
    [] op = "reconcile" -> {"idle", "pending", "profile", "associate", "publish", "revoke",
                            "confirm", "remove", "finish", "sync", "finished", "done"}

\* No change of the store waits for its sync.
Synced == Len(dirs) = 1

WorkerInv ==
  /\ w.pc \in Steps(w.op)
  /\ At("idle") => w = NoWork
  /\ daemon = "down" => At("idle")
  /\ ~At("done") => ~w.complete

\* A new network is stored and safe before ConnMan hears of it; a rollback has the
\* previous one stored and safe first.  CONNECTED is not on show meanwhile.
SetWifiInv == w.op = "SET_WIFI" =>
  /\ w.value \in Networks
  /\ w.pc \notin {"gate", "done"} => shown # "CONNECTED"
  /\ w.pc \in {"gate", "replace", "sync", "restore", "restored"} => ~w.undoing
  /\ At("sync") => \/ w.after = "profile" /\ Here.wifi = w.value
                   \/ w.after = "restored" /\ Here.wifi = w.previous
  /\ w.pc \in {"profile", "associate", "publish"} =>
       Synced /\ Here.wifi = Applied /\ Applied # Nothing
  /\ At("restored") => Synced /\ Here.wifi = w.previous
  /\ At("remove") => w.undoing /\ Synced /\ Here.wifi = Nothing /\ w.previous = Nothing

EndpointInv == w.op = "SET_ENDPOINT" =>
  /\ w.value \in Endpoints /\ ~w.undoing
  /\ At("sync") => w.after = "finished" /\ Here.runtime = w.value
  /\ At("finished") => Synced /\ Here.runtime = w.value

\* Forgetting and reconciliation: the profile is removed while no network is
\* canonical, and the tombstone goes when the profile is gone.
FollowInv == w.op \in {"FORGET_WIFI", "reconcile"} =>
  /\ ~w.undoing
  /\ w.op = "FORGET_WIFI" /\ w.pc \in {"gate", "begin", "remove"} => w.value = Nothing
  /\ w.pc \in {"profile", "associate", "publish"} =>
       Here.wifi = w.value /\ w.value \in Networks
  /\ w.pc \in {"remove", "revoke", "confirm", "finish", "sync", "finished"} =>
       Here.wifi = Nothing
  /\ w.pc \in {"confirm", "finish", "finished"} => profile = Nothing
  /\ At("sync") => \/ w.after = "revoke" /\ w.op = "FORGET_WIFI"
                   \/ w.after = "finished" /\ Here.forget = Nothing /\ profile = Nothing
  /\ At("finished") => Synced /\ Here.forget = Nothing

\* A connection is reported for the profile that was written.
AppliedInv ==
  /\ At("associate") => profile = Applied
  /\ At("publish") => /\ w.disposition = "CONNECTED" => profile = Applied
                      /\ w.state = "CONNECTED" => w.disposition = "CONNECTED"

\* ConnectedIsCanonical, at every moment of the daemon's life.
ShownInv ==
  daemon # "down" /\ shown = "CONNECTED" /\ Here.wifi # Nothing /\ Here.forget = Nothing
    => profile = Here.wifi

WifiInv ==
  /\ TypeOK
  /\ WorkerInv
  /\ SetWifiInv /\ EndpointInv /\ FollowInv /\ AppliedInv /\ ShownInv
  /\ CommittedIsDurable /\ NoLostRetry
-----------------------------------------------------------------------------
(* What the documents say and the code does not keep.                      *)

\* A tombstone can be completed at the next start: "On restart, a tombstone means
\* complete the forget" (docs/R5/05_PROVISIONING_STORE_SPEC.md).
TombstoneCanComplete == Here.forget # Nothing => Here.wifi = Nothing

\* A cycle keeps the endpoint it began with: "the current override reconstructs
\* the same cycle-local endpoint" (main.c of the agent).
CycleKeepsEndpoint == agent.pc = "cycle" => agent.endpoint = agent.bound

\* A refused network whose result says NONE has left the previous one stored:
\* a result tells "whether persistent state changed" (docs/R5/10_ERROR_MODEL.md).
NoneMeansUnchanged ==
  At("done") /\ w.op = "SET_WIFI" /\ w.disposition = "ROLLBACK_ALLOWED"
    /\ w.change = "NONE" => Here.wifi = w.previous
=============================================================================
