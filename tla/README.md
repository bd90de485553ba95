# TLA+ models of the EdgeGuard remote OTA system

This directory holds TLA+ specifications of the over-the-air update system in
this repository: an RK3588 board with two boot slots that downloads a signed
bundle, installs it into the inactive slot, boots it on trial, checks its
health, and confirms it or goes back. The modules are translated from the C
sources; TLC checks them on small instances, TLAPS proves the central results
for every value of the constants. `PROJECT.json` maps every definition to the
source lines it stands for.

Contents: [inventory](#inventory) - [plan](#plan) -
[modules](#modules-and-the-code) - [runs](#runs) - [fairness](#fairness) -
[proofs](#proofs) - [findings](#findings) - [limits](#limits).

## Inventory

Paths are relative to `RK3588_app/` unless they say otherwise.

### OTA agent (`edgeguard-remote-ota-agent`)

A single process, started once per boot by `S99edgeguard-remote-ota`, with a main
loop and one helper thread.

| Part | State | Operations | What makes it correct |
|---|---|---|---|
| State machine, main loop (`state_machine.c`, `main.c`) | the attempt record in memory and on `/userdata`, `blocked` | open, recover, transition, fail, reboot, the phases of `run` | a phase with an external effect is recorded before it begins and never replayed; a terminal record is final; every attempt ends |
| Phases (`services.c`, `compatibility.c`, `health.c`, `reboot.c`) | none of their own | precheck, download, verify, install, health check, mark good/bad, report | confirm only what was healthy, roll back only what was marked bad first |
| Persistence (`persistence.c`) | one JSON file, replaced by write-fsync-rename-fsync(dir) | load, save, atomic write | an old record never returns once its successor was acted on |
| RAUC adapter (`rauc_adapter.c`) | a child process with a deadline | current slot, bundle info, install, mark | the answer may be lost: the record must survive both outcomes |
| Download (`download.c`, `artifact.c`) | partial file, bundle | resume with an HTTP range, verify, publish | under the bundle's name only a whole, durable, verified artifact |
| Control socket (`control.c`) | `idle_eligible`, `pending`, the ring of 16 decisions, the wake pipe | accept, decide, wake, idle wait, close | each accepted request starts one check; a repeated id is answered as before |
| Reporting (`reporting.c`) | none | success/failure report with retries | the server never hears two verdicts of one attempt |
| Configuration, identity, manifest, version, time (`config.c`, `identity.c`, `manifest.c`, `version.c`, `time_source.c`, `runtime_endpoint.c`) | files read at start or per cycle | parse and validate | closed validation: anything unexpected is refused |

### A/B tool (`edgeguard-rk-ab`)

`edgeguard-rk-abctl` reads and mutates the 32 bytes of Rockchip `AvbABData` in
the `misc` partition (`get-current`, `get-primary`, `set-primary`, `get-state`,
`mark-bad`, `mark-good`); `edgeguard-rk-ab-backend` is the RAUC custom bootloader
backend around it. It is invoked by the RAUC service, by the agent and by operators, possibly at the
same time; writers exclude each other with a file lock. Correct means: no
mutation is lost, no answer precedes the medium, and the last bootable slot is
never retired.

### Provisioning daemon (`edgeguard-provisioningd`)

BLE GATT provisioning of Wi-Fi and of the server endpoint: `bluez.c` (GATT
objects, pairing, advertising), `security.c` (the authorisation window),
`protocol.c` and `gatt_read.c` (framing, requests, chunked reads),
`operations.c` (a worker thread that applies one operation at a time, gated on
the agent being stably IDLE), `connman.c` (profiles and their activation),
`store.c` (canonical Wi-Fi and endpoint files with two-phase replace and forget),
`status.c` (agent status projection), `endpoint.c`, `input.c`, `main.c`. Correct
means: an operation commits only for the peer and window that submitted it; a
failed apply restores the network it replaced; a half-done forget is finished
after a restart; results reach only the peer that asked.

### Server and scripts

`host_app/` is a stateless FastAPI service (manifest, artifact with ranges,
reports). The build, publish and deploy scripts run on workstations.

### Interactions

    server <--HTTP-- agent --rauc CLI--> RAUC service --backend--> abctl --> misc
                       |  \--abctl get-current                            ^
                       |                                                  |
                 state file, part, bundle (/userdata)                bootloader
                       ^
    phone --BLE--> provisioningd --control socket, status, runtime endpoint file

### Hard behaviours

- A crash or power loss between an external effect (install, mark good, mark
  bad, reboot, report) and the record of it, and the reverse order.
- A rename that is visible and not yet durable.
- A RAUC CLI whose deadline passes while the service goes on installing.
- Trial boots that crash, tries that run out, a fallback the agent learns of only
  afterwards; a rollback record found when the fallback already happened.
- Concurrent writers of the boot metadata, killed between two system calls.
- A control request against the end of the idle wait, SIGTERM and shutdown.
- Range resume against a server that restarts, swaps or truncates the artifact.
- Provisioning operations against an agent that leaves IDLE meanwhile.
- A phone that reconnects, repeats a request or reads on while the window, the
  result or its own bond changes; a worker that commits on another thread.
- BlueZ calls that time out after they took effect, and restarts of either side.

`PROJECT.json` lists each at the line where it bites, with the properties that
cover it.

## Plan

Written so far, in this order: `AbSlots`, `OtaModel`, `AbMeta` (data and pure
rules); `OtaAgent` (the device: agent, disk, RAUC, metadata, bootloader) and `AbTrial`
(the abstract trial update it implements);
`AbRegister` and `RkAbctl` (the abstract metadata register and the concurrent
tool that implements it); `OtaControl`; `OtaDownload`; `ProvWifi` (operations,
store and ConnMan profile of the provisioning daemon, and the agent as the reader of
its endpoint file); `ProvSession` (window, peers, requests, results); `ProvBluez`
(registrations with BlueZ); the proof modules.

Proved so far: every invariant, every action property and both refinements that
the passing runs check (see [proofs](#proofs)).

Next, most important first:

1. A composition of `ProvSession` and `ProvWifi` at their common gate.
2. `version.c`'s comparison and `endpoint.c`'s canonical form as operators against
   reference definitions, and the pre-install script's gate.

## Modules and the code

Every C function keeps its name where a definition stands for it.

**`AbSlots`, `OtaModel`** - slots, the durable record of `model.h`, the transition
table, `ota_persistent_state_validate`, what one attempt may change
(`IdentityKept`), and what recovery does with each state. An attempt's UUID and a boot id
are numbers, the manifest fields that travel together are one release number,
an error keeps its code.

**`AbMeta`** - boot metadata: bootability, selection with its tie rule, native
state, the three mutations with their guards. The bootloader
(`NormaliseExhausted`, `OneTryLess`, `ConsumeTry`) is external: its rules are those the
repository's documents record as observed on the board.

**`OtaAgent`** - the device. A handler is one action up to the point where a
crash could separate its external effect from its record: the phase performs
the effect and hands `next` to `Commit`, which is `ota_state_machine_transition`.
`disk` has the record that is visible and the record that survives a power
loss; `SaveFails` covers both a save that failed before its rename and one that
failed after it. Every start syncs the state directory before it loads the record
(`ota_storage_prepare`), so what a process acts on is durable. RAUC (`RaucMarkTarget`, `RaucWrite`, `RaucActivate`, `RaucFails`)
runs by itself and outlives the CLI that started it. `BootAttempt`, `PowerLoss`,
`Kill`, `Stop`, `StartFails` are the environment. Retryable failures change
nothing and are stuttering steps. Failures that end the process without a
durable change (control socket not opened, endpoint snapshot refused, UUID not
read) have the effect of `Stop`. `installs`, `healthy` and `reported` are history.

**`AbTrial`** - what an update promises of the two slots, without records, phases, faults or
priorities: each slot is good, on trial or bad; a slot is retired only beside a whole good one,
written only while retired and not running, offered for trial only when whole, passed only
while it runs on trial, and confirmed only while it runs and after it passed. A boot starts
the choice, or ends the trials of a slot. `TrialUpdate` of `OtaAgent` is the refinement: the status is
`native_state`, the choice is `primary_slot`, a pass is the health check.

**`AbRegister`, `RkAbctl`** - the register is the promise: metadata changes by one
accepted mutation of its current value at a time. `RkAbctl` is `mutate` with one
action per system call, any number of processes, kills, failing calls and
kernel write-back in between. `Atomic` is the refinement, with the page cache
as the register.

**`OtaControl`** - main thread, server thread and signal handler, one action per
critical section or system call. The pipe is only tested for emptiness, so it is
a flag. `Expire` is the ten-minute lifetime of a decision, oldest first (`Rank` is the
age of an entry in the ring). `accepts`, `answers`, `asker`, `cycles` and `forgotten` are
history, kept per request id. The
`already_pending` branch of the wait is modelled; `pending` is in fact cleared
together with eligibility, so it is never taken.

**`OtaDownload`** - `ota_download_bundle` and the phases around it. `dirs` is the
directory as a journalling file system sees it: the versions since the last
directory sync, of which a power loss keeps any one. Files have the data that
is read and the data an fsync made safe; after a power loss the rest is there,
missing or garbage. A byte is the artifact it came from and its offset, so a
checksum matches exactly when every byte is right. State file, partial and
bundle share the directory (`config.c` requires it), and this matters: whoever
syncs one of them syncs the others, the start (`Restart`) included, which finds what a
kill between a rename and its directory sync left. The initial partial file is one that an operator's reset of the
state left behind.

**`ProvWifi`** - the worker of `operations.c` with one action per call that can fail
or be interrupted: the gate, the store's renames and their directory syncs, the
profile, what ConnMan answered, and the status update that follows it
(`Publish`, a step of its own because the main loop may run in between). The main
loop submits, arms and fires the reconciliation timer, and sees ConnMan come
and go. `dirs` is as in `OtaDownload`; every file is synced before its rename, so
a name holds a whole value or nothing. The profile lives on the root file
system of the running slot: after a power loss it may be any network's. The
agent is here as far as it meets the daemon: it reads the endpoint when a cycle begins
(`CycleBegins`), then makes the cycle durable (`CycleRecorded`), and reads the
endpoint again when it is started in a recorded cycle (`AgentStarts`); the gate passes
only while the record says IDLE. `agent.bound` is history: the endpoint the cycle
began with; so is `settled`. Generations, temporary names (removed at open) and the
errors of a corrupt or foreign store file, which are not retried, are left out.

**`ProvSession`** - one BLE session after another. Handlers of the GLib main loop are
atomic actions; the worker thread's gate is two (`PeerAsked`: BlueZ's answer with
the peer's epoch; `GatePasses`: the window under its lock), so the main loop may run
between them. `link` and `bonded` are what BlueZ answers when asked; `signals` are the
changes the main loop has not heard of yet, in order. A peer's write is handled
while the main loop believes it connected (`SeenUp`), perhaps after its link
went. A peer may be connected when the daemon starts; its first request, granted or not,
gives it an epoch (`FirstRequest`). A request that `egp_operations_submit` refuses is
left out: the worker's being busy was ruled out on the same thread, and what remains
is the daemon's shutdown, which ends the session. A body is a sequence of parts, one per frame, which is what gaps, overlaps and
conflicts need; opcode and length are the number of parts. Deadlines are free
choices. Writes that are refused without a change are left out. `work.cut` and `ran` are
history: something the gate must refuse has happened; transactions that the
session has run and remembers.

**`ProvBluez`** - the four registrations and `Pairable`. A synchronous call is
answered, fails, or fails after BlueZ did it (`Outcomes`): BlueZ reads the exported
objects while the daemon's main loop is blocked in the call. Calls that are not waited
for may be lost. `inbox` keeps the bus's order. `unset` and `stray` are history: the two
losses `QuietOutsideWindow` excepts.

**`MC*`** instantiate the modules for TLC; **`AbMetaProofs`, `OtaAgentProofs`,
`RkAbctlProofs`, `OtaControlProofs`, `OtaDownloadProofs`, `ProvWifiProofs`,
`ProvSessionProofs`, `ProvBluezProofs`** hold the proofs. The inductive invariants stand at
the end of the modules they are about, and the runs check them too.

## Runs

| Run | Instance | Shows |
|---|---|---|
| `agent_safety` | 2 attempts, 3 releases, any 3 faults of all 7 kinds | one install call per attempt (`InstallAtMostOnce`); only a candidate that was healthy is confirmed (`ConfirmedOnlyAfterHealth`); a confirmed whole slot to fall back to at every moment (`FallbackExists`); the bootloader never picks a half-written slot (`NeverSelectsPartialImage`); a success record means a confirmed candidate (`SuccessMeansConfirmed`); a rollback record means an armed rollback (`RollbackArmed`); terminal records stay (`TerminalIsFinal`); reboots only where the record asks (`RebootOnlyWhenArmed`); never both verdicts of one attempt, to the server or on the disk (`NoConflictingReports`); the device implements the abstract trial update (`TrialUpdate`); `DeviceInv` is the invariant that is proved |
| `agent_liveness` | 2 attempts, any 3 power losses or failed slot queries, crashing trial boots | an installation ends in a verdict (`InstallResolves`); a rejected candidate is left (`RejectedCandidateIsLeft`) |
| `abctl` | 2 processes, 3 invocations, 24 metadata values at start | the tool implements the register (`Atomic`), keeps a bootable slot (`BothViewsBootable`), answers after the medium (`SuccessIsDurable`); `WriterInv` is the invariant that is proved |
| `control` | 3 ids, ring of 2, 4 requests, one signal | requests are neither lost nor doubled (`AcceptedIsConsumedOnce`), retries are idempotent while remembered (`RetryIsIdempotent`); an accepted request starts a cycle without the poll timeout (`AcceptedStartsCycle`); closing ends (`CloseEnds`); `ControlInv` is the invariant that is proved |
| `control_stop` | 1 id | violation, see [findings](#findings) |
| `download` | two artifacts of 2 bytes, 3 inodes, any 2 faults | RAUC gets the verified bundle (`BundleReadyForRauc`); nothing partial under its name (`PublishedIsWhole`); resumes never shift data (in `DownloadInv`, which is proved: a byte stands at its own offset) nor build on another attempt (`StalePartialIsGone`) |
| `prov_wifi` | 2 networks, 1 endpoint, 3 operations, 1 agent cycle, any 2 faults | a claimed change is on the medium, a rollback is complete (`CommittedIsDurable`); ConnMan gets only the network the store names (`CanonicalFirst`); CONNECTED is about that network (`ConnectedIsCanonical`); a reconciliation that is due is never dropped (`NoLostRetry`); `WifiInv` is the invariant that is proved |
| `prov_tombstone` | 1 network, 3 operations | violation, see [findings](#findings) |
| `endpoint_resume` | 1 endpoint, 1 operation, 1 agent cycle, 1 fault | violation, see [findings](#findings) |
| `wifi_failed_restore` | 1 network, 1 operation, 1 fault | violation, see [findings](#findings) |
| `prov_session` | 2 peers, 2 transactions (one of two frames, one frame also with other content), a replay cache of 1, 2 window epochs, 5 peer epochs, one-shot | a shown result belongs to this window and its owner (`ResultIsOwn`); ACCEPTED is shown or cached only while that operation runs (`AcceptedIsRunning`); a chunked read is of the present result, by its owner, on one connection (`ReadIsCurrent`); nothing passes the commit gate after a change it must refuse (`NoCommitAfterCut`); a remembered transaction does not run twice (`RetryRunsOnce`); the cache keeps its limit (in `SessionInv`, which is proved) |
| `prov_bluez` | 3 failing calls, 1 daemon restart, any number of BlueZ restarts | application and default agent get registered, again after every restart (`RegistrationCompletes`); outside a window the adapter is neither pairable nor advertising, but for the named losses (`QuietOutsideWindow`); no retry, flag or adapter outlives BlueZ (in `BluezInv`, which is proved) |

Bounds. Two attempts are enough for an old attempt's leftovers (image, record,
running RAUC job) to meet a new one; three releases allow newer, equal and older
candidates; the longest scenario the properties are about needs three faults
(for example a failed save, a kill and a power loss). Two processes are what a
lost update needs, and the third invocation lets one of them come back. A ring of two with three
ids overflows and expires. Two bytes per artifact give an empty, a
partial and a complete file, and two artifacts let the server swap them between
ranges; three inodes are a partial, a bundle and one that an unsynced rename
still names. Three faults in `download` have been checked as well
(1.35 million states); the kept bound of two is for the length of the run.
Three provisioning operations
set a network, replace or forget it, and act on what that left; two faults break an
operation and its rollback, or a call and the restart after it. Two window
epochs are a window and its end, or its reopening or loss of BlueZ; five peer epochs
let a peer connect, drop, reconnect and change its bond with another peer beside it (a link
changes only while an epoch is left for it to be heard), and
one cached transaction with two ids overflows. Three failing calls of `prov_bluez` break a
registration, its retry and the Set of `Pairable`.

Every property has a mutant in the modules (a definition with a suffix such as
`_NoWait` or `_SizeOnly`, that breaks one guard, sync or reset), under which TLC
finds it violated.

## Fairness

`OtaAgent`: weak fairness of the agent's steps, of a reboot that was requested
and of a boot that began. Each agent step is a bounded computation or a call with a
deadline (`rauc_adapter.c`, the HTTP timeouts), and `S99` starts the agent in
each boot. Nothing is assumed about operators, faults, RAUC, or about which
branch of a step is taken: a report may be repeated for ever.

`OtaControl`: weak fairness of every step of the two threads and the handler
that does not wait for somebody else. Nothing is assumed of clients, of signals,
of the end of a cycle, nor of the poll timeout: the configured interval may be
weeks, and a property that relied on it would say little. After its shutdown the
listener takes no new connection, so what is still accepted is the finite queue (here the
requests `MaxRequests` leaves), and then accept fails.

`ProvBluez`: weak fairness of the main loop's handling of what has arrived and of
its five-second timer, which GLib dispatches as long as the loop runs; the
synchronous calls in between have a timeout. A call fails only a bounded number of
times while BlueZ and its adapter are there. Nothing is assumed of BlueZ, of the window
or of peers.

## Proofs

For every value of the constants that satisfies the named assumptions. These only
give the bounds their types and keep the values that mean nothing (`NoId`, `None`,
`Nothing`, `Stale`, `Garbage`) apart from the others, except `AbMaxAssumption`: at least two
priorities and one try.

- `AbMetaProofs`: the mutations and the bootloader's steps keep metadata well
  typed; an accepted mutation of a bootable pair leaves a bootable pair
  (`MutationKeepsBootable`); what a mutation or a boot does to each slot and to the
  bootloader's choice (`MutationsSlotwise`, `SetPrimarySelects`, `BootKeepsSlots`, `BootSelects`).
- `OtaAgentProofs`: `TypeCorrect`, `InstallInvariant`, `InstallOnce`.
  `InstallAtMostOnce` alone is not inductive: a step knows nothing of the
  records it might bring back. `InstallInv` adds that a record in memory, visible or
  durable is valid, belongs to an attempt already drawn and, before
  INSTALLING, has no install behind it (`RecordInv`); that a record on
  its way to the disk obeys the same (`PendingInv`); and the heart, that the loop stands in
  INSTALLING only with this very record both visible and durable and nothing
  installed yet (`IntentInv`). The call itself then falsifies nothing, because
  no record from before it exists anywhere. The proof has one lemma per way in
  which actions touch the record (`TransitionKeeps`, `AdvanceKeeps`, `FailKeeps`,
  `GoToKeeps`, `EndKeeps`, ...), then one case per action.

  `DeviceInvariant` carries the promises about the slots: `ConfirmationNeedsHealth`,
  `AlwaysAFallback`, `SelectsWholeImage`, `SuccessIsConfirmed`, `RollbackIsArmed`, and the
  action properties `TerminalStays` and `RebootsAreArmed`. None of them is inductive,
  because a restart takes its next step from whichever record it finds. `DeviceInv`
  says what a record that can be found stands for (`StandsFor`): before the installation
  the running slot is confirmed and selected and RAUC has no job (`Settled`); on trial the
  candidate holds this attempt's image and the previous slot is there to fall back to
  (`OnTrial`); a health rollback has its candidate marked bad (`Armed`). This must hold of the visible
  record, of the durable one and of one on its way (`PendingStandsFor`), since a kill
  and a power loss may find either. `JobInv` does the same for a RAUC job that outlives the agent:
  it works on the peer of a confirmed slot, never on the running one. `ControlInv` ties the process to the disk: a
  phase that is not replayed runs on a record that is durable already, and the
  phases that judge a candidate run while it has no verdict yet (`Unjudged`).

  `TrialRefined` is the refinement to `AbTrial`. Each of the service's steps, of the verdicts and of the boot
  attempts is one abstract step (`TrialRauc`, `TrialVerdict`, `TrialBoot`), every other step is none.
  `Unjudged` is there for it: without it a record in HEALTH_CHECK or MARK_GOOD might judge a slot that was
  confirmed or retired before, which changes nothing the other promises speak of and is no
  step of a trial update.

  `ReportsAgree` holds under all faults, failing saves included. `ReportInv` says that
  a reported failure stays on the disk for good and that a reported success is never the
  attempt of a later record other than its own REPORT_SUCCESS. It is kept because a process that runs
  has its record in both views of the disk (`ControlInv`): a save that failed after its rename ends the
  process, and the next start syncs before it loads. Without that sync an older record
  could return after the server had heard of a newer one; `ota_storage_prepare_NoFsync` shows it.
- `RkAbctlProofs`: `WriterInvariant`, `NeverBothRetired`, `AnswerIsDurable`,
  `ImplementsRegister`. `WriterInv` says that a process past the lock is its
  holder and that what it is about to write was computed from the block as it still
  is (`ProcInv`). Bootability then follows from `MutationKeepsBootable`, and a
  step of the tool is a step of the register exactly at `WriteMisc`.
- `OtaControlProofs`: `ControlInvariant`, `NoRequestIsLost`, `RetriesAreIdempotent`, for any
  number of ids and requests and a ring of any size. A retry is answered as before only if
  its decision is still in the ring, so `ControlInv` says how the ring is filled: counted from
  `cache_next`, empty entries come first (`RingInv`), so that a decision overwrites another
  one only in a full ring, and no id has two entries. That an expiry takes the oldest entry is
  what keeps this. `RingMoves` is the arithmetic of the ring.
- `OtaDownloadProofs`: `DownloadInvariant`, `RaucMeetsItsBundle`, `BundleIsAlwaysWhole`,
  `ResumeIsOfThisAttempt`, for artifacts of any size. A power loss brings back any version of the
  directory since the last sync, so the promises are made for all of them. What makes this
  inductive is that a partial file never has the inode of a bundle that an earlier version names
  (`InodeInv`): writing or truncating it cannot spoil a bundle that may come back. What is
  safe of a file is as well placed and as fresh as what is read (`SafeInv`, `FreshInv`), and a
  state on its way to the disk promises nothing that is not so already (`SaveInv`).
- `ProvWifiProofs`: `WifiInvariant`, `ResultsAreDurable`, `ConnectedStatusIsTrue`,
  `RetryIsNeverLost`, and the action property `ProfileFollowsStore`. `WifiInv` says for each operation and each of
  its calls what the store, the profile and the shown state are (`SetWifiInv`, `FollowInv`,
  `EndpointInv`, `AppliedInv`): a network is stored and synced before ConnMan hears of it, CONNECTED
  is off the status before a new network is stored, and a tombstone goes when the profile is gone.
- `ProvSessionProofs`: `SessionInvariant`, `ResultBelongsToOwner`, `AcceptedHasWorker`,
  `ContinuedReadIsCurrent`, `GateRefusesCut`, and the action property `RetryNeverRepeats`. The
  gate compares numbers and knows nothing of what happened meanwhile; `CutInv` says that epochs only
  move forward, so that whatever it must refuse has left an epoch that differs from the one the
  operation was submitted with. Cached results are of this window and its owner
  (`CacheInv`), the active request is the worker's (`ActiveInv`).
- `ProvBluezProofs`: `BluezInvariant`, `AdapterIsQuiet`. An advertisement without its flag
  is one of the named losses (`FlagsInv`); a `Pairable` that BlueZ started with and no Set has
  replaced yet has a name change still queued, whose handler will replace it (`PairableInv`).

Model-checked only: the liveness properties (`InstallResolves`, `RejectedCandidateIsLeft`,
`AcceptedStartsCycle`, `CloseEnds`, `RegistrationCompletes`), since fairness and `ENABLED` are out of the
prover's reach, as are induction over data and recursive operators; and the four runs that show a violation.

## Findings

1. `control_stop`. `ota_control_idle_wait` drains the wake pipe before it polls and
   does not skip the poll when `*stopping` is set. A SIGTERM whose handler runs
   between the loop test of `run` and that drain is slept through for up to a poll
   interval, against the 35 seconds `S99` waits.
   `docs/R5/08_LOCAL_IPC_SPEC.md:51` asks the wait to multiplex stop and
   control wakeups.
2. `prov_tombstone`. `egp_store_replace_wifi` does not look at the tombstone of a
   forget whose revocation failed. A network stored beside it makes
   `egp_store_forget_pending` and `egp_store_forget_begin` refuse with a conflict, in
   this run of the daemon and in every later one, so neither reconciliation nor
   a forget works again. `docs/R5/05_PROVISIONING_STORE_SPEC.md:83`: "On restart, a
   tombstone means complete the forget".
3. `endpoint_resume`. `run` reads the endpoint before the transition that records
   CHECK_NETWORK. A worker that has just seen IDLE twice commits a new endpoint in that
   interval; after a restart the agent resumes the recorded cycle with the new file.
   The comment at the agent's `main.c:97` and `docs/R5/07_ENDPOINT_CONFIG_SPEC.md:47`
   say that the cycle keeps its endpoint. The worker's second look answers
   PROVISIONING_RACE, COMMITTED, only when the cycle is already recorded by then.
4. `wifi_failed_restore`. When ConnMan refuses a stored network, `apply_wifi` replaces its
   COMMITTED result by the error of `egp_store_restore_wifi`; a restore that fails before
   its rename reports NONE while `wifi.json` holds the refused network (likewise a
   failing `egp_store_forget_finish`). `docs/R5/10_ERROR_MODEL.md:5` promises "whether
   persistent state changed".

Met while modelling, and visible in the modules, but without a run of their own:

- ConnMan vanishes between the worker's last look and its status update (`Publish`): CONNECTED
  overwrites FAILED_DEPENDENCY and stays until ConnMan is back or another operation runs
  (`docs/R5/06_CONNMAN_INTEGRATION.md:85`).
- A write that is handled after its peer's link went reaches `egp_protocol_drop_all`
  (`WriteUnauthorized`): completed transactions of the window are forgotten, although
  `docs/R5/03_GATT_SPEC.md:63` keeps them for ten minutes, and a repeated request
  runs again. `RetryRunsOnce` speaks of what the session still remembers.
- A peer whose link dropped and came back before the main loop heard of either passes
  the commit gate on its old epoch; `NoCommitAfterCut` speaks of what the daemon heard.
- `close_one_shot` closes whatever window is open when it runs, also one that was
  opened after the operation that scheduled it.
- A registration retry sets `Pairable` to the window's state, so it makes the adapter
  pairable again after `egp_bluez_disconnect_non_owner` ended that for an owned window
  (`docs/R5/04_BLE_SECURITY_POLICY.md:25`).
- A RegisterAdvertisement that times out after BlueZ did it, or a late Release, leaves
  the daemon without the flag: closing the window then does not unregister the
  advertisement (`docs/R5/04_BLE_SECURITY_POLICY.md:20`); this is `stray` in
  `QuietOutsideWindow`. A Release in an open window is not followed by a retry.

## Limits

- External, modelled from how the code uses it: RAUC's order of mark, write and
  activate; the bootloader; the kernel's file system (a successful fsync is
  durable, unsynced directory operations survive as a prefix of their order).
- Left out: message texts, JSON and HTTP framing, TLS, credentials and peer
  checks of the control socket (a request in the model has passed them), byte order,
  CRC and reserved bytes of `AvbABData`, the identity cross-checks of
  `get-current` (they succeed or fail closed), clocks.
- `ProvWifi` schedules a failed reconciliation again whatever its error; the code does so for
  retryable errors, and those that are not come from a corrupt or foreign store file.
- `ProvBluez` has the registered things as a set: that BlueZ is asked twice for one of them is not
  seen.
- `ProvBluez` keeps the adapter as long as BlueZ: the code does not react to an adapter
  that is unplugged.
- `ProvSession` and `ProvWifi` are not composed: the first has the gate's
  authorization and an operation that succeeds or fails, the second the gate's look at
  the agent and the operation itself. They meet in `GatePasses` of both.
- Not modelled: the parsers and validators (manifest, configuration, identity,
  version text, frame headers, JSON), which keep no state; their verdicts are
  the failing outcomes of the actions that call them. The pre-install script.
- Not planned: `host_app` (stateless; its answers are the environment of
  `OtaDownload`), the operator scripts, and generated or vendored files.
