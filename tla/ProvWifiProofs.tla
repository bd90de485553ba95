-------------------------- MODULE ProvWifiProofs --------------------------
(***************************************************************************)
(* The store, the profile and the status agree, for any networks, any      *)
(* number of requests and any faults: WifiInv is inductive.                *)
(***************************************************************************)
EXTENDS ProvWifi, TLAPS

Names == Networks \cup {Nothing}

\* A fresh board satisfies the invariant.
LEMMA InitWifi == Init => WifiInv
<1> SUFFICES ASSUME Init PROVE WifiInv
  OBVIOUS
<1> PICK f : f = [wifi |-> Nothing, forget |-> Nothing, runtime |-> Nothing]
  OBVIOUS
<1>1. f \in Files /\ dirs = <<f>>
  BY DEF Init, Files
<1>2. dirs \in Seq(Files) /\ dirs # <<>> /\ Len(dirs) = 1 /\ dirs[1] = f
  BY <1>1
<1>3. w \in Works
  BY DEF Init, NoWork, Works, PCs, Ops, Changes, Dispositions, Shown
<1>4. w.pc = "idle" /\ w.op = "reconcile" /\ ~w.undoing /\ ~w.complete
  BY DEF Init, NoWork
<1>5. TypeOK
  <2>1. agent \in [pc : {"down", "idle", "begun", "cycle"}, durable : BOOLEAN,
                   endpoint : Endpoints \cup {Nothing}, bound : Endpoints \cup {Nothing}]
    BY DEF Init, NoCycle
  <2>2. 0 \in 0..MaxRequests /\ 0 \in 0..MaxFaults /\ 0 \in 0..MaxCycles
    BY ProvWifiAssumption
  <2>3. {connman, retry, settled} \subseteq BOOLEAN
    BY DEF Init
  <2> QED
    BY <1>2, <1>3, <2>1, <2>2, <2>3 DEF Init, TypeOK, Shown
<1> QED
  BY <1>4, <1>5 DEF Init, WifiInv, WorkerInv, Steps, At, SetWifiInv, EndpointInv, FollowInv,
     AppliedInv, ShownInv, CommittedIsDurable, NoLostRetry

\* The current version of the directory.
LEMMA HereTyped ==
  ASSUME TypeOK
  PROVE  /\ Here \in Files /\ Len(dirs) \in Nat \ {0} /\ DOMAIN dirs = 1..Len(dirs)
         /\ Here.wifi \in Names /\ Here.forget \in Names
         /\ Here.runtime \in Endpoints \cup {Nothing}
<1>1. dirs \in Seq(Files) /\ dirs # <<>>
  BY DEF TypeOK
<1>2. Len(dirs) \in Nat \ {0} /\ DOMAIN dirs = 1..Len(dirs)
  BY <1>1
<1>3. Here \in Files
  BY <1>1, <1>2 DEF Here
<1> QED
  BY <1>2, <1>3 DEF Files, Names

\* After a rename or an unlink the new version is the current one.
LEMMA ChangeHere ==
  ASSUME TypeOK, NEW f \in Files, dirs' = Append(dirs, f)
  PROVE  dirs' \in Seq(Files) /\ dirs' # <<>> /\ Here' = f
<1>1. dirs \in Seq(Files)
  BY DEF TypeOK
<1>2. /\ dirs' \in Seq(Files) /\ Len(dirs') = Len(dirs) + 1 /\ Len(dirs) \in Nat
      /\ dirs'[Len(dirs) + 1] = f
  BY <1>1
<1> QED
  BY <1>2 DEF Here

\* After the sync of the directory it is the only one.
LEMMA SyncHere ==
  ASSUME TypeOK, dirs' = <<Here>>
  PROVE  dirs' \in Seq(Files) /\ dirs' # <<>> /\ Here' = Here /\ Synced'
<1>1. PICK f \in Files : f = Here
  BY HereTyped
<1>2. dirs' = <<f>>
  BY <1>1
<1>3. dirs' \in Seq(Files) /\ dirs' # <<>> /\ Len(dirs') = 1 /\ dirs'[1] = f
  BY <1>2
<1> QED
  BY <1>1, <1>3 DEF Here, Synced

\* A synced directory has one version, whatever a power loss picks.
LEMMA SyncedIsHere ==
  ASSUME TypeOK, Synced
  PROVE  \A k \in DOMAIN dirs : dirs[k] = Here
BY HereTyped DEF Synced, Here

\* The count of faults stays in its bound.
LEMMA FaultTyped ==
  ASSUME TypeOK, Fault \/ UNCHANGED faults
  PROVE  faults' \in 0..MaxFaults
BY ProvWifiAssumption DEF TypeOK, Fault

\* What the worker's record holds.
LEMMA WorkTyped ==
  ASSUME TypeOK
  PROVE  /\ w \in Works /\ w.pc \in PCs /\ w.op \in Ops /\ w.after \in PCs
         /\ w.value \in Networks \cup Endpoints \cup {Nothing} /\ w.previous \in Names
         /\ w.undoing \in BOOLEAN /\ w.complete \in BOOLEAN /\ w.cancelled \in BOOLEAN
         /\ w.raced \in BOOLEAN /\ w.ok \in BOOLEAN /\ w.change \in Changes
         /\ w.disposition \in Dispositions /\ w.state \in Shown
BY DEF TypeOK, Works, Names

\* Only the worker's steps and a power loss change the store, the profile or
\* the operation's progress: the rest of a worker's step is as before.
LEMMA WorkerGoesOn ==
  ASSUME WifiInv, UNCHANGED mainVars, Fault \/ UNCHANGED faults, daemon # "down",
         dirs' \in Seq(Files), dirs' # <<>>, profile' \in Names, shown' \in Shown,
         w' \in Works, w'.op = w.op, w'.pc \in Steps(w.op), w'.pc \notin {"idle", "done"},
         ~w'.complete
  PROVE  TypeOK' /\ WorkerInv' /\ CommittedIsDurable' /\ NoLostRetry'
<1>0. TypeOK /\ NoLostRetry /\ WorkerInv
  BY DEF WifiInv
<1>1. faults' \in 0..MaxFaults
  BY <1>0, FaultTyped
<1>2. UNCHANGED <<daemon, connman, retry, settled, requests, agent, cycles>>
  BY DEF mainVars, agentVars
<1>3. {connman', retry', settled'} \subseteq BOOLEAN
  BY <1>0, <1>2 DEF TypeOK
<1>4. TypeOK'
  BY <1>0, <1>1, <1>2, <1>3 DEF TypeOK, Names
<1>5. WorkerInv'
  BY <1>2 DEF WorkerInv, At
<1>6. CommittedIsDurable'
  BY DEF CommittedIsDurable, At
<1>7. NoLostRetry'
  <2>1. At("idle") => w.op = "reconcile"
    BY <1>0 DEF WorkerInv, NoWork
  <2> QED
    BY <1>0, <1>2 DEF NoLostRetry, At
<1> QED
  BY <1>4, <1>5, <1>6, <1>7

\* The end of an operation: only what it reports is left to show.
LEMMA WorkerEnds ==
  ASSUME WifiInv, UNCHANGED <<dirs, mainVars>>, Fault \/ UNCHANGED faults, daemon # "down",
         profile' \in Names, shown' \in Shown,
         w' \in Works, w'.op = w.op, w'.pc = "done", w'.value = w.value,
         w'.undoing = w.undoing, w.pc # "idle",
         ShownInv', CommittedIsDurable'
  PROVE  WifiInv'
<1>0. TypeOK /\ NoLostRetry /\ WorkerInv /\ SetWifiInv /\ EndpointInv /\ FollowInv
  BY DEF WifiInv
<1>1. faults' \in 0..MaxFaults
  BY <1>0, FaultTyped
<1>2. UNCHANGED <<dirs, daemon, connman, retry, settled, requests, agent, cycles>>
  BY DEF mainVars, agentVars
<1>3. {connman', retry', settled'} \subseteq BOOLEAN
  BY <1>0, <1>2 DEF TypeOK
<1>4. TypeOK'
  BY <1>0, <1>1, <1>2, <1>3 DEF TypeOK, Names
<1>5. WorkerInv'
  BY <1>0, <1>2, WorkTyped DEF WorkerInv, At, Steps, Ops
<1>6. SetWifiInv' /\ EndpointInv' /\ FollowInv' /\ AppliedInv'
  BY <1>0 DEF SetWifiInv, EndpointInv, FollowInv, AppliedInv, At
<1>7. NoLostRetry'
  BY <1>0, <1>2 DEF NoLostRetry, At
<1> QED
  BY <1>4, <1>5, <1>6, <1>7 DEF WifiInv

\* An operation that claims no change may end anywhere.
LEMMA NothingClaimed ==
  ASSUME w'.pc = "done", w'.op = w.op, ~w'.complete, w'.change # "ROLLED_BACK",
         w.op \in {"SET_WIFI", "SET_ENDPOINT"} => w'.change # "COMMITTED"
  PROVE  CommittedIsDurable'
BY DEF CommittedIsDurable

\* The main loop touches neither the store nor the profile.
LEMMA SubmitKeeps ==
  ASSUME WifiInv, NEW op \in Ops, NEW value, Submit(op, value),
         \/ op = "SET_WIFI" /\ value \in Networks
         \/ op = "SET_ENDPOINT" /\ value \in Endpoints
         \/ op \in {"FORGET_WIFI", "CHECK_UPDATE_NOW"} /\ value = Nothing
  PROVE  WifiInv'
<1>0. TypeOK /\ ShownInv /\ NoLostRetry /\ WorkerInv /\ w = NoWork
  BY DEF WifiInv, WorkerInv, Submit
<1>1. /\ UNCHANGED <<dirs, profile, daemon, connman, retry, shown, settled, faults, agent, cycles>>
      /\ daemon = "up" /\ requests < MaxRequests /\ requests' = requests + 1
  BY DEF Submit, agentVars
<1>2. /\ w' \in Works /\ w'.pc = "gate" /\ w'.op = op /\ w'.value = value
      /\ w'.undoing = FALSE /\ w'.complete = FALSE
  BY <1>0, WorkTyped DEF Submit, Works, NoWork, PCs
<1>3. requests' \in 0..MaxRequests
  BY <1>0, <1>1, ProvWifiAssumption DEF TypeOK
<1>4. {connman', retry', settled'} \subseteq BOOLEAN
  BY <1>0, <1>1 DEF TypeOK
<1>5. TypeOK'
  BY <1>0, <1>1, <1>2, <1>3, <1>4 DEF TypeOK
<1>6. WorkerInv' /\ SetWifiInv' /\ EndpointInv' /\ FollowInv' /\ AppliedInv'
  BY <1>1, <1>2 DEF WorkerInv, SetWifiInv, EndpointInv, FollowInv, AppliedInv, At, Steps
<1>7. ShownInv' /\ CommittedIsDurable'
  BY <1>0, <1>1, <1>2 DEF ShownInv, CommittedIsDurable, At, Here
<1>8. NoLostRetry'
  BY <1>0, <1>1 DEF NoLostRetry, At, NoWork
<1> QED
  BY <1>5, <1>6, <1>7, <1>8 DEF WifiInv

\* A step that leaves store, profile, worker, status and daemon as they were.
LEMMA OutsideKeeps ==
  ASSUME WifiInv, TypeOK', NoLostRetry', UNCHANGED <<dirs, profile, w, daemon, shown>>
  PROVE  WifiInv'
<1>1. Here' = Here /\ Applied' = Applied /\ (Synced' <=> Synced)
  BY DEF Here, Applied, Synced
<1>2. WorkerInv'
  BY DEF WifiInv, WorkerInv, At
<1>3. SetWifiInv' /\ EndpointInv' /\ FollowInv'
  BY <1>1 DEF WifiInv, SetWifiInv, EndpointInv, FollowInv, At
<1>4. AppliedInv' /\ ShownInv' /\ CommittedIsDurable'
  BY <1>1 DEF WifiInv, AppliedInv, ShownInv, CommittedIsDurable, At
<1> QED
  BY <1>2, <1>3, <1>4 DEF WifiInv

\* An idle worker owes nothing: what is left of the invariant when it is.
LEMMA IdleWorker ==
  ASSUME TypeOK', w' = NoWork, ShownInv', NoLostRetry'
  PROVE  WifiInv'
<1>1. w'.pc = "idle" /\ w'.op = "reconcile" /\ ~w'.undoing /\ ~w'.complete
  BY DEF NoWork
<1> QED
  BY <1>1 DEF WifiInv, WorkerInv, SetWifiInv, EndpointInv, FollowInv, AppliedInv,
     CommittedIsDurable, At, Steps

\* connman_appeared and connman_vanished.
LEMMA ConnmanKeeps ==
  ASSUME WifiInv, ConnmanAppears \/ ConnmanVanishes
  PROVE  WifiInv'
<1>0. TypeOK /\ NoLostRetry /\ WorkerInv /\ {connman, retry, settled} \subseteq BOOLEAN
  BY DEF WifiInv, TypeOK
<1>1. CASE ConnmanAppears
  <2>1. {connman', retry', settled'} \subseteq BOOLEAN
    BY <1>1 DEF ConnmanAppears
  <2>2. TypeOK'
    BY <1>0, <1>1, <2>1 DEF ConnmanAppears, TypeOK, agentVars
  <2>3. NoLostRetry'
    BY <1>1 DEF ConnmanAppears, NoLostRetry
  <2> QED
    BY <1>1, <2>2, <2>3, OutsideKeeps DEF ConnmanAppears
<1>2. CASE ConnmanVanishes
  <2>1. /\ UNCHANGED <<dirs, profile, daemon, settled, requests, faults, agent, cycles>>
        /\ connman' = FALSE /\ retry' = FALSE /\ shown' = "FAILED" /\ daemon = "up"
    BY <1>2 DEF ConnmanVanishes, agentVars
  <2>2. /\ w' \in Works /\ w'.pc = w.pc /\ w'.op = w.op /\ w'.value = w.value
        /\ w'.previous = w.previous /\ w'.after = w.after /\ w'.undoing = w.undoing
        /\ w'.complete = w.complete /\ w'.change = w.change
        /\ w'.disposition = w.disposition /\ w'.state = w.state
        /\ w.pc = "idle" => w' = w
    BY <1>0, <1>2, WorkTyped DEF ConnmanVanishes, Works, At
  <2>3. {connman', retry', settled'} \subseteq BOOLEAN
    BY <1>0, <2>1
  <2>4. TypeOK'
    BY <1>0, <2>1, <2>2, <2>3 DEF TypeOK, Shown
  <2>5. Here' = Here /\ Applied' = Applied /\ (Synced' <=> Synced)
    BY <2>1, <2>2 DEF Here, Applied, Synced
  <2>6. WorkerInv'
    BY <1>0, <2>1, <2>2 DEF WorkerInv, At
  <2>7. SetWifiInv' /\ EndpointInv' /\ FollowInv'
    BY <2>1, <2>2, <2>5 DEF WifiInv, SetWifiInv, EndpointInv, FollowInv, At
  <2>8. AppliedInv' /\ ShownInv' /\ CommittedIsDurable'
    BY <2>1, <2>2, <2>5 DEF WifiInv, AppliedInv, ShownInv, CommittedIsDurable, At
  <2>9. NoLostRetry'
    BY <2>1 DEF NoLostRetry
  <2> QED
    BY <2>4, <2>6, <2>7, <2>8, <2>9 DEF WifiInv
<1> QED
  BY <1>1, <1>2

\* connman_reconcile_retry: an armed retry is kept or becomes the operation.
LEMMA RetryKeeps ==
  ASSUME WifiInv, RetryFires
  PROVE  WifiInv'
<1>0. TypeOK /\ NoLostRetry /\ WorkerInv /\ ShownInv /\ {connman, retry, settled} \subseteq BOOLEAN
  BY DEF WifiInv, TypeOK
<1>1. UNCHANGED <<dirs, profile, daemon, connman, shown, settled, requests, faults, agent, cycles>>
  BY DEF RetryFires, agentVars
<1>2. CASE At("idle")
  <2>1. w' = [NoWork EXCEPT !.pc = "pending"] /\ retry' = FALSE
    BY <1>2 DEF RetryFires
  <2>2. /\ w' \in Works /\ w'.pc = "pending" /\ w'.op = "reconcile" /\ ~w'.undoing
        /\ ~w'.complete
    BY <1>0, <2>1 DEF NoWork, Works, PCs, Ops, Changes, Dispositions, Shown
  <2>3. {connman', retry', settled'} \subseteq BOOLEAN
    BY <1>0, <1>1, <2>1
  <2>4. TypeOK'
    BY <1>0, <1>1, <2>2, <2>3 DEF TypeOK
  <2>5. WorkerInv' /\ SetWifiInv' /\ EndpointInv' /\ FollowInv' /\ AppliedInv'
    BY <1>1, <2>2 DEF WorkerInv, SetWifiInv, EndpointInv, FollowInv, AppliedInv, At, Steps, RetryFires
  <2>6. ShownInv' /\ CommittedIsDurable' /\ NoLostRetry'
    BY <1>0, <1>1, <2>2 DEF ShownInv, CommittedIsDurable, NoLostRetry, At, Here
  <2> QED
    BY <2>4, <2>5, <2>6 DEF WifiInv
<1>3. CASE ~At("idle")
  <2>1. UNCHANGED <<w, retry>>
    BY <1>3 DEF RetryFires
  <2>2. TypeOK'
    BY <1>0, <1>1, <2>1 DEF TypeOK
  <2>3. NoLostRetry'
    BY <1>0, <1>1, <2>1 DEF NoLostRetry, At
  <2> QED
    BY <1>1, <2>1, <2>2, <2>3, OutsideKeeps
<1> QED
  BY <1>2, <1>3

\* completed: a reconciliation that failed is armed again.
LEMMA WorkerDoneKeeps ==
  ASSUME WifiInv, WorkerDone
  PROVE  WifiInv'
<1>0. TypeOK /\ NoLostRetry /\ WorkerInv /\ ShownInv /\ {connman, retry, settled} \subseteq BOOLEAN
  BY DEF WifiInv, TypeOK
<1>1. /\ UNCHANGED <<dirs, profile, daemon, connman, shown, requests, faults, agent, cycles>>
      /\ w' = NoWork /\ w.pc = "done"
  BY DEF WorkerDone, agentVars, At
<1>2. w' \in Works
  BY <1>1 DEF NoWork, Works, PCs, Ops, Changes, Dispositions, Shown
<1>3. w.ok \in BOOLEAN
  BY <1>0, WorkTyped
<1>4. retry' \in BOOLEAN /\ settled' \in BOOLEAN
  BY <1>0, <1>3 DEF WorkerDone
<1>5. TypeOK'
  BY <1>0, <1>1, <1>2, <1>4 DEF TypeOK
<1>6. NoLostRetry'
  <2>1. CASE w.op = "reconcile" /\ daemon = "up"
    <3>1. retry' = (retry \/ (~w.ok /\ connman)) /\ settled' = (settled \/ w.ok)
      BY <2>1 DEF WorkerDone
    <3>2. connman /\ ~settled' => retry'
      BY <3>1, Zenon
    <3> QED
      BY <1>1, <3>2 DEF NoLostRetry
  <2>2. CASE ~(w.op = "reconcile" /\ daemon = "up")
    <3>1. UNCHANGED <<retry, settled>>
      BY <2>2 DEF WorkerDone
    <3> QED
      BY <1>0, <1>1, <2>2, <3>1 DEF NoLostRetry
  <2> QED
    BY <2>1, <2>2
<1>7. ShownInv'
  BY <1>0, <1>1 DEF ShownInv, Here
<1> QED
  BY <1>1, <1>5, <1>6, <1>7, IdleWorker

\* The daemon stops, ends, starts or is killed.
LEMMA DaemonKeeps ==
  ASSUME WifiInv, StopDaemon \/ DaemonEnds \/ StartDaemon \/ Kill
  PROVE  WifiInv'
<1>0. TypeOK /\ NoLostRetry /\ WorkerInv /\ ShownInv /\ {connman, retry, settled} \subseteq BOOLEAN
  BY DEF WifiInv, TypeOK
<1>1. CASE StopDaemon
  <2>1. /\ UNCHANGED <<dirs, profile, w, connman, shown, settled, requests, faults, agent, cycles>>
        /\ daemon = "up" /\ daemon' = "stopping" /\ retry' = FALSE
    BY <1>1 DEF StopDaemon, agentVars
  <2>2. TypeOK'
    BY <1>0, <2>1 DEF TypeOK
  <2>3. Here' = Here /\ Applied' = Applied /\ (Synced' <=> Synced)
    BY <2>1 DEF Here, Applied, Synced
  <2>4. WorkerInv'
    BY <1>0, <2>1 DEF WorkerInv, At
  <2>5. SetWifiInv' /\ EndpointInv' /\ FollowInv'
    BY <2>1, <2>3 DEF WifiInv, SetWifiInv, EndpointInv, FollowInv, At
  <2>6. AppliedInv' /\ ShownInv' /\ CommittedIsDurable' /\ NoLostRetry'
    BY <2>1, <2>3 DEF WifiInv, AppliedInv, ShownInv, CommittedIsDurable, NoLostRetry, At
  <2> QED
    BY <2>2, <2>4, <2>5, <2>6 DEF WifiInv
<1>2. CASE DaemonEnds \/ StartDaemon
  <2>1. w' = w /\ w = NoWork
    BY <1>0, <1>2 DEF DaemonEnds, StartDaemon, WorkerInv
  <2>2. {connman', retry', settled'} \subseteq BOOLEAN
    BY <1>0, <1>2 DEF DaemonEnds, StartDaemon
  <2>3. TypeOK'
    BY <1>0, <1>2, <2>2 DEF DaemonEnds, StartDaemon, TypeOK, agentVars, Shown
  <2>4. ShownInv' /\ NoLostRetry'
    BY <1>2 DEF DaemonEnds, StartDaemon, ShownInv, NoLostRetry
  <2> QED
    BY <2>1, <2>3, <2>4, IdleWorker
<1>3. CASE Kill
  <2>1. /\ UNCHANGED <<dirs, profile, connman, retry, shown, settled, requests, agent, cycles>>
        /\ Fault /\ daemon' = "down" /\ w' = NoWork
    BY <1>3 DEF Kill, agentVars
  <2>2. faults' \in 0..MaxFaults
    BY <1>0, <2>1, FaultTyped
  <2>3. w' \in Works
    BY <2>1 DEF NoWork, Works, PCs, Ops, Changes, Dispositions, Shown
  <2>4. TypeOK'
    BY <1>0, <2>1, <2>2, <2>3 DEF TypeOK
  <2>5. ShownInv' /\ NoLostRetry'
    BY <2>1 DEF ShownInv, NoLostRetry
  <2> QED
    BY <2>1, <2>4, <2>5, IdleWorker
<1> QED
  BY <1>1, <1>2, <1>3

\* What the board keeps of the agent.
LEMMA AgentGoneTyped ==
  ASSUME TypeOK
  PROVE  AgentGone \in [pc : {"down", "idle", "begun", "cycle"}, durable : BOOLEAN,
                        endpoint : Endpoints \cup {Nothing}, bound : Endpoints \cup {Nothing}]
BY DEF TypeOK, AgentGone, NoCycle

\* A power loss: whichever version of the directory it keeps, the daemon is
\* down, and shows nothing until it has started afresh.
LEMMA PowerLossKeeps ==
  ASSUME WifiInv, PowerLoss
  PROVE  WifiInv'
<1>0. TypeOK
  BY DEF WifiInv
<1>1. PICK k \in DOMAIN dirs : dirs' = <<dirs[k]>>
  BY DEF PowerLoss
<1>2. PICK f \in Files : f = dirs[k]
  BY <1>0 DEF TypeOK
<1>3. dirs' \in Seq(Files) /\ dirs' # <<>>
  <2>1. dirs' = <<f>>
    BY <1>1, <1>2
  <2> QED
    BY <2>1
<1>4. /\ UNCHANGED <<connman, retry, shown, settled, requests, cycles>>
      /\ Fault /\ daemon' = "down" /\ w' = NoWork /\ profile' \in Names /\ agent' = AgentGone
  BY DEF PowerLoss, Names
<1>5. faults' \in 0..MaxFaults
  BY <1>0, <1>4, FaultTyped
<1>6. w' \in Works
  BY <1>4 DEF NoWork, Works, PCs, Ops, Changes, Dispositions, Shown
<1>7. TypeOK'
  BY <1>0, <1>3, <1>4, <1>5, <1>6, AgentGoneTyped DEF TypeOK, Names
<1>8. ShownInv' /\ NoLostRetry'
  BY <1>4 DEF ShownInv, NoLostRetry
<1> QED
  BY <1>4, <1>7, <1>8, IdleWorker

\* The agent reads the endpoint and keeps its own record.
LEMMA AgentKeeps ==
  ASSUME WifiInv, Agent
  PROVE  WifiInv'
<1>0. TypeOK /\ NoLostRetry
  BY DEF WifiInv
<1> DEFINE Agents == [pc : {"down", "idle", "begun", "cycle"}, durable : BOOLEAN,
                      endpoint : Endpoints \cup {Nothing}, bound : Endpoints \cup {Nothing}]
<1>1. UNCHANGED <<dirs, profile, w, daemon, connman, retry, shown, settled, requests>>
  BY DEF Agent, CycleBegins, CycleRecorded, CycleEnds, AgentDies, AgentStarts
<1>2. /\ agent' \in Agents
      /\ Fault \/ UNCHANGED faults
      /\ cycles' \in 0..MaxCycles
  <2>0. agent \in Agents /\ cycles \in 0..MaxCycles /\ NoCycle \in Agents /\ AgentGone \in Agents
    BY <1>0, AgentGoneTyped DEF TypeOK, NoCycle
  <2>1. CASE CycleBegins
    <3>1. PICK e \in Endpoints \cup {Nothing} :
            Refreshed(e) /\ agent' = [pc |-> "begun", durable |-> FALSE,
                                      endpoint |-> e, bound |-> e]
      BY <2>1 DEF CycleBegins
    <3>2. cycles' \in 0..MaxCycles
      BY <2>0, <2>1, ProvWifiAssumption DEF CycleBegins
    <3> QED
      BY <3>1, <3>2 DEF Refreshed
  <2>2. CASE CycleRecorded
    BY <2>0, <2>2 DEF CycleRecorded
  <2>3. CASE CycleEnds
    BY <2>0, <2>3 DEF CycleEnds
  <2>4. CASE AgentDies
    BY <2>0, <2>4 DEF AgentDies
  <2>5. CASE AgentStarts
    <3>1. CASE agent.durable
      <4>1. PICK e \in Endpoints \cup {Nothing} :
              Refreshed(e) /\ agent' = [agent EXCEPT !.pc = "cycle", !.endpoint = e]
        BY <2>5, <3>1 DEF AgentStarts
      <4> QED
        BY <2>0, <2>5, <4>1 DEF Refreshed, AgentStarts
    <3>2. CASE ~agent.durable
      BY <2>0, <2>5, <3>2 DEF AgentStarts
    <3> QED
      BY <3>1, <3>2
  <2> QED
    BY <2>1, <2>2, <2>3, <2>4, <2>5 DEF Agent
<1>3. faults' \in 0..MaxFaults
  BY <1>0, <1>2, FaultTyped
<1>4. {connman', retry', settled'} \subseteq BOOLEAN
  BY <1>0, <1>1 DEF TypeOK
<1>5. TypeOK'
  BY <1>0, <1>1, <1>2, <1>3, <1>4 DEF TypeOK
<1>6. NoLostRetry'
  BY <1>0, <1>1 DEF NoLostRetry, At
<1> QED
  BY <1>1, <1>5, <1>6, OutsideKeeps

\* A worker that is not idle belongs to a running daemon.
LEMMA WorkerRuns ==
  ASSUME WifiInv, w.pc # "idle"
  PROVE  /\ daemon # "down" /\ w.pc \in Steps(w.op) /\ w.op \in Ops
         /\ w.pc # "done" => ~w.complete
BY WorkTyped DEF WifiInv, WorkerInv, At

\* A store that stays, with a status that does not say CONNECTED anew.
LEMMA ShownStays ==
  ASSUME WifiInv, UNCHANGED <<dirs, daemon>>,
         shown' = shown \/ shown' # "CONNECTED", profile' = profile \/ Here.wifi = Nothing
  PROVE  ShownInv'
BY DEF WifiInv, ShownInv, Here

\* The operation ends without a claim about the store.
LEMMA EndsPlainly ==
  ASSUME WifiInv, w.pc \notin {"idle", "done"}, NEW ok \in BOOLEAN, NEW change \in Changes,
         Result(ok, change), change # "ROLLED_BACK",
         w.op \in {"SET_WIFI", "SET_ENDPOINT"} => change # "COMMITTED",
         UNCHANGED <<dirs, mainVars>>, Fault \/ UNCHANGED faults,
         profile' \in Names, shown' \in Shown, ShownInv'
  PROVE  WifiInv'
<1>0. TypeOK
  BY DEF WifiInv
<1>1. /\ w' \in Works /\ w'.pc = "done" /\ w'.op = w.op /\ w'.value = w.value
      /\ w'.undoing = w.undoing /\ w'.complete = w.complete /\ w'.change = change
  BY <1>0, WorkTyped DEF Result, Works, PCs
<1>2. CommittedIsDurable'
  BY <1>1, WorkerRuns, NothingClaimed
<1> QED
  BY <1>1, <1>2, WorkerRuns, WorkerEnds

\* Whatever fails in the store ends the operation with its change unknown or
\* none.
LEMMA RefusalsKeep ==
  ASSUME WifiInv, GateRefuses \/ CheckUpdate \/ SyncFails \/ StoreFails
  PROVE  WifiInv'
<1>0. TypeOK /\ profile \in Names /\ shown \in Shown
  BY DEF WifiInv, TypeOK, Names
<1>1. CASE GateRefuses
  <2>1. Result(FALSE, "NONE") /\ w.pc = "gate" /\ UNCHANGED <<dirs, profile, shown, faults, mainVars>>
    BY <1>1 DEF GateRefuses, At
  <2>2. UNCHANGED daemon
    BY <2>1 DEF mainVars
  <2> QED
    BY <1>0, <2>1, <2>2, ShownStays, EndsPlainly DEF Changes
<1>2. CASE CheckUpdate
  <2>1. PICK ok \in BOOLEAN : Result(ok, "NONE")
    BY <1>2 DEF CheckUpdate
  <2>2. w.pc = "ask" /\ UNCHANGED <<dirs, profile, shown, faults, mainVars>>
    BY <1>2 DEF CheckUpdate, At
  <2>3. UNCHANGED daemon
    BY <2>2 DEF mainVars
  <2> QED
    BY <1>0, <2>1, <2>2, <2>3, ShownStays, EndsPlainly DEF Changes
<1>3. CASE SyncFails
  <2>1. /\ Result(FALSE, "UNCERTAIN") /\ w.pc = "sync" /\ Fault
        /\ UNCHANGED <<dirs, profile, shown, mainVars>>
    BY <1>3 DEF SyncFails, At
  <2>2. UNCHANGED daemon
    BY <2>1 DEF mainVars
  <2> QED
    BY <1>0, <2>1, <2>2, ShownStays, EndsPlainly DEF Changes
<1>4. CASE StoreFails
  <2>1. /\ Result(FALSE, "NONE") /\ w.pc \notin {"idle", "done"} /\ Fault
        /\ UNCHANGED <<dirs, profile, mainVars>> /\ shown' \in {shown, "FAILED"}
    BY <1>4 DEF StoreFails, At
  <2>2. UNCHANGED daemon /\ shown' \in Shown
    BY <1>0, <2>1 DEF mainVars, Shown
  <2> QED
    BY <1>0, <2>1, <2>2, ShownStays, EndsPlainly DEF Changes
<1> QED
  BY <1>1, <1>2, <1>3, <1>4

\* No network is canonical when a profile is removed.
LEMMA RemovalIsOfNothing ==
  ASSUME WifiInv, w.pc \in {"remove", "revoke", "confirm", "finish"}
  PROVE  Here.wifi = Nothing
<1>1. w.op \in {"SET_WIFI", "FORGET_WIFI", "reconcile"} /\ (w.op = "SET_WIFI" => w.pc = "remove")
  BY WorkerRuns DEF Steps, Ops
<1> QED
  BY <1>1 DEF WifiInv, SetWifiInv, FollowInv, At

\* A profile that could not be removed, or whose revocation was not seen.
LEMMA RemovalFailsKeeps ==
  ASSUME WifiInv, RevokeUncertain \/ RevokeFails \/ RemoveProfileFails
  PROVE  WifiInv'
<1>0. TypeOK /\ profile \in Names /\ shown \in Shown /\ Nothing \in Names
  BY DEF WifiInv, TypeOK, Names
<1>1. CASE RevokeUncertain
  <2>1. /\ w.pc \in {"confirm", "revoke"} /\ UNCHANGED <<dirs, profile, faults, mainVars>>
        /\ shown' \in {shown, "APPLYING", "FAILED"}
    BY <1>1 DEF RevokeUncertain, At
  <2>2. PICK c \in {"COMMITTED", "NONE"} : Result(FALSE, c)
    BY <1>1 DEF RevokeUncertain, RevokeFailed
  <2>3. w.op \notin {"SET_WIFI", "SET_ENDPOINT"}
    BY <2>1, WorkerRuns DEF Steps
  <2>4. UNCHANGED daemon /\ shown' \in Shown
    BY <1>0, <2>1 DEF mainVars, Shown
  <2> QED
    BY <1>0, <2>1, <2>2, <2>3, <2>4, ShownStays, EndsPlainly DEF Changes
<1>2. CASE RevokeFails
  <2>1. /\ w.pc = "revoke" /\ Fault /\ UNCHANGED <<dirs, mainVars>>
        /\ shown' \in {shown, "APPLYING"} /\ profile' \in {profile, Nothing}
    BY <1>2 DEF RevokeFails, At
  <2>2. PICK c \in {"COMMITTED", "NONE"} : Result(FALSE, c)
    BY <1>2 DEF RevokeFails, RevokeFailed
  <2>3. w.op \notin {"SET_WIFI", "SET_ENDPOINT"}
    BY <2>1, WorkerRuns DEF Steps
  <2>4. UNCHANGED daemon /\ shown' \in Shown /\ profile' \in Names
    BY <1>0, <2>1 DEF mainVars, Shown
  <2> QED
    BY <1>0, <2>1, <2>2, <2>3, <2>4, RemovalIsOfNothing, ShownStays, EndsPlainly DEF Changes
<1>3. CASE RemoveProfileFails
  <2>1. /\ w.pc = "remove" /\ Fault /\ UNCHANGED <<dirs, mainVars>>
        /\ shown' \in {shown, "FAILED", "UNPROVISIONED"} /\ profile' \in {profile, Nothing}
    BY <1>3 DEF RemoveProfileFails, At
  <2>2. PICK c \in {"UNCERTAIN", "NONE"} : Result(FALSE, c)
    BY <1>3 DEF RemoveProfileFails
  <2>4. UNCHANGED daemon /\ shown' \in Shown /\ profile' \in Names
    BY <1>0, <2>1 DEF mainVars, Shown
  <2> QED
    BY <1>0, <2>1, <2>2, <2>4, RemovalIsOfNothing, ShownStays, EndsPlainly DEF Changes
<1> QED
  BY <1>1, <1>2, <1>3

\* stable_idle and authorize_commit let the operation in: a new network takes
\* CONNECTED off the status.
LEMMA GateKeeps ==
  ASSUME WifiInv, GatePasses
  PROVE  WifiInv'
<1>0. /\ TypeOK /\ profile \in Names /\ shown \in Shown
      /\ SetWifiInv /\ EndpointInv /\ FollowInv
  BY DEF WifiInv, TypeOK, Names
<1>1. w.pc = "gate" /\ UNCHANGED <<dirs, profile, faults, mainVars>>
  BY DEF GatePasses, At
<1>2. w.op \in {"SET_WIFI", "FORGET_WIFI", "SET_ENDPOINT", "CHECK_UPDATE_NOW"}
  BY <1>1, WorkerRuns DEF Steps, Ops
<1>3. PICK to \in {"replace", "begin", "endpoint", "ask"} :
        /\ GoTo(to) /\ to \in Steps(w.op)
        /\ w.op = "SET_WIFI" => to = "replace"
  BY <1>2 DEF GatePasses, Steps
<1>4. /\ w' \in Works /\ w'.pc = to /\ w'.op = w.op /\ w'.value = w.value
      /\ w'.undoing = w.undoing /\ w'.complete = w.complete
  BY <1>0, <1>3, WorkTyped DEF GoTo, Works, PCs
<1>5. /\ UNCHANGED daemon /\ shown' \in Shown /\ (shown' = shown \/ shown' # "CONNECTED")
      /\ w.op = "SET_WIFI" => shown' # "CONNECTED"
  BY <1>0, <1>1 DEF GatePasses, mainVars, Shown
<1>6. TypeOK' /\ WorkerInv' /\ CommittedIsDurable' /\ NoLostRetry'
  <2>1. dirs' \in Seq(Files) /\ dirs' # <<>>
    BY <1>0, <1>1 DEF TypeOK
  <2>2. ~w'.complete /\ daemon # "down" /\ profile' \in Names
    BY <1>0, <1>1, <1>4, WorkerRuns
  <2> QED
    BY <1>1, <1>3, <1>4, <1>5, <2>1, <2>2, WorkerGoesOn
<1>7. ShownInv'
  BY <1>1, <1>5, ShownStays
<1>8. SetWifiInv' /\ EndpointInv' /\ FollowInv' /\ AppliedInv'
  BY <1>0, <1>1, <1>3, <1>4, <1>5 DEF SetWifiInv, EndpointInv, FollowInv, AppliedInv, At
<1> QED
  BY <1>6, <1>7, <1>8 DEF WifiInv

\* A rename or unlink in the store, waiting for its sync.
LEMMA StoreChanges ==
  ASSUME WifiInv, w.pc \notin {"idle", "done"}, NEW f \in Files, dirs' = Append(dirs, f),
         w' \in Works, w'.op = w.op, w'.pc = "sync",
         "sync" \in Steps(w.op), w'.complete = w.complete,
         UNCHANGED <<profile, shown, faults, mainVars>>
  PROVE  /\ TypeOK' /\ WorkerInv' /\ CommittedIsDurable' /\ NoLostRetry'
         /\ Here' = f /\ UNCHANGED daemon
<1>0. TypeOK /\ profile \in Names /\ shown \in Shown
  BY DEF WifiInv, TypeOK, Names
<1>1. dirs' \in Seq(Files) /\ dirs' # <<>> /\ Here' = f
  BY <1>0, ChangeHere
<1>2. ~w'.complete /\ daemon # "down"
  BY WorkerRuns
<1>3. TypeOK' /\ WorkerInv' /\ CommittedIsDurable' /\ NoLostRetry'
  BY <1>0, <1>1, <1>2, WorkerGoesOn
<1> QED
  BY <1>1, <1>3 DEF mainVars

\* The new network is stored; the status does not say CONNECTED.
LEMMA ReplaceWifiKeeps ==
  ASSUME WifiInv, ReplaceWifi
  PROVE  WifiInv'
<1>0. TypeOK /\ SetWifiInv /\ Here \in Files /\ Here.wifi \in Names
  BY HereTyped DEF WifiInv
<1>1. w.pc = "replace" /\ UNCHANGED <<profile, shown, faults, mainVars>>
  BY DEF ReplaceWifi, At
<1>2. w.op = "SET_WIFI"
  BY <1>1, WorkerRuns DEF Steps, Ops
<1>3. w.value \in Networks /\ shown # "CONNECTED" /\ ~w.undoing
  BY <1>0, <1>1, <1>2 DEF SetWifiInv
<1> PICK f : f = [Here EXCEPT !.wifi = w.value]
  OBVIOUS
<1>4. f \in Files /\ f.wifi = w.value
  BY <1>0, <1>3 DEF Files
<1>5. /\ w' \in Works /\ w'.pc = "sync" /\ w'.op = w.op /\ w'.value = w.value
      /\ w'.after = "profile" /\ w'.undoing = w.undoing /\ w'.complete = w.complete
  BY <1>0, WorkTyped DEF ReplaceWifi, Works, PCs, Names
<1>6. TypeOK' /\ WorkerInv' /\ CommittedIsDurable' /\ NoLostRetry' /\ Here' = f
  <2>1. dirs' = Append(dirs, f)
    BY DEF ReplaceWifi
  <2> QED
    BY <1>1, <1>2, <1>4, <1>5, <2>1, StoreChanges DEF Steps, PCs
<1>7. SetWifiInv'
  BY <1>1, <1>2, <1>3, <1>4, <1>5, <1>6 DEF SetWifiInv, At
<1>8. EndpointInv' /\ FollowInv' /\ AppliedInv' /\ ShownInv'
  BY <1>1, <1>2, <1>3, <1>5 DEF EndpointInv, FollowInv, AppliedInv, ShownInv, At
<1> QED
  BY <1>6, <1>7, <1>8 DEF WifiInv

\* The new endpoint is stored; network and tombstone are as before.
LEMMA ReplaceRuntimeKeeps ==
  ASSUME WifiInv, ReplaceRuntime
  PROVE  WifiInv'
<1>0. TypeOK /\ EndpointInv /\ ShownInv /\ Here \in Files
  BY HereTyped DEF WifiInv
<1>1. w.pc = "endpoint" /\ UNCHANGED <<profile, shown, faults, mainVars>>
  BY DEF ReplaceRuntime, At
<1>2. w.op = "SET_ENDPOINT"
  BY <1>1, WorkerRuns DEF Steps, Ops
<1>3. w.value \in Endpoints /\ ~w.undoing
  BY <1>0, <1>2 DEF EndpointInv
<1> PICK f : f = [Here EXCEPT !.runtime = w.value]
  OBVIOUS
<1>4. f \in Files /\ f.runtime = w.value /\ f.wifi = Here.wifi /\ f.forget = Here.forget
  BY <1>0, <1>3 DEF Files
<1>5. /\ w' \in Works /\ w'.pc = "sync" /\ w'.op = w.op /\ w'.value = w.value
      /\ w'.after = "finished" /\ w'.undoing = w.undoing /\ w'.complete = w.complete
  BY <1>0, WorkTyped DEF ReplaceRuntime, Change, Works, PCs
<1>6. /\ TypeOK' /\ WorkerInv' /\ CommittedIsDurable' /\ NoLostRetry' /\ Here' = f
      /\ UNCHANGED daemon
  <2>1. dirs' = Append(dirs, f)
    BY DEF ReplaceRuntime, Change
  <2> QED
    BY <1>1, <1>2, <1>4, <1>5, <2>1, StoreChanges DEF Steps, PCs
<1>7. SetWifiInv' /\ EndpointInv' /\ FollowInv' /\ AppliedInv'
  BY <1>2, <1>3, <1>4, <1>5, <1>6 DEF SetWifiInv, EndpointInv, FollowInv, AppliedInv, At
<1>8. ShownInv'
  BY <1>0, <1>1, <1>4, <1>6 DEF ShownInv
<1> QED
  BY <1>6, <1>7, <1>8 DEF WifiInv

\* The previous network, or its absence, is stored again.
LEMMA RestoreWifiKeeps ==
  ASSUME WifiInv, RestoreWifi
  PROVE  WifiInv'
<1>0. TypeOK /\ SetWifiInv /\ Here \in Files /\ w.previous \in Names
  BY HereTyped, WorkTyped DEF WifiInv
<1>1. w.pc = "restore" /\ UNCHANGED <<profile, shown, faults, mainVars>>
  BY DEF RestoreWifi, At
<1>2. w.op = "SET_WIFI"
  BY <1>1, WorkerRuns DEF Steps, Ops
<1>3. w.value \in Networks /\ shown # "CONNECTED" /\ ~w.undoing
  BY <1>0, <1>1, <1>2 DEF SetWifiInv
<1> PICK f : f = [Here EXCEPT !.wifi = w.previous]
  OBVIOUS
<1>4. f \in Files /\ f.wifi = w.previous
  BY <1>0 DEF Files, Names
<1>5. /\ w' \in Works /\ w'.pc = "sync" /\ w'.op = w.op /\ w'.value = w.value
      /\ w'.after = "restored" /\ w'.undoing = w.undoing /\ w'.complete = w.complete
      /\ w'.previous = w.previous
  BY <1>0, WorkTyped DEF RestoreWifi, Change, Works, PCs, Names
<1>6. TypeOK' /\ WorkerInv' /\ CommittedIsDurable' /\ NoLostRetry' /\ Here' = f
  <2>1. dirs' = Append(dirs, f)
    BY DEF RestoreWifi, Change
  <2> QED
    BY <1>1, <1>2, <1>4, <1>5, <2>1, StoreChanges DEF Steps, PCs
<1>7. SetWifiInv'
  BY <1>1, <1>2, <1>3, <1>4, <1>5, <1>6 DEF SetWifiInv, At
<1>8. EndpointInv' /\ FollowInv' /\ AppliedInv' /\ ShownInv'
  BY <1>1, <1>2, <1>3, <1>5 DEF EndpointInv, FollowInv, AppliedInv, ShownInv, At
<1> QED
  BY <1>6, <1>7, <1>8 DEF WifiInv

\* The tombstone goes; the profile is gone already.
LEMMA ForgetFinishKeeps ==
  ASSUME WifiInv, ForgetFinish
  PROVE  WifiInv'
<1>0. TypeOK /\ FollowInv /\ Here \in Files /\ Nothing \in Names
  BY HereTyped DEF WifiInv, Names
<1>1. w.pc = "finish" /\ UNCHANGED <<profile, shown, faults, mainVars>>
  BY DEF ForgetFinish, At
<1>2. w.op \in {"FORGET_WIFI", "reconcile"} /\ "sync" \in Steps(w.op)
  BY <1>1, WorkerRuns DEF Steps, Ops
<1>3. ~w.undoing /\ Here.wifi = Nothing /\ profile = Nothing
  BY <1>0, <1>1, <1>2 DEF FollowInv
<1> PICK f : f = [Here EXCEPT !.forget = Nothing]
  OBVIOUS
<1>4. f \in Files /\ f.wifi = Nothing /\ f.forget = Nothing
  BY <1>0, <1>3 DEF Files, Names
<1>5. /\ w' \in Works /\ w'.pc = "sync" /\ w'.op = w.op /\ w'.value = w.value
      /\ w'.after = "finished" /\ w'.undoing = w.undoing /\ w'.complete = w.complete
  BY <1>0, WorkTyped DEF ForgetFinish, Change, Works, PCs
<1>6. TypeOK' /\ WorkerInv' /\ CommittedIsDurable' /\ NoLostRetry' /\ Here' = f
  <2>1. dirs' = Append(dirs, f)
    BY DEF ForgetFinish, Change
  <2> QED
    BY <1>1, <1>2, <1>4, <1>5, <2>1, StoreChanges DEF PCs
<1>7. SetWifiInv' /\ EndpointInv' /\ AppliedInv' /\ ShownInv'
  BY <1>2, <1>4, <1>5, <1>6 DEF SetWifiInv, EndpointInv, AppliedInv, ShownInv, At
<1>8. FollowInv'
  BY <1>1, <1>2, <1>3, <1>4, <1>5, <1>6 DEF FollowInv, At
<1> QED
  BY <1>6, <1>7, <1>8 DEF WifiInv

\* A worker's call that leaves the store as it is.
LEMMA StoreStays ==
  ASSUME WifiInv, w.pc \notin {"idle", "done"}, UNCHANGED <<dirs, mainVars>>,
         Fault \/ UNCHANGED faults,
         profile' \in Names, shown' \in Shown, w' \in Works, w'.op = w.op,
         w'.complete = w.complete, w'.pc \in Steps(w.op), w'.pc \notin {"idle", "done"}
  PROVE  /\ TypeOK' /\ WorkerInv' /\ CommittedIsDurable' /\ NoLostRetry'
         /\ Here' = Here /\ (Synced' <=> Synced) /\ UNCHANGED daemon
<1>0. TypeOK /\ dirs \in Seq(Files) /\ dirs # <<>>
  BY DEF WifiInv, TypeOK
<1>1. ~w'.complete /\ daemon # "down"
  BY WorkerRuns
<1>2. dirs' \in Seq(Files) /\ dirs' # <<>>
  BY <1>0
<1>3. TypeOK' /\ WorkerInv' /\ CommittedIsDurable' /\ NoLostRetry'
  BY <1>1, <1>2, WorkerGoesOn
<1> QED
  BY <1>3 DEF mainVars, Here, Synced

\* The sync of the directory: what was renamed is the only version left.
LEMMA SyncStoreKeeps ==
  ASSUME WifiInv, SyncStore
  PROVE  WifiInv'
<1>0. /\ TypeOK /\ profile \in Names /\ shown \in Shown
      /\ SetWifiInv /\ EndpointInv /\ FollowInv /\ ShownInv
  BY DEF WifiInv, TypeOK, Names
<1>1. /\ w.pc = "sync" /\ dirs' = <<Here>> /\ UNCHANGED <<profile, shown, faults, mainVars>>
      /\ UNCHANGED daemon
  BY DEF SyncStore, At, mainVars
<1>2. PICK r \in BOOLEAN : w' = [w EXCEPT !.pc = w.after, !.raced = r]
  <2>1. agent.durable \in BOOLEAN /\ w.raced \in BOOLEAN
    BY <1>0, WorkTyped DEF TypeOK
  <2>3. CASE w' \in Races([w EXCEPT !.pc = w.after])
    <3>1. PICK r \in {agent.durable, TRUE} : w' = [[w EXCEPT !.pc = w.after] EXCEPT !.raced = r]
      BY <2>3 DEF Races
    <3> QED
      BY <1>0, <2>1, <3>1, WorkTyped DEF Works
  <2>4. CASE w' = [w EXCEPT !.pc = w.after]
    <3>1. w' = [w EXCEPT !.pc = w.after, !.raced = w.raced]
      BY <1>0, <2>4, WorkTyped DEF Works
    <3> QED
      BY <2>1, <3>1
  <2> QED
    BY <2>3, <2>4 DEF SyncStore
<1>3. /\ w' \in Works /\ w'.pc = w.after /\ w'.op = w.op /\ w'.value = w.value
      /\ w'.undoing = w.undoing /\ w'.complete = w.complete /\ w'.previous = w.previous
  BY <1>0, <1>2, WorkTyped DEF Works
<1>4. dirs' \in Seq(Files) /\ dirs' # <<>> /\ Here' = Here /\ Synced'
  BY <1>0, <1>1, SyncHere
<1>5. w.op \in {"SET_WIFI", "SET_ENDPOINT", "FORGET_WIFI", "reconcile"}
  BY <1>1, WorkerRuns DEF Steps, Ops
<1>6. /\ w.op = "SET_WIFI" => w.after \in {"profile", "restored"}
      /\ w.op = "SET_ENDPOINT" => w.after = "finished"
      /\ w.op = "FORGET_WIFI" => w.after \in {"revoke", "finished"}
      /\ w.op = "reconcile" => w.after = "finished"
  BY <1>0, <1>1 DEF SetWifiInv, EndpointInv, FollowInv, At
<1>7. w'.pc \in Steps(w.op) /\ w'.pc \notin {"idle", "done"}
  BY <1>3, <1>5, <1>6 DEF Steps
<1>8. TypeOK' /\ WorkerInv' /\ CommittedIsDurable' /\ NoLostRetry'
  <2>1. ~w'.complete /\ daemon # "down" /\ profile' \in Names /\ shown' \in Shown
    BY <1>0, <1>1, <1>3, WorkerRuns
  <2> QED
    BY <1>1, <1>3, <1>4, <1>7, <2>1, WorkerGoesOn
<1>9. SetWifiInv'
  <2> SUFFICES ASSUME w.op = "SET_WIFI" PROVE SetWifiInv'
    BY <1>3 DEF SetWifiInv
  <2>1. /\ w.value \in Networks /\ shown # "CONNECTED" /\ ~w.undoing
        /\ \/ w.after = "profile" /\ Here.wifi = w.value
           \/ w.after = "restored" /\ Here.wifi = w.previous
    BY <1>0, <1>1 DEF SetWifiInv, At
  <2>2. Applied' = w.value /\ w.value # Nothing
    BY <1>3, <2>1, ProvWifiAssumption DEF Applied
  <2> QED
    BY <1>1, <1>3, <1>4, <2>1, <2>2 DEF SetWifiInv, At
<1>10. EndpointInv' /\ AppliedInv' /\ ShownInv'
  BY <1>0, <1>1, <1>3, <1>4, <1>5, <1>6 DEF EndpointInv, AppliedInv, ShownInv, At
<1>11. FollowInv'
  BY <1>0, <1>1, <1>3, <1>4, <1>6 DEF FollowInv, At
<1> QED
  BY <1>8, <1>9, <1>10, <1>11 DEF WifiInv

\* While ConnMan is told of a network, the store has it as the canonical one.
LEMMA ApplyStage ==
  ASSUME WifiInv, w.pc \in {"profile", "associate", "publish"}
  PROVE  /\ w.op \in {"SET_WIFI", "reconcile"}
         /\ Here.wifi = Applied /\ Applied # Nothing /\ Applied \in Names
         /\ w.op = "SET_WIFI" => shown # "CONNECTED" /\ Synced /\ w.value \in Networks
         /\ w.op = "reconcile" => ~w.undoing /\ w.value = Applied /\ w.value \in Networks
<1>1. w.op \in {"SET_WIFI", "reconcile"}
  BY WorkerRuns DEF Steps, Ops
<1>2. CASE w.op = "SET_WIFI"
  <2>1. Here.wifi \in Names
    BY HereTyped DEF WifiInv
  <2> QED
    BY <1>2, <2>1 DEF WifiInv, SetWifiInv
<1>3. CASE w.op = "reconcile"
  <2>1. ~w.undoing /\ Here.wifi = w.value /\ w.value \in Networks
    BY <1>3 DEF WifiInv, FollowInv
  <2>2. Applied = w.value /\ w.value # Nothing
    BY <2>1, ProvWifiAssumption DEF Applied
  <2> QED
    BY <1>3, <2>1, <2>2 DEF Names
<1> QED
  BY <1>1, <1>2, <1>3

\* The calls of egp_connman_apply up to its result.
LEMMA ApplyGoesOn ==
  ASSUME WifiInv, w.pc \in {"profile", "associate"}, UNCHANGED <<dirs, shown, mainVars>>,
         Fault \/ UNCHANGED faults, profile' \in {profile, Applied},
         w' \in Works, w'.op = w.op, w'.pc \in {"associate", "publish"}, w'.value = w.value,
         w'.previous = w.previous, w'.undoing = w.undoing, w'.complete = w.complete,
         w'.pc = "associate" => profile' = Applied,
         w'.pc = "publish" => /\ w'.disposition = "CONNECTED" => profile' = Applied
                              /\ w'.state = "CONNECTED" => w'.disposition = "CONNECTED"
  PROVE  WifiInv'
<1>0. TypeOK /\ profile \in Names /\ shown \in Shown /\ ShownInv
  BY DEF WifiInv, TypeOK, Names
<1>1. Applied' = Applied
  BY DEF Applied
<1>2. /\ w.op \in {"SET_WIFI", "reconcile"}
      /\ Here.wifi = Applied /\ Applied # Nothing /\ Applied \in Names
      /\ w.op = "SET_WIFI" => shown # "CONNECTED" /\ Synced /\ w.value \in Networks
      /\ w.op = "reconcile" => ~w.undoing /\ w.value = Applied /\ w.value \in Networks
  BY ApplyStage
<1>3. w'.pc \in Steps(w.op)
  BY <1>2 DEF Steps
<1>4. /\ TypeOK' /\ WorkerInv' /\ CommittedIsDurable' /\ NoLostRetry'
      /\ Here' = Here /\ (Synced' <=> Synced) /\ UNCHANGED daemon
  BY <1>0, <1>2, <1>3, StoreStays
<1>5. SetWifiInv' /\ EndpointInv' /\ FollowInv' /\ AppliedInv'
  BY <1>1, <1>2, <1>4 DEF SetWifiInv, EndpointInv, FollowInv, AppliedInv, At
<1>6. ShownInv'
  BY <1>0, <1>2, <1>4 DEF ShownInv
<1> QED
  BY <1>4, <1>5, <1>6 DEF WifiInv

\* egp_connman_apply: the profile is written, ConnMan answers or does not.
LEMMA ApplyKeeps ==
  ASSUME WifiInv,
         WriteProfile \/ WriteProfileFails \/ Connects \/ ConnmanRejects \/ OutcomeUncertain
  PROVE  WifiInv'
<1>0. TypeOK /\ AppliedInv
  BY DEF WifiInv
<1>1. CASE WriteProfile
  <2>1. /\ w.pc = "profile" /\ profile' = Applied /\ GoTo("associate")
        /\ UNCHANGED <<dirs, shown, faults, mainVars>>
    BY <1>1 DEF WriteProfile, At
  <2>2. /\ w' \in Works /\ w'.pc = "associate" /\ w'.op = w.op /\ w'.value = w.value
        /\ w'.undoing = w.undoing /\ w'.complete = w.complete /\ w'.previous = w.previous
    BY <1>0, <2>1, WorkTyped DEF GoTo, Works, PCs
  <2> QED
    BY <2>1, <2>2, ApplyGoesOn
<1>2. CASE WriteProfileFails
  <2>1. /\ w.pc = "profile" /\ profile' \in {profile, Applied} /\ Fault
        /\ ConnmanResult("RETAIN_CANONICAL", "APPLYING")
        /\ UNCHANGED <<dirs, shown, mainVars>>
    BY <1>2 DEF WriteProfileFails, At
  <2>2. /\ w' \in Works /\ w'.pc = "publish" /\ w'.op = w.op /\ w'.value = w.value
        /\ w'.undoing = w.undoing /\ w'.complete = w.complete /\ w'.previous = w.previous
        /\ w'.disposition = "RETAIN_CANONICAL" /\ w'.state = "APPLYING"
    BY <1>0, <2>1, WorkTyped DEF ConnmanResult, Works, PCs, Dispositions, Shown
  <2> QED
    BY <2>1, <2>2, ApplyGoesOn
<1>3. CASE Connects \/ ConnmanRejects \/ OutcomeUncertain
  <2>1. w.pc = "associate" /\ UNCHANGED <<dirs, profile, shown, faults, mainVars>>
    BY <1>3 DEF Connects, ConnmanRejects, OutcomeUncertain, At
  <2>2. PICK d \in Dispositions, s \in Shown :
          ConnmanResult(d, s) /\ (s = "CONNECTED" => d = "CONNECTED")
    BY <1>3 DEF Connects, ConnmanRejects, OutcomeUncertain, Dispositions, Shown
  <2>3. /\ w' \in Works /\ w'.pc = "publish" /\ w'.op = w.op /\ w'.value = w.value
        /\ w'.undoing = w.undoing /\ w'.complete = w.complete /\ w'.previous = w.previous
        /\ w'.disposition = d /\ w'.state = s
    BY <1>0, <2>2, WorkTyped DEF ConnmanResult, Works, PCs
  <2>4. profile = Applied
    BY <1>0, <2>1 DEF AppliedInv, At
  <2> QED
    BY <2>1, <2>2, <2>3, <2>4, ApplyGoesOn
<1> QED
  BY <1>1, <1>2, <1>3

\* Success or PROVISIONING_RACE: the record of an operation that is complete.
LEMMA CompletedTyped ==
  ASSUME TypeOK, NEW change \in Changes, Completed(change)
  PROVE  /\ w' \in Works /\ w'.pc = "done" /\ w'.op = w.op /\ w'.value = w.value
         /\ w'.undoing = w.undoing /\ w'.change = change /\ w'.previous = w.previous
         /\ w'.complete = TRUE
BY WorkTyped DEF Completed, Works, PCs

\* The same for a result without success.
LEMMA ResultTyped ==
  ASSUME TypeOK, NEW ok \in BOOLEAN, NEW change \in Changes, Result(ok, change)
  PROVE  /\ w' \in Works /\ w'.pc = "done" /\ w'.op = w.op /\ w'.value = w.value
         /\ w'.undoing = w.undoing /\ w'.change = change /\ w'.previous = w.previous
         /\ w'.complete = w.complete
BY WorkTyped DEF Result, Works, PCs

\* What apply_wifi and reconcile_canonical make of ConnMan's answer.
LEMMA PublishKeeps ==
  ASSUME WifiInv, Publish
  PROVE  WifiInv'
<1>0. TypeOK /\ profile \in Names /\ AppliedInv /\ w.undoing \in BOOLEAN /\ w.state \in Shown
  BY WorkTyped DEF WifiInv, TypeOK, Names
<1>1. /\ w.pc = "publish" /\ UNCHANGED <<dirs, profile, faults, mainVars>>
      /\ UNCHANGED daemon /\ shown' = w.state
  BY DEF Publish, At, mainVars
<1>2. /\ w.op \in {"SET_WIFI", "reconcile"}
      /\ Here.wifi = Applied /\ Applied # Nothing /\ Applied \in Names
      /\ w.op = "SET_WIFI" => shown # "CONNECTED" /\ Synced /\ w.value \in Networks
      /\ w.op = "reconcile" => ~w.undoing /\ w.value = Applied /\ w.value \in Networks
  BY <1>1, ApplyStage
<1>3. /\ w.disposition = "CONNECTED" => profile = Applied
      /\ w.state = "CONNECTED" => w.disposition = "CONNECTED"
  BY <1>0, <1>1 DEF AppliedInv, At
<1>4. ShownInv'
  <2>1. Here' = Here
    BY <1>1 DEF Here
  <2> QED
    BY <1>1, <1>2, <1>3, <2>1 DEF ShownInv
<1>5. daemon # "down" /\ ~w.complete
  BY <1>1, WorkerRuns
<1>6. CASE w.op = "reconcile"
  <2>1. PICK ok \in BOOLEAN : Result(ok, "NONE")
    <3>1. Result(w.disposition = "CONNECTED", "NONE")
      BY <1>2, <1>6 DEF Publish, Result
    <3>2. (w.disposition = "CONNECTED") \in BOOLEAN
      OBVIOUS
    <3> QED
      BY <3>1, <3>2, Zenon
  <2> QED
    BY <1>0, <1>1, <1>4, <2>1, EndsPlainly DEF Changes
<1>7. CASE w.op = "SET_WIFI"
  <2>1. \A k \in DOMAIN dirs : dirs[k].wifi = Applied
    BY <1>0, <1>2, <1>7, SyncedIsHere
  <2>2. CASE w.undoing
    <3>1. PICK c \in Changes : /\ Result(FALSE, c)
                               /\ c \in {"ROLLED_BACK", "UNCERTAIN"}
                               /\ c = "ROLLED_BACK" => w.disposition = "CONNECTED"
      BY <1>7, <2>2 DEF Publish, Changes
    <3>2. /\ w' \in Works /\ w'.pc = "done" /\ w'.op = w.op /\ w'.value = w.value
          /\ w'.undoing = w.undoing /\ w'.change = c /\ w'.previous = w.previous
          /\ w'.complete = w.complete
      BY <1>0, <3>1, ResultTyped
    <3>3. Applied = w.previous
      BY <2>2 DEF Applied
    <3>4. CommittedIsDurable'
      BY <1>1, <1>3, <1>7, <2>1, <3>1, <3>2, <3>3 DEF CommittedIsDurable
    <3> QED
      BY <1>0, <1>1, <1>4, <1>5, <3>2, <3>4, WorkerEnds
  <2>3. CASE ~w.undoing
    <3>0. Applied = w.value
      BY <2>3 DEF Applied
    <3>1. CASE w.disposition = "CONNECTED"
      <4>1. Completed("COMMITTED")
        BY <1>7, <2>3, <3>1 DEF Publish
      <4>2. /\ w' \in Works /\ w'.pc = "done" /\ w'.op = w.op /\ w'.value = w.value
            /\ w'.undoing = w.undoing /\ w'.change = "COMMITTED"
        BY <1>0, <4>1, CompletedTyped DEF Changes
      <4>3. CommittedIsDurable'
        BY <1>1, <1>7, <2>1, <3>0, <4>2 DEF CommittedIsDurable
      <4> QED
        BY <1>0, <1>1, <1>4, <1>5, <4>2, <4>3, WorkerEnds
    <3>2. CASE w.disposition = "ROLLBACK_ALLOWED"
      <4>1. GoTo("restore")
        BY <1>7, <2>3, <3>2 DEF Publish
      <4>2. /\ w' \in Works /\ w'.pc = "restore" /\ w'.op = w.op /\ w'.value = w.value
            /\ w'.undoing = w.undoing /\ w'.complete = w.complete
        BY <1>0, <4>1, WorkTyped DEF GoTo, Works, PCs
      <4>3. TypeOK' /\ WorkerInv' /\ CommittedIsDurable' /\ NoLostRetry'
        BY <1>0, <1>1, <1>7, <4>2, StoreStays DEF Steps
      <4>4. SetWifiInv' /\ EndpointInv' /\ FollowInv' /\ AppliedInv'
        BY <1>1, <1>2, <1>3, <1>7, <2>3, <3>2, <4>2
        DEF SetWifiInv, EndpointInv, FollowInv, AppliedInv, At
      <4> QED
        BY <1>4, <4>3, <4>4 DEF WifiInv
    <3>3. CASE w.disposition = "RETAIN_CANONICAL"
      <4>1. Result(FALSE, "COMMITTED")
        BY <1>7, <2>3, <3>3 DEF Publish
      <4>2. /\ w' \in Works /\ w'.pc = "done" /\ w'.op = w.op /\ w'.value = w.value
            /\ w'.undoing = w.undoing /\ w'.change = "COMMITTED"
        BY <1>0, <4>1, ResultTyped DEF Changes
      <4>3. CommittedIsDurable'
        BY <1>1, <1>7, <2>1, <3>0, <4>2 DEF CommittedIsDurable
      <4> QED
        BY <1>0, <1>1, <1>4, <1>5, <4>2, <4>3, WorkerEnds
    <3> QED
      BY <1>0, <3>1, <3>2, <3>3, WorkTyped DEF Dispositions
  <2> QED
    BY <1>0, <2>2, <2>3
<1> QED
  BY <1>2, <1>6, <1>7

\* The rollback turns to ConnMan once the store has the previous network.
LEMMA RestoredKeeps ==
  ASSUME WifiInv, Restored
  PROVE  WifiInv'
<1>0. TypeOK /\ profile \in Names /\ shown \in Shown /\ SetWifiInv /\ w.previous \in Names
  BY WorkTyped DEF WifiInv, TypeOK, Names
<1>1. /\ w.pc = "restored" /\ UNCHANGED <<dirs, profile, shown, mainVars>>
      /\ UNCHANGED daemon
  BY DEF Restored, At, mainVars
<1>2. w.op = "SET_WIFI"
  BY <1>1, WorkerRuns DEF Steps, Ops
<1>3. w.value \in Networks /\ shown # "CONNECTED" /\ Synced /\ Here.wifi = w.previous
  BY <1>0, <1>1, <1>2 DEF SetWifiInv, At
<1>4. ShownInv'
  BY <1>1, ShownStays
<1>5. CASE /\ w' = [w EXCEPT !.undoing = TRUE,
                             !.pc = IF w.previous = Nothing THEN "remove" ELSE "profile"]
           /\ UNCHANGED faults
  <2>1. /\ w' \in Works /\ w'.op = w.op /\ w'.value = w.value /\ w'.undoing = TRUE
        /\ w'.complete = w.complete /\ w'.previous = w.previous
        /\ w'.pc = IF w.previous = Nothing THEN "remove" ELSE "profile"
    BY <1>0, <1>5, WorkTyped DEF Works, PCs
  <2>2. Applied' = w.previous
    BY <2>1 DEF Applied
  <2>3. /\ TypeOK' /\ WorkerInv' /\ CommittedIsDurable' /\ NoLostRetry'
        /\ Here' = Here /\ (Synced' <=> Synced)
    BY <1>0, <1>1, <1>2, <1>5, <2>1, StoreStays DEF Steps
  <2>4. SetWifiInv'
    BY <1>1, <1>2, <1>3, <2>1, <2>2, <2>3 DEF SetWifiInv, At
  <2>5. EndpointInv' /\ FollowInv' /\ AppliedInv'
    BY <1>2, <2>1 DEF EndpointInv, FollowInv, AppliedInv, At
  <2> QED
    BY <1>4, <2>3, <2>4, <2>5 DEF WifiInv
<1>6. CASE Fault /\ Result(FALSE, "UNCERTAIN")
  BY <1>0, <1>1, <1>4, <1>6, EndsPlainly DEF Changes
<1> QED
  BY <1>5, <1>6 DEF Restored

\* egp_store_forget_begin: the network becomes a tombstone in one rename.
LEMMA ForgetBeginKeeps ==
  ASSUME WifiInv, ForgetBegin
  PROVE  WifiInv'
<1>0. /\ TypeOK /\ profile \in Names /\ shown \in Shown /\ FollowInv /\ Here \in Files
      /\ Here.wifi \in Names /\ Here.forget \in Names /\ Nothing \in Names
  BY HereTyped DEF WifiInv, TypeOK, Names
<1>1. /\ w.pc = "begin" /\ UNCHANGED <<profile, shown, faults, mainVars>>
      /\ UNCHANGED daemon
  BY DEF ForgetBegin, At, mainVars
<1>2. w.op = "FORGET_WIFI"
  BY <1>1, WorkerRuns DEF Steps, Ops
<1>3. ~w.undoing /\ w.value = Nothing
  BY <1>0, <1>1, <1>2 DEF FollowInv
<1>4. CASE Here.forget # Nothing /\ Here.wifi # Nothing
  <2>1. Result(FALSE, "NONE") /\ UNCHANGED dirs
    BY <1>4 DEF ForgetBegin
  <2> QED
    BY <1>0, <1>1, <2>1, ShownStays, EndsPlainly DEF Changes
<1>5. CASE Here.wifi = Nothing
  <2>1. PICK to \in {"revoke", "remove"}, v \in Names, r \in BOOLEAN :
          /\ w' = [w EXCEPT !.pc = to, !.value = v, !.raced = r]
          /\ to = "remove" => v = Nothing
    <3>0. agent.durable \in BOOLEAN
      BY <1>0 DEF TypeOK
    <3>1. CASE Here.forget # Nothing
      <4>1. PICK r \in {agent.durable, TRUE} :
              w' = [[w EXCEPT !.pc = "revoke", !.value = Here.forget] EXCEPT !.raced = r]
        BY <1>5, <3>1 DEF ForgetBegin, Races
      <4>2. w' = [w EXCEPT !.pc = "revoke", !.value = Here.forget, !.raced = r]
        BY <1>0, <4>1, WorkTyped DEF Works
      <4> QED
        BY <1>0, <3>0, <4>2
    <3>2. CASE Here.forget = Nothing
      <4>1. PICK r \in {agent.durable, TRUE} : w' = [[w EXCEPT !.pc = "remove"] EXCEPT !.raced = r]
        BY <1>5, <3>2 DEF ForgetBegin, Races
      <4>2. w' = [w EXCEPT !.pc = "remove", !.value = Nothing, !.raced = r]
        BY <1>0, <1>3, <4>1, WorkTyped DEF Works
      <4> QED
        BY <1>0, <3>0, <4>2
    <3> QED
      BY <3>1, <3>2
  <2>2. UNCHANGED dirs
    BY <1>5 DEF ForgetBegin
  <2>3. /\ w' \in Works /\ w'.pc = to /\ w'.op = w.op /\ w'.value = v
        /\ w'.undoing = w.undoing /\ w'.complete = w.complete
    BY <1>0, <2>1, WorkTyped DEF Works, PCs, Names
  <2>4. /\ TypeOK' /\ WorkerInv' /\ CommittedIsDurable' /\ NoLostRetry'
        /\ Here' = Here
    BY <1>0, <1>1, <1>2, <2>2, <2>3, StoreStays DEF Steps
  <2>5. SetWifiInv' /\ EndpointInv' /\ FollowInv' /\ AppliedInv'
    BY <1>2, <1>3, <1>5, <2>1, <2>3, <2>4 DEF SetWifiInv, EndpointInv, FollowInv, AppliedInv, At
  <2>6. ShownInv'
    BY <1>1, <2>2, ShownStays
  <2> QED
    BY <2>4, <2>5, <2>6 DEF WifiInv
<1>6. CASE Here.forget = Nothing /\ Here.wifi # Nothing
  <2> PICK f : f = [Here EXCEPT !.wifi = Nothing, !.forget = Here.wifi]
    OBVIOUS
  <2>1. f \in Files /\ f.wifi = Nothing
    BY <1>0 DEF Files, Names
  <2>2. /\ dirs' = Append(dirs, f)
        /\ w' = [w EXCEPT !.pc = "sync", !.after = "revoke", !.value = Here.wifi]
    BY <1>6 DEF ForgetBegin
  <2>3. /\ w' \in Works /\ w'.pc = "sync" /\ w'.op = w.op /\ w'.after = "revoke"
        /\ w'.undoing = w.undoing /\ w'.complete = w.complete
    BY <1>0, <2>2, WorkTyped DEF Works, PCs, Names
  <2>4. TypeOK' /\ WorkerInv' /\ CommittedIsDurable' /\ NoLostRetry' /\ Here' = f
    BY <1>1, <1>2, <2>1, <2>2, <2>3, StoreChanges DEF Steps
  <2>5. SetWifiInv' /\ EndpointInv' /\ FollowInv' /\ AppliedInv' /\ ShownInv'
    BY <1>2, <1>3, <2>1, <2>3, <2>4
    DEF SetWifiInv, EndpointInv, FollowInv, AppliedInv, ShownInv, At
  <2> QED
    BY <2>4, <2>5 DEF WifiInv
<1> QED
  BY <1>4, <1>5, <1>6

\* A call of a forget or a reconciliation that leaves the store as it is.
LEMMA FollowGoesOn ==
  ASSUME WifiInv, w.op \in {"FORGET_WIFI", "reconcile"}, w.pc \notin {"idle", "done"},
         UNCHANGED <<dirs, shown, mainVars>>, Fault \/ UNCHANGED faults, profile' \in Names,
         w' \in Works, w'.op = w.op, w'.undoing = w.undoing, w'.complete = w.complete,
         w'.pc \in Steps(w.op), w'.pc \in {"profile", "remove", "revoke", "confirm", "finish"},
         w.op = "FORGET_WIFI" => w'.pc \notin {"profile", "remove"},
         w'.pc = "profile" => profile' = profile /\ w'.value = Here.wifi /\ w'.value \in Networks,
         w'.pc # "profile" => Here.wifi = Nothing,
         w'.pc \in {"confirm", "finish"} => profile' = Nothing
  PROVE  WifiInv'
<1>0. TypeOK /\ FollowInv /\ ShownInv /\ shown \in Shown
  BY DEF WifiInv, TypeOK
<1>1. /\ TypeOK' /\ WorkerInv' /\ CommittedIsDurable' /\ NoLostRetry'
      /\ Here' = Here /\ UNCHANGED daemon
  BY <1>0, StoreStays
<1>2. ~w.undoing
  BY <1>0 DEF FollowInv
<1>3. SetWifiInv' /\ EndpointInv' /\ AppliedInv'
  BY DEF SetWifiInv, EndpointInv, AppliedInv, At
<1>4. FollowInv'
  BY <1>1, <1>2 DEF FollowInv, At
<1>5. ShownInv'
  BY <1>0, <1>1 DEF ShownInv
<1> QED
  BY <1>1, <1>3, <1>4, <1>5 DEF WifiInv

\* reconcile_canonical: the store says what to do with the profile.
LEMMA ReconcileKeeps ==
  ASSUME WifiInv, Reconcile
  PROVE  WifiInv'
<1>0. /\ TypeOK /\ profile \in Names /\ shown \in Shown
      /\ Here.wifi \in Names /\ Here.forget \in Names
  BY HereTyped DEF WifiInv, TypeOK, Names
<1>1. /\ w.pc = "pending" /\ UNCHANGED <<dirs, profile, shown, faults, mainVars>>
      /\ UNCHANGED daemon
  BY DEF Reconcile, At, mainVars
<1>2. w.op = "reconcile"
  BY <1>1, WorkerRuns DEF Steps, Ops
<1>3. CASE Here.forget # Nothing /\ Here.wifi # Nothing
  <2>1. Result(FALSE, "NONE")
    BY <1>3 DEF Reconcile
  <2> QED
    BY <1>0, <1>1, <2>1, ShownStays, EndsPlainly DEF Changes
<1>4. CASE Here.wifi = Nothing
  <2>1. \/ w' = [w EXCEPT !.pc = "revoke", !.value = Here.forget]
        \/ w' = [w EXCEPT !.pc = "remove"]
    BY <1>4 DEF Reconcile, GoTo
  <2>2. /\ w' \in Works /\ w'.pc \in {"revoke", "remove"} /\ w'.op = w.op
        /\ w'.undoing = w.undoing /\ w'.complete = w.complete
    BY <1>0, <2>1, WorkTyped DEF Works, PCs, Names
  <2> QED
    BY <1>0, <1>1, <1>2, <1>4, <2>2, FollowGoesOn DEF Steps
<1>5. CASE Here.forget = Nothing /\ Here.wifi # Nothing
  <2>1. w' = [w EXCEPT !.pc = "profile", !.value = Here.wifi]
    BY <1>5 DEF Reconcile
  <2>2. /\ w' \in Works /\ w'.pc = "profile" /\ w'.op = w.op /\ w'.value = Here.wifi
        /\ w'.undoing = w.undoing /\ w'.complete = w.complete
    BY <1>0, <2>1, WorkTyped DEF Works, PCs, Names
  <2> QED
    BY <1>0, <1>1, <1>2, <1>5, <2>2, FollowGoesOn DEF Steps, Names
<1> QED
  BY <1>3, <1>4, <1>5

\* egp_connman_revoke: the profile goes, and ConnMan may be asked to confirm it.
LEMMA RevokeKeeps ==
  ASSUME WifiInv, Revoke \/ RevokeConfirmed
  PROVE  WifiInv'
<1>0. TypeOK /\ profile \in Names /\ Nothing \in Names /\ FollowInv
  BY DEF WifiInv, TypeOK, Names
<1>1. w.pc \in {"revoke", "confirm"} /\ UNCHANGED <<dirs, shown, faults, mainVars>>
  BY DEF Revoke, RevokeConfirmed, At
<1>2. /\ w.op \in {"FORGET_WIFI", "reconcile"} /\ Here.wifi = Nothing
      /\ {"confirm", "finish"} \subseteq Steps(w.op)
  BY <1>1, WorkerRuns, RemovalIsOfNothing DEF Steps, Ops
<1>3. profile' = Nothing
  <2>1. w.pc = "confirm" => profile = Nothing
    BY <1>0, <1>2 DEF FollowInv
  <2> QED
    BY <2>1 DEF Revoke, RevokeConfirmed, At
<1>4. PICK to \in {"confirm", "finish"} : GoTo(to)
  BY DEF Revoke, RevokeConfirmed
<1>5. /\ w' \in Works /\ w'.pc = to /\ w'.op = w.op
      /\ w'.undoing = w.undoing /\ w'.complete = w.complete
  BY <1>0, <1>4, WorkTyped DEF GoTo, Works, PCs
<1> QED
  BY <1>0, <1>1, <1>2, <1>3, <1>5, FollowGoesOn

\* egp_connman_remove_profile without a network to revoke.
LEMMA RemoveProfileKeeps ==
  ASSUME WifiInv, RemoveProfile
  PROVE  WifiInv'
<1>0. /\ TypeOK /\ Nothing \in Names /\ SetWifiInv /\ FollowInv /\ w.undoing \in BOOLEAN
      /\ "UNPROVISIONED" \in Shown
  BY WorkTyped DEF WifiInv, Names, Shown
<1>1. /\ w.pc = "remove" /\ UNCHANGED <<dirs, faults, mainVars>>
      /\ UNCHANGED daemon /\ profile' = Nothing /\ shown' = "UNPROVISIONED"
  BY DEF RemoveProfile, At, mainVars
<1>2. w.op \in {"SET_WIFI", "FORGET_WIFI", "reconcile"} /\ daemon # "down"
  BY <1>1, WorkerRuns DEF Steps, Ops
<1>3. ShownInv'
  BY <1>1 DEF ShownInv
<1>4. CASE w.op = "reconcile"
  <2>1. Result(TRUE, "NONE")
    <3>1. ~w.undoing
      BY <1>0, <1>4 DEF FollowInv
    <3> QED
      BY <1>4, <3>1 DEF RemoveProfile
  <2> QED
    BY <1>0, <1>1, <1>3, <1>4, <2>1, EndsPlainly DEF Changes
<1>5. CASE w.op = "SET_WIFI"
  <2>1. w.undoing /\ Synced /\ Here.wifi = Nothing /\ w.previous = Nothing
    BY <1>0, <1>1, <1>5 DEF SetWifiInv, At
  <2>2. Result(FALSE, "ROLLED_BACK")
    BY <1>5, <2>1 DEF RemoveProfile
  <2>3. /\ w' \in Works /\ w'.pc = "done" /\ w'.op = w.op /\ w'.value = w.value
        /\ w'.undoing = w.undoing /\ w'.change = "ROLLED_BACK" /\ w'.previous = w.previous
    BY <1>0, <2>2, ResultTyped DEF Changes
  <2>4. \A k \in DOMAIN dirs : dirs[k].wifi = Nothing
    BY <1>0, <2>1, SyncedIsHere
  <2>5. CommittedIsDurable'
    BY <1>1, <1>5, <2>1, <2>3, <2>4 DEF CommittedIsDurable
  <2> QED
    BY <1>0, <1>1, <1>2, <1>3, <2>3, <2>5, WorkerEnds
<1>6. CASE w.op = "FORGET_WIFI"
  <2>1. ~w.undoing /\ w.value = Nothing
    BY <1>0, <1>1, <1>6 DEF FollowInv
  <2>2. Completed("COMMITTED")
    BY <1>6, <2>1 DEF RemoveProfile
  <2>3. /\ w' \in Works /\ w'.pc = "done" /\ w'.op = w.op /\ w'.value = w.value
        /\ w'.undoing = w.undoing /\ w'.change = "COMMITTED"
    BY <1>0, <2>2, CompletedTyped DEF Changes
  <2>4. CommittedIsDurable'
    BY <1>6, <2>1, <2>3 DEF CommittedIsDurable
  <2> QED
    BY <1>0, <1>1, <1>2, <1>3, <2>3, <2>4, WorkerEnds
<1> QED
  BY <1>2, <1>4, <1>5, <1>6

\* The endpoint is safe, or the tombstone is gone.
LEMMA FinishedKeeps ==
  ASSUME WifiInv, Finished
  PROVE  WifiInv'
<1>0. /\ TypeOK /\ profile \in Names /\ EndpointInv /\ FollowInv
      /\ shown \in Shown /\ "UNPROVISIONED" \in Shown
  BY DEF WifiInv, TypeOK, Names, Shown
<1>1. /\ w.pc = "finished" /\ UNCHANGED <<dirs, profile, faults, mainVars>>
      /\ UNCHANGED daemon /\ shown' \in {shown, "UNPROVISIONED"}
  BY DEF Finished, At, mainVars
<1>2. w.op \in {"SET_ENDPOINT", "FORGET_WIFI", "reconcile"} /\ daemon # "down"
  BY <1>1, WorkerRuns DEF Steps, Ops
<1>3. ShownInv' /\ shown' \in Shown
  BY <1>0, <1>1, ShownStays
<1>4. CASE w.op = "reconcile"
  <2>1. Result(TRUE, "COMMITTED")
    BY <1>4 DEF Finished
  <2> QED
    BY <1>0, <1>1, <1>3, <1>4, <2>1, EndsPlainly DEF Changes
<1>5. CASE w.op \in {"SET_ENDPOINT", "FORGET_WIFI"}
  <2>1. Completed("COMMITTED")
    BY <1>5 DEF Finished
  <2>2. /\ w' \in Works /\ w'.pc = "done" /\ w'.op = w.op /\ w'.value = w.value
        /\ w'.undoing = w.undoing /\ w'.change = "COMMITTED"
    BY <1>0, <2>1, CompletedTyped DEF Changes
  <2>3. /\ Synced
        /\ w.op = "SET_ENDPOINT" => Here.runtime = w.value
        /\ w.op = "FORGET_WIFI" => Here.wifi = Nothing /\ Here.forget = Nothing /\ profile = Nothing
    BY <1>0, <1>1, <1>5 DEF EndpointInv, FollowInv, At
  <2>4. \A k \in DOMAIN dirs : dirs[k] = Here
    BY <1>0, <2>3, SyncedIsHere
  <2>5. CommittedIsDurable'
    BY <1>1, <1>5, <2>2, <2>3, <2>4 DEF CommittedIsDurable
  <2> QED
    BY <1>0, <1>1, <1>2, <1>3, <2>2, <2>5, WorkerEnds
<1> QED
  BY <1>2, <1>4, <1>5

\* Every step keeps the invariant.
LEMMA NextKeeps ==
  ASSUME WifiInv, [Next]_vars
  PROVE  WifiInv'
<1>1. CASE MainLoop
  <2>1. CASE \E n \in Networks : Submit("SET_WIFI", n)
    BY <2>1, SubmitKeeps DEF Ops
  <2>2. CASE \E e \in Endpoints : Submit("SET_ENDPOINT", e)
    BY <2>2, SubmitKeeps DEF Ops
  <2>3. CASE Submit("FORGET_WIFI", Nothing) \/ Submit("CHECK_UPDATE_NOW", Nothing)
    BY <2>3, SubmitKeeps DEF Ops
  <2> QED
    BY <1>1, <2>1, <2>2, <2>3, ConnmanKeeps, RetryKeeps, WorkerDoneKeeps, DaemonKeeps,
       PowerLossKeeps DEF MainLoop
<1>2. CASE Worker
  BY <1>2, RefusalsKeep, RemovalFailsKeeps, GateKeeps, ReplaceWifiKeeps, ReplaceRuntimeKeeps,
     RestoreWifiKeeps, ForgetFinishKeeps, SyncStoreKeeps, ApplyKeeps, PublishKeeps, RestoredKeeps,
     ForgetBeginKeeps, ReconcileKeeps, RevokeKeeps, RemoveProfileKeeps, FinishedKeeps DEF Worker
<1>3. CASE Agent
  BY <1>3, AgentKeeps
<1>4. CASE UNCHANGED vars
  <2>1. TypeOK /\ NoLostRetry
    BY DEF WifiInv
  <2>2. TypeOK' /\ NoLostRetry'
    BY <1>4, <2>1 DEF vars, agentVars, TypeOK, NoLostRetry, At
  <2> QED
    BY <1>4, <2>2, OutsideKeeps DEF vars
<1> QED
  BY <1>1, <1>2, <1>3, <1>4 DEF Next
-----------------------------------------------------------------------------
(* The theorems.                                                           *)

\* WifiInv holds in every reachable state: whatever the worker, the main loop,
\* the agent, a kill or a power loss do, each call of an operation finds the
\* store, the profile and the status as it relies on them.
THEOREM WifiInvariant == Spec => []WifiInv
<1>1. WifiInv /\ [Next]_vars => WifiInv'
  BY NextKeeps
<1> QED
  BY InitWifi, <1>1, PTL DEF Spec

\* The result of an operation (completed in operations.c) claims only what a
\* power loss cannot take back.
THEOREM ResultsAreDurable == Spec => []CommittedIsDurable
<1>1. WifiInv => CommittedIsDurable
  BY DEF WifiInv
<1> QED
  BY <1>1, WifiInvariant, PTL

\* The status says CONNECTED only about the canonical network (status.c).
THEOREM ConnectedStatusIsTrue == Spec => []ConnectedIsCanonical
<1>1. WifiInv => ConnectedIsCanonical
  BY DEF WifiInv, ShownInv, ConnectedIsCanonical
<1> QED
  BY <1>1, WifiInvariant, PTL

\* schedule_connman_reconcile and completed lose no retry (main.c).
THEOREM RetryIsNeverLost == Spec => []NoLostRetry
<1>1. WifiInv => NoLostRetry
  BY DEF WifiInv
<1> QED
  BY <1>1, WifiInvariant, PTL

\* A running daemon writes into ConnMan's profile only the network that the
\* store has as canonical (connman.c, after store.c).
THEOREM ProfileFollowsStore == Spec => CanonicalFirst
<1>1. WifiInv /\ [Next]_vars =>
        [daemon = "up" /\ profile' # profile /\ profile' # Nothing /\ daemon' = "up"
           => profile' = Here.wifi]_vars
  <2> SUFFICES ASSUME WifiInv, Next, daemon' = "up", profile' # profile, profile' # Nothing
               PROVE  profile' = Here.wifi
    OBVIOUS
  <2>1. WriteProfile \/ WriteProfileFails
    BY DEF Next, MainLoop, Worker, Agent, Submit, ConnmanAppears, ConnmanVanishes, RetryFires,
       WorkerDone, StopDaemon, DaemonEnds, StartDaemon, Kill, PowerLoss, GateRefuses, GatePasses,
       CheckUpdate, ReplaceWifi, ReplaceRuntime, SyncStore, SyncFails, StoreFails, Connects,
       ConnmanRejects, OutcomeUncertain, Publish, RestoreWifi, Restored, ForgetBegin, Reconcile,
       Revoke, RevokeConfirmed, RevokeUncertain, RevokeFails, RemoveProfile, RemoveProfileFails,
       ForgetFinish, Finished, CycleBegins, CycleRecorded, CycleEnds, AgentDies, AgentStarts
  <2>2. w.pc = "profile" /\ profile' = Applied
    BY <2>1 DEF WriteProfile, WriteProfileFails, At
  <2> QED
    BY <2>2, ApplyStage
<1> QED
  BY <1>1, WifiInvariant, PTL DEF Spec, CanonicalFirst
=============================================================================
