---------------------------- MODULE ProvSession ----------------------------
(***************************************************************************)
(* A provisioning session over BLE: the physical-presence key (input.c)    *)
(* opens a window (security.c); the first peer whose write is let in owns  *)
(* it; its frames become requests (protocol.c), one of which the worker    *)
(* runs at a time (main.c, operations.c); the owner polls the result with  *)
(* reads that may take several calls (bluez.c, gatt_read.c).               *)
(*                                                                         *)
(* Callbacks of the main loop are atomic; the worker's gate and end are    *)
(* steps of another thread.  BlueZ is external: a peer's link changes at   *)
(* once for whoever asks BlueZ (GetAll), while the main loop hears of it   *)
(* later, in order (signals).  So a write that was sent before the link    *)
(* went may be handled while BlueZ says the peer is gone.                  *)
(*                                                                         *)
(* A body is a sequence of parts, one per frame; START is the first, END   *)
(* the last, and the total stands for opcode and length.  Clocks are       *)
(* choices: the window's deadline, a transaction's timeouts and the age of *)
(* a snapshot may pass at any time.  The ten minutes a completed           *)
(* transaction is kept are longer than any window.  Epochs are 64 bits     *)
(* wide and do not wrap here.                                              *)
(***************************************************************************)
EXTENDS Naturals, Sequences, FiniteSets

CONSTANTS Peers,          \* BlueZ device paths
          Frames,         \* frames a peer may send: [char, id, total, part, byte]
          None,
          OneShot,        \* --one-shot
          MaxIncomplete,  \* EGP_PROTOCOL_MAX_INCOMPLETE
          CacheLimit,     \* COMPLETED_CACHE_LIMIT
          MaxWindows,     \* bound: window epochs
          MaxPeerEpochs   \* bound: epochs handed to peers

Chars == {f.char : f \in Frames}
Ids == {f.id : f \in Frames}
Bytes == {f.byte : f \in Frames}
Totals == {f.total : f \in Frames}
Keys == Peers \X Chars
Transactions == Keys \X Ids

VARIABLES
  input,      \* EgpInput has its device
  win,        \* EgpSecurity: open, epoch, owner
  present,    \* org.bluez has an owner
  link,       \* Device1.Connected, as BlueZ answers it
  bonded,     \* Device1.Paired and Bonded
  signals,    \* PropertiesChanged the main loop has not seen, per peer
  peerEpoch,  \* peer_epochs; 0 when the table has no entry
  nextEpoch,  \* next_peer_epoch
  frag,       \* incomplete transactions
  expired,    \* transactions whose fragments timed out
  cache,      \* completed transactions, oldest first
  active,     \* active_request when active_valid, else None
  work,       \* the worker's operation, None when it is not busy
  result,     \* last_result and result_peer
  snap,       \* the read snapshot, when it is of OperationResult
  closing,    \* close_one_shot is queued
  ran         \* history: transactions that ran and that a retry must not repeat

protocolVars == <<frag, expired, cache>>
bluezVars == <<present, link, bonded, signals, peerEpoch, nextEpoch>>
vars == <<input, win, bluezVars, protocolVars, active, work, result, snap,
          closing, ran>>

Bodies == UNION {[1..n -> Bytes] : n \in Totals}
Buffers == UNION {[id : Ids, total : {n},
                   data : UNION {[S -> Bytes] : S \in SUBSET (1..n)}] : n \in Totals}

\* What a result says: whose transaction, in which window, and how it stands.
Results == [tx : Transactions, window : 0..MaxWindows,
            status : {"ACCEPTED", "SUCCEEDED", "FAILED"}]

\* The worker's operation and its progress through the commit gate; cut is
\* history: the gate has something to refuse it for.
Works == [tx : Transactions, wepoch : 0..MaxWindows, cepoch : 1..MaxPeerEpochs,
          cut : BOOLEAN, stage : {"gate", "asked", "passed", "done"}, ok : BOOLEAN]
Snapshots == [peer : Peers, epoch : 1..MaxPeerEpochs, value : Results]

ASSUME ProvSessionAssumption ==
  /\ \A f \in Frames : f.total \in Nat /\ f.part \in 1..f.total
  /\ OneShot \in BOOLEAN
  /\ None \notin Peers /\ None \notin Transactions /\ None \notin Buffers
  /\ None \notin Results /\ None \notin Works /\ None \notin Snapshots
  /\ MaxIncomplete \in Nat \ {0} /\ CacheLimit \in Nat \ {0}
  /\ MaxWindows \in Nat \ {0} /\ MaxPeerEpochs \in Nat \ {0}

TypeOK ==
  /\ input \in BOOLEAN
  /\ win \in [open : BOOLEAN, epoch : 0..MaxWindows,
              owner : Peers \cup {None}]
  /\ present \in BOOLEAN
  /\ link \in [Peers -> BOOLEAN] /\ bonded \in [Peers -> BOOLEAN]
  /\ signals \in [Peers -> Seq({"up", "down", "bond"})]
  /\ peerEpoch \in [Peers -> 0..MaxPeerEpochs] /\ nextEpoch \in 0..MaxPeerEpochs
  /\ frag \in [Keys -> Buffers \cup {None}]
  /\ expired \subseteq Transactions
  /\ cache \in Seq([tx : Transactions, body : Bodies, result : Results])
  /\ Len(cache) <= CacheLimit
  /\ active \in Transactions \cup {None}
  /\ work \in Works \cup {None}
  /\ result \in Results \cup {None}
  /\ snap \in Snapshots \cup {None}
  /\ closing \in BOOLEAN
  /\ ran \subseteq Transactions

\* The daemon has started and BlueZ is there: name_appeared took the first epoch.
\* A peer may have been connected before.
Init ==
  /\ input = TRUE
  /\ win = [open |-> FALSE, epoch |-> 0, owner |-> None]
  /\ present = TRUE
  /\ link \in [Peers -> BOOLEAN] /\ bonded = [p \in Peers |-> TRUE]
  /\ signals = [p \in Peers |-> <<>>]
  /\ peerEpoch = [p \in Peers |-> 0] /\ nextEpoch = 1
  /\ frag = [k \in Keys |-> None] /\ expired = {} /\ cache = <<>>
  /\ active = None /\ work = None /\ result = None /\ snap = None
  /\ closing = FALSE
  /\ ran = {}
-----------------------------------------------------------------------------
(* Building blocks.                                                        *)

Busy == work # None
PeerOf(tx) == tx[1][1]

\* egp_protocol_drop_all.
DropAll ==
  /\ frag' = [k \in Keys |-> None] /\ expired' = {} /\ cache' = <<>>
  /\ ran' = {}

\* egp_protocol_drop_peer; completed transactions stay.
DropPeer(p) ==
  /\ frag' = [k \in Keys |-> IF k[1] = p THEN None ELSE frag[k]]
  /\ expired' = {tx \in expired : PeerOf(tx) # p}

\* The running operation has not passed these looks and may not any more.
Cut(S, looks) ==
  work' = IF Busy /\ work.stage \in looks /\ PeerOf(work.tx) \in S
          THEN [work EXCEPT !.cut = TRUE] ELSE work

\* Mutant: the active request stays bound.
ForgetSession_KeepsActive ==
  /\ DropAll
  /\ result' = None /\ snap' = None
  /\ UNCHANGED active
  /\ Cut(Peers, {"gate", "asked"})

\* Nothing of a session crosses a change of the authorization epoch.
ForgetSession ==
  /\ DropAll
  /\ active' = None /\ result' = None /\ snap' = None
  /\ Cut(Peers, {"gate", "asked"})

\* advance_epoch, with the new state of the window, and window_changed.
ChangeWindow(open) ==
  /\ win.epoch < MaxWindows
  /\ win' = [open |-> open, epoch |-> win.epoch + 1, owner |-> None]
  /\ ForgetSession

\* egp_security_close_window; nothing to do when there is no window.
CloseWindow ==
  IF win.open THEN ChangeWindow(FALSE)
  ELSE UNCHANGED <<win, protocolVars, active, work, result, snap, ran>>

\* The state of p's link as far as the main loop has heard: what BlueZ
\* delivers for p now was sent while this held.
SeenUp(p) ==
  LET told(i) == signals[p][i] # "bond"
  IN  \/ link[p] /\ \A i \in DOMAIN signals[p] : ~told(i)
      \/ \E i \in DOMAIN signals[p] :
           signals[p][i] = "down" /\ \A j \in 1..(i - 1) : ~told(j)

\* egp_security_allow_pairing.
Admits(p) == win.open /\ win.owner \in {None, p}

\* peer_currently_eligible, on the properties BlueZ answers.
Eligible(p) == bonded[p] /\ link[p]
-----------------------------------------------------------------------------
(* The key and the window.                                                 *)

\* input_ready, hold_elapsed: the key was held long enough without a release;
\* physical_presence opens a window, also when one is open already.
HoldElapsed ==
  /\ input
  /\ ChangeWindow(TRUE)
  /\ UNCHANGED <<input, bluezVars, closing>>

\* input_lost: the key never comes back.
InputLost ==
  /\ input /\ input' = FALSE
  /\ CloseWindow
  /\ UNCHANGED <<bluezVars, closing>>

\* expiry_tick finds the deadline passed.  In the 250 ms before, the checks of
\* the deadline refuse already what they could also let in.
ExpiryTick ==
  /\ win.open
  /\ ChangeWindow(FALSE)
  /\ UNCHANGED <<input, bluezVars, closing>>

\* close_one_shot: whatever window is open when the idle source runs.
CloseOneShot ==
  /\ closing /\ closing' = FALSE
  /\ CloseWindow
  /\ UNCHANGED <<input, bluezVars>>
-----------------------------------------------------------------------------
(* BlueZ and the peers.                                                    *)

\* The signals still to be heard; each takes an epoch.
Unheard == UNION {{p} \X DOMAIN signals[p] : p \in Peers}

\* External: a link comes or goes, a bond is made or removed.
LinkChanges(p) ==
  /\ present
  /\ nextEpoch + Cardinality(Unheard) < MaxPeerEpochs
  /\ link' = [link EXCEPT ![p] = ~link[p]]
  /\ signals' = [signals EXCEPT ![p] = Append(@, IF link[p] THEN "down" ELSE "up")]
  /\ UNCHANGED <<input, win, present, bonded, peerEpoch, nextEpoch, protocolVars,
                 active, work, result, snap, closing, ran>>

\* agent_call: a peer may pair while the window admits it; anyone may remove
\* a bond.
BondChanges(p) ==
  /\ present /\ link[p]
  /\ ~bonded[p] => Admits(p)
  /\ nextEpoch + Cardinality(Unheard) < MaxPeerEpochs
  /\ bonded' = [bonded EXCEPT ![p] = ~bonded[p]]
  /\ signals' = [signals EXCEPT ![p] = Append(@, "bond")]
  /\ UNCHANGED <<input, win, present, link, peerEpoch, nextEpoch, protocolVars,
                 active, work, result, snap, closing, ran>>

\* properties_changed: bump_peer_epoch, and peer_disconnected for a lost link.
PropertiesChanged(p) ==
  /\ signals[p] # <<>> /\ nextEpoch < MaxPeerEpochs
  /\ nextEpoch' = nextEpoch + 1
  /\ peerEpoch' = [peerEpoch EXCEPT ![p] = nextEpoch + 1]
  /\ snap' = IF snap # None /\ snap.peer = p THEN None ELSE snap
  /\ IF Head(signals[p]) = "down"
     THEN DropPeer(p)
     ELSE UNCHANGED <<frag, expired>>
  /\ Cut({p}, {"gate"})
  /\ signals' = [signals EXCEPT ![p] = Tail(@)]
  /\ UNCHANGED <<input, win, present, link, bonded, cache, active, result,
                 closing, ran>>

\* read_context at offset 0, egp_bluez_peer_security: a request, granted or not,
\* of a peer the table does not know gives it an epoch.
FirstRequest(p) ==
  /\ present /\ SeenUp(p) /\ peerEpoch[p] = 0
  /\ nextEpoch < MaxPeerEpochs /\ nextEpoch' = nextEpoch + 1
  /\ peerEpoch' = [peerEpoch EXCEPT ![p] = nextEpoch + 1]
  /\ UNCHANGED <<input, win, present, link, bonded, signals, protocolVars, active,
                 work, result, snap, closing, ran>>

\* name_appeared.
BluezAppears ==
  /\ ~present /\ present' = TRUE
  /\ nextEpoch < MaxPeerEpochs /\ nextEpoch' = nextEpoch + 1
  /\ peerEpoch' = [p \in Peers |-> 0]
  /\ snap' = None
  /\ UNCHANGED <<input, win, link, bonded, signals, protocolVars, active, work,
                 result, closing, ran>>

\* name_vanished and bluez_lost: a new epoch without an owner, but the window
\* stays open.
BluezVanishes ==
  /\ present /\ present' = FALSE
  /\ \A p \in Peers : signals[p] = <<>>
  /\ link' = [p \in Peers |-> FALSE]
  /\ nextEpoch < MaxPeerEpochs /\ nextEpoch' = nextEpoch + 1
  /\ peerEpoch' = [p \in Peers |-> 0]
  /\ win.epoch < MaxWindows
  /\ win' = [win EXCEPT !.epoch = @ + 1, !.owner = None]
  /\ ForgetSession
  /\ UNCHANGED <<input, bonded, signals, closing>>
-----------------------------------------------------------------------------
(* Frames: egp_protocol_accept.                                            *)

\* The frame begins a transaction or goes on with the one in the buffer.
Fits(k, f) ==
  /\ <<k, f.id>> \notin expired
  /\ IF frag[k] = None
     THEN /\ f.part = 1
          /\ Cardinality({j \in Keys : frag[j] # None}) < MaxIncomplete
     ELSE frag[k].id = f.id /\ frag[k].total = f.total

Received(k) == IF frag[k] = None THEN <<>> ELSE frag[k].data

\* Overlapping bytes that differ.
Conflicts(k, f) == f.part \in DOMAIN Received(k) /\ Received(k)[f.part] # f.byte

Merged(k, f) ==
  [i \in DOMAIN Received(k) \cup {f.part} |->
     IF i = f.part THEN f.byte ELSE Received(k)[i]]

\* Mutant: only transactions that succeeded are found.
Completed_Succeeded(tx) ==
  {i \in DOMAIN cache : cache[i].tx = tx /\ cache[i].result.status = "SUCCEEDED"}

\* complete_transaction looks the transaction up in the cache.
Completed(tx) == {i \in DOMAIN cache : cache[i].tx = tx}

Disposition(k, f) ==
  CASE ~Fits(k, f) -> "refused"
    [] Fits(k, f) /\ Conflicts(k, f) -> "dropped"
    [] Fits(k, f) /\ ~Conflicts(k, f) /\ f.part # f.total -> "incomplete"
    [] OTHER ->
         IF DOMAIN Merged(k, f) # 1..f.total THEN "dropped"
         ELSE IF Completed(<<k, f.id>>) = {} THEN "complete"
         ELSE IF \E i \in Completed(<<k, f.id>>) : cache[i].body = Merged(k, f)
              THEN "replay" ELSE "dropped"

\* Mutant: one more than the limit.
Pruned_OffByOne == IF Len(cache) > CacheLimit THEN Tail(cache) ELSE cache

\* prune_completed_limit: the oldest goes.
Pruned == IF Len(cache) >= CacheLimit THEN Tail(cache) ELSE cache
Evicted == IF Len(cache) >= CacheLimit THEN {Head(cache).tx} ELSE {}
-----------------------------------------------------------------------------
(* Writes: write_value.  Refusals that change nothing are left out.        *)

\* Up to the first look at the agent: the worker is free, BlueZ answers for a
\* bonded peer, which has its epoch by then, and the window admits it.
Handles(p) ==
  /\ present /\ SeenUp(p) /\ peerEpoch[p] # 0
  /\ ~Busy
  /\ bonded[p] /\ Admits(p)

\* The agent is not IDLE: the peer's fragments go.
WriteAgentBusy(p) ==
  /\ Handles(p)
  /\ DropPeer(p)
  /\ UNCHANGED <<input, win, bluezVars, cache, active, work, result, snap,
                 closing, ran>>

\* A conflict, a gap, a known id with other content, or bytes that are not
\* UTF-8: the buffer goes.
WriteDropped(p, f) ==
  LET k == <<p, f.char>> IN
  /\ Handles(p)
  /\ Disposition(k, f) \in {"dropped", "replay", "complete"}
  /\ frag' = [frag EXCEPT ![k] = None]
  /\ UNCHANGED <<input, win, bluezVars, expired, cache, active, work, result, snap,
                 closing, ran>>

\* The frame is taken, but egp_security_authorize_sensitive refuses: the peer
\* is gone, or the deadline has passed meanwhile.  Everything is dropped.
WriteUnauthorized(p, f) ==
  /\ Handles(p)
  /\ Disposition(<<p, f.char>>, f) \in {"incomplete", "replay", "complete"}
  /\ \/ ~link[p] /\ DropAll /\ UNCHANGED <<win, active, work, result, snap>>
     \/ link[p] /\ CloseWindow
  /\ UNCHANGED <<input, bluezVars, closing>>

\* The first frame that gets here claims the window.
Claim(p) == win' = [win EXCEPT !.owner = p]

WriteFragment(p, f) ==
  LET k == <<p, f.char>> IN
  /\ Handles(p) /\ link[p]
  /\ Disposition(k, f) = "incomplete"
  /\ frag' = [frag EXCEPT ![k] = [id |-> f.id, total |-> f.total, data |-> Merged(k, f)]]
  /\ Claim(p)
  /\ UNCHANGED <<input, bluezVars, expired, cache, active, work, result, snap,
                 closing, ran>>

\* Mutant: a read that has begun goes on.
InvalidateResult_Missing == UNCHANGED snap

\* egp_bluez_invalidate_read of the result.
InvalidateResult == snap' = None

\* A transaction that completed before: its result is shown again.
WriteReplay(p, f) ==
  LET k == <<p, f.char>> IN
  /\ Handles(p) /\ link[p]
  /\ Disposition(k, f) = "replay"
  /\ frag' = [frag EXCEPT ![k] = None]
  /\ Claim(p)
  /\ result' = cache[CHOOSE i \in Completed(<<k, f.id>>) : TRUE].result
  /\ InvalidateResult
  /\ UNCHANGED <<input, bluezVars, expired, cache, active, work,
                 closing, ran>>

\* A new request: remembered, bound and submitted; ACCEPTED is its first result.
WriteComplete(p, f) ==
  LET k == <<p, f.char>>
      tx == <<k, f.id>>
      accepted == [tx |-> tx, window |-> win.epoch, status |-> "ACCEPTED"]
  IN
  /\ Handles(p) /\ link[p]
  /\ Disposition(k, f) = "complete"
  /\ frag' = [frag EXCEPT ![k] = None]
  /\ cache' = Append(Pruned, [tx |-> tx, body |-> Merged(k, f), result |-> accepted])
  /\ Claim(p)
  /\ active' = tx
  /\ work' = [tx |-> tx, wepoch |-> win.epoch, cepoch |-> peerEpoch[p],
              cut |-> FALSE, stage |-> "gate", ok |-> FALSE]
  /\ result' = accepted
  /\ InvalidateResult
  /\ ran' = (ran \ Evicted) \cup {tx}
  /\ UNCHANGED <<input, bluezVars, expired, closing>>

\* egp_protocol_expire: fragments time out and leave a marker.
FragmentsExpire(k) ==
  /\ frag[k] # None
  /\ frag' = [frag EXCEPT ![k] = None]
  /\ expired' = expired \cup {<<k, frag[k].id>>}
  /\ UNCHANGED <<input, win, bluezVars, cache, active, work, result, snap,
                 closing, ran>>

\* The marker expires too, or makes room for another.
MarkerExpires(tx) ==
  /\ tx \in expired
  /\ expired' = expired \ {tx}
  /\ UNCHANGED <<input, win, bluezVars, frag, cache, active, work, result, snap,
                 closing, ran>>
-----------------------------------------------------------------------------
(* The worker thread and its results.                                      *)

\* authorize_commit refuses, or an earlier check of the operation.  Asking for
\* a peer without an epoch gives it one, with or without BlueZ.
GateRefuses ==
  LET p == PeerOf(work.tx) IN
  /\ Busy /\ work.stage \in {"gate", "asked"}
  /\ work' = [work EXCEPT !.stage = "done"]
  /\ \/ UNCHANGED <<peerEpoch, nextEpoch>>
     \/ /\ work.stage = "gate" /\ peerEpoch[p] = 0
        /\ nextEpoch < MaxPeerEpochs /\ nextEpoch' = nextEpoch + 1
        /\ peerEpoch' = [peerEpoch EXCEPT ![p] = nextEpoch + 1]
  /\ UNCHANGED <<input, win, present, link, bonded, signals, protocolVars,
                 active, result, snap, closing, ran>>

\* Mutant: any connection of the peer will do.
PeerAsked_NoEpoch ==
  LET p == PeerOf(work.tx) IN
  /\ Busy /\ work.stage = "gate"
  /\ present /\ Eligible(p)
  /\ work' = [work EXCEPT !.stage = "asked"]
  /\ UNCHANGED <<input, win, bluezVars, protocolVars, active, result, snap,
                 closing, ran>>

\* egp_bluez_peer_security: BlueZ's answer, and the peer's epoch before and
\* after it.  The main loop may run before the window is looked at.
PeerAsked ==
  LET p == PeerOf(work.tx) IN
  /\ Busy /\ work.stage = "gate"
  /\ present /\ Eligible(p)
  /\ peerEpoch[p] = work.cepoch
  /\ work' = [work EXCEPT !.stage = "asked"]
  /\ UNCHANGED <<input, win, bluezVars, protocolVars, active, result, snap,
                 closing, ran>>

\* egp_security_authorize_commit under its lock.
GatePasses ==
  /\ Busy /\ work.stage = "asked"
  /\ win.open
  /\ win.epoch = work.wepoch /\ win.owner = PeerOf(work.tx)
  /\ work' = [work EXCEPT !.stage = "passed"]
  /\ UNCHANGED <<input, win, bluezVars, protocolVars, active, result, snap,
                 closing, ran>>

OperationEnds ==
  /\ Busy /\ work.stage = "passed"
  /\ \E ok \in BOOLEAN : work' = [work EXCEPT !.stage = "done", !.ok = ok]
  /\ UNCHANGED <<input, win, bluezVars, protocolVars, active, result, snap,
                 closing, ran>>

\* Mutant: the final result is shown but not kept.
WorkCompleted_NotCached ==
  /\ Busy /\ work.stage = "done"
  /\ work' = None
  /\ IF active # None /\ PeerOf(active) = PeerOf(work.tx)
     THEN /\ result' = [tx |-> active, window |-> work.wepoch,
                        status |-> IF work.ok THEN "SUCCEEDED" ELSE "FAILED"]
          /\ active' = None /\ snap' = None
          /\ closing' = (closing \/ (OneShot /\ work.ok))
     ELSE UNCHANGED <<active, result, snap, closing>>
  /\ UNCHANGED <<input, win, bluezVars, protocolVars, ran>>

\* completed and result_published: an answer for the active request only.
WorkCompleted ==
  /\ Busy /\ work.stage = "done"
  /\ work' = None
  /\ IF active # None /\ PeerOf(active) = PeerOf(work.tx)
     THEN LET final == [tx |-> active, window |-> work.wepoch,
                        status |-> IF work.ok THEN "SUCCEEDED" ELSE "FAILED"]
          IN  /\ InvalidateResult
              /\ cache' = [i \in DOMAIN cache |->
                             IF cache[i].tx = active
                             THEN [cache[i] EXCEPT !.result = final] ELSE cache[i]]
              /\ result' = final
              /\ active' = None
              /\ closing' = (closing \/ (OneShot /\ work.ok))
     ELSE UNCHANGED <<cache, active, result, snap, closing>>
  /\ UNCHANGED <<input, win, bluezVars, frag, expired, ran>>
-----------------------------------------------------------------------------
(* Reads: characteristic_call, read_value, gatt_read.c.                    *)

\* Offset 0: egp_security_can_read_result, and a result that is the peer's.
\* The one snapshot is made anew.
ReadResult(p) ==
  /\ present /\ SeenUp(p) /\ peerEpoch[p] # 0
  /\ Eligible(p)
  /\ win.open /\ win.owner = p
  /\ result # None /\ PeerOf(result.tx) = p
  /\ snap' = [peer |-> p, epoch |-> peerEpoch[p], value |-> result]
  /\ UNCHANGED <<input, win, bluezVars, protocolVars, active, work, result,
                 closing, ran>>

\* The last chunk, an offset the snapshot does not answer, its timeout, or a
\* read of another characteristic, by whichever peer: the snapshot goes.
ReadEnds ==
  /\ snap # None /\ snap' = None
  /\ UNCHANGED <<input, win, bluezVars, protocolVars, active, work, result,
                 closing, ran>>
-----------------------------------------------------------------------------
Next ==
  \/ HoldElapsed \/ InputLost
  \/ ExpiryTick \/ CloseOneShot
  \/ BluezAppears \/ BluezVanishes
  \/ GateRefuses \/ PeerAsked \/ GatePasses \/ OperationEnds \/ WorkCompleted
  \/ ReadEnds
  \/ \E p \in Peers :
       \/ LinkChanges(p) \/ BondChanges(p) \/ PropertiesChanged(p)
       \/ FirstRequest(p)
       \/ WriteAgentBusy(p)
       \/ ReadResult(p)
       \/ \E f \in Frames :
            \/ WriteDropped(p, f) \/ WriteUnauthorized(p, f)
            \/ WriteFragment(p, f) \/ WriteReplay(p, f) \/ WriteComplete(p, f)
  \/ \E k \in Keys : FragmentsExpire(k)
  \/ \E tx \in Transactions : MarkerExpires(tx)

Spec == Init /\ [][Next]_vars
-----------------------------------------------------------------------------
(* Properties.                                                             *)

\* What OperationResult holds was made in this window for the window's owner
\* (window_changed, bluez_lost, result_published).
ResultIsOwn ==
  result # None =>
    result.window = win.epoch /\ PeerOf(result.tx) = win.owner

\* A peer that polls ACCEPTED is waiting for an operation that runs, and a
\* replayed transaction shows its final result (result_published, the cache).
AcceptedIsRunning ==
  \A r \in {result} \cup {cache[i].result : i \in DOMAIN cache} :
    (r # None /\ r.status = "ACCEPTED") => (Busy /\ work.tx = r.tx /\ active = r.tx)

\* A continued read of OperationResult is of the result that is there now and
\* of its owner: no chunk of an older result or window is served.
ReadIsCurrent ==
  snap # None =>
    /\ snap.value = result /\ win.open
    /\ snap.peer = win.owner /\ snap.epoch = peerEpoch[snap.peer]

\* No operation passes authorize_commit when, since it was submitted, the daemon
\* heard of a link or bond change before the peer's epoch is compared, or the
\* window changed or BlueZ went before the window is looked at.
NoCommitAfterCut == Busy /\ work.stage = "passed" => ~work.cut

\* A transaction the session remembers does not run a second time, also after
\* a reconnection (complete_transaction, egp_protocol_drop_peer).
RetryRunsOnce == [][~Busy /\ Busy' => work'.tx \notin ran]_vars
-----------------------------------------------------------------------------
(* The inductive invariant.                                                *)

\* Epochs are handed out in order: the next one is new to every peer.
EpochInv == \A p \in Peers : peerEpoch[p] <= nextEpoch

\* What the cache holds was made in this window for its owner, and what ran and
\* must not run again is in it.
CacheInv ==
  /\ \A i \in DOMAIN cache :
       /\ cache[i].result.tx = cache[i].tx /\ cache[i].result.window = win.epoch
       /\ PeerOf(cache[i].tx) = win.owner
  /\ \A tx \in ran : Completed(tx) # {}

\* The active request is the worker's, of this window and its owner.
ActiveInv ==
  active # None =>
    /\ Busy /\ work.tx = active
    /\ work.wepoch = win.epoch /\ PeerOf(active) = win.owner

\* A gate that has something to refuse finds it: an epoch has moved on.
CutInv ==
  Busy =>
    /\ work.wepoch <= win.epoch /\ work.cepoch <= nextEpoch
    /\ work.cut /\ work.stage = "gate" =>
         work.wepoch < win.epoch \/ peerEpoch[PeerOf(work.tx)] # work.cepoch
    /\ work.cut /\ work.stage = "asked" => work.wepoch < win.epoch
    /\ work.stage = "passed" => ~work.cut

SessionInv ==
  /\ TypeOK /\ EpochInv /\ CacheInv /\ ActiveInv /\ CutInv
  /\ ResultIsOwn /\ AcceptedIsRunning /\ ReadIsCurrent
=============================================================================
