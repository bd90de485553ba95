------------------------- MODULE ProvSessionProofs -------------------------
(***************************************************************************)
(* The session's guarantees for any number of peers, frames, windows and   *)
(* epochs: SessionInv is inductive.                                        *)
(***************************************************************************)
EXTENDS ProvSession, SequenceTheorems, TLAPS

USE DEF Busy

Entries == [tx : Transactions, body : Bodies, result : Results]

\* The elements of a sequence, and a function on 1..n as a sequence.
LEMMA Elements ==
  ASSUME NEW R, NEW s \in Seq(R)
  PROVE  DOMAIN s = 1..Len(s) /\ Len(s) \in Nat /\ \A i \in DOMAIN s : s[i] \in R
OBVIOUS

\* What the cache is made of.
LEMMA CacheEntries ==
  ASSUME TypeOK
  PROVE  /\ cache \in Seq(Entries) /\ DOMAIN cache = 1..Len(cache) /\ Len(cache) \in Nat
         /\ \A i \in DOMAIN cache :
              /\ cache[i] \in Entries
              /\ cache[i].tx \in Transactions /\ cache[i].result \in Results
<1>1. cache \in Seq(Entries)
  BY DEF TypeOK, Entries
<1>2. /\ DOMAIN cache = 1..Len(cache) /\ Len(cache) \in Nat
      /\ \A i \in DOMAIN cache : cache[i] \in Entries
  BY <1>1, Elements
<1>3. \A e \in Entries : e.tx \in Transactions /\ e.result \in Results
  BY DEF Entries
<1> QED
  BY <1>1, <1>2, <1>3

\* A fresh daemon satisfies the invariant.
LEMMA InitSession == Init => SessionInv
<1> SUFFICES ASSUME Init PROVE SessionInv
  OBVIOUS
<1>1. TypeOK
  <2>1. win \in [open : BOOLEAN, epoch : 0..MaxWindows, owner : Peers \cup {None}]
    BY ProvSessionAssumption DEF Init
  <2>2. link \in [Peers -> BOOLEAN] /\ bonded \in [Peers -> BOOLEAN]
    BY DEF Init
  <2>3. signals \in [Peers -> Seq({"up", "down", "bond"})]
    BY DEF Init
  <2>4. peerEpoch \in [Peers -> 0..MaxPeerEpochs] /\ nextEpoch \in 0..MaxPeerEpochs
    BY ProvSessionAssumption DEF Init
  <2>5. /\ cache \in Seq([tx : Transactions, body : Bodies, result : Results])
        /\ Len(cache) <= CacheLimit
    BY ProvSessionAssumption DEF Init
  <2> QED
    BY <2>1, <2>2, <2>3, <2>4, <2>5 DEF Init, TypeOK
<1>2. EpochInv
  BY DEF Init, EpochInv
<1>3. CacheInv
  BY DEF Init, CacheInv
<1>4. ActiveInv /\ CutInv /\ ResultIsOwn /\ AcceptedIsRunning /\ ReadIsCurrent
  BY DEF Init, ActiveInv, CutInv, ResultIsOwn, AcceptedIsRunning, ReadIsCurrent
<1> QED
  BY <1>1, <1>2, <1>3, <1>4 DEF SessionInv

\* Cut marks the worker's operation and changes nothing else of it.
LEMMA CutMarks ==
  ASSUME TypeOK, NEW S, NEW looks, Cut(S, looks)
  PROVE  /\ work' \in Works \cup {None} /\ (work' # None <=> work # None)
         /\ work # None =>
              /\ work'.tx = work.tx /\ work'.wepoch = work.wepoch
              /\ work'.cepoch = work.cepoch /\ work'.stage = work.stage
              /\ work'.cut <=> work.cut \/ (work.stage \in looks /\ PeerOf(work.tx) \in S)
<1>1. work \in Works \cup {None}
  BY DEF TypeOK
<1>2. CASE work # None /\ work.stage \in looks /\ PeerOf(work.tx) \in S
  <2>1. work \in Works /\ work' = [work EXCEPT !.cut = TRUE]
    BY <1>1, <1>2 DEF Cut
  <2>2. work' \in Works
    BY <2>1 DEF Works
  <2>3. /\ work'.tx = work.tx /\ work'.wepoch = work.wepoch
        /\ work'.cepoch = work.cepoch /\ work'.stage = work.stage /\ work'.cut = TRUE
    BY <2>1 DEF Works
  <2> QED
    BY <1>2, <2>2, <2>3, ProvSessionAssumption
<1>3. CASE ~(work # None /\ work.stage \in looks /\ PeerOf(work.tx) \in S)
  BY <1>1, <1>3 DEF Cut
<1> QED
  BY <1>2, <1>3

\* advance_epoch with window_changed or bluez_lost: a new epoch without owner
\* and without anything of the session.
LEMMA NewEpoch ==
  ASSUME SessionInv, ForgetSession, EpochInv',
         win' \in [open : BOOLEAN, epoch : 0..MaxWindows, owner : Peers \cup {None}],
         win'.epoch = win.epoch + 1,
         nextEpoch \in Nat, nextEpoch' \in Nat, nextEpoch' >= nextEpoch
  PROVE  /\ work' \in Works \cup {None}
         /\ CacheInv' /\ ActiveInv' /\ CutInv'
         /\ ResultIsOwn' /\ AcceptedIsRunning' /\ ReadIsCurrent'
<1>0. TypeOK /\ Cut(Peers, {"gate", "asked"})
  BY DEF SessionInv, ForgetSession
<1>1. work' \in Works \cup {None}
  BY <1>0, CutMarks
<1>2. CacheInv' /\ ActiveInv'
  BY DEF ForgetSession, DropAll, CacheInv, ActiveInv
<1>3. ResultIsOwn' /\ AcceptedIsRunning' /\ ReadIsCurrent'
  BY DEF ForgetSession, DropAll, ResultIsOwn, AcceptedIsRunning, ReadIsCurrent
<1>4. CutInv'
  <2> SUFFICES ASSUME work' # None PROVE CutInv'
    BY DEF CutInv
  <2>1. /\ work # None /\ work'.wepoch = work.wepoch /\ work'.cepoch = work.cepoch
        /\ work'.stage = work.stage /\ (work.stage = "passed" /\ work'.cut => work.cut)
    BY <1>0, CutMarks
  <2>2. work \in Works /\ win.epoch \in Nat
    BY <2>1 DEF SessionInv, TypeOK
  <2> QED
    BY <2>1, <2>2 DEF SessionInv, CutInv, Works
<1> QED
  BY <1>1, <1>2, <1>3, <1>4

\* The session does not look at the key nor at a queued close_one_shot.
LEMMA Elsewhere ==
  ASSUME SessionInv, input' \in BOOLEAN, closing' \in BOOLEAN,
         UNCHANGED <<win, bluezVars, protocolVars, active, work, result, snap, ran>>
  PROVE  SessionInv'
<1>1. TypeOK'
  BY DEF SessionInv, TypeOK, bluezVars, protocolVars
<1>2. EpochInv' /\ CacheInv' /\ ActiveInv' /\ CutInv'
  BY DEF SessionInv, EpochInv, CacheInv, Completed, ActiveInv, CutInv,
         bluezVars, protocolVars
<1>3. ResultIsOwn' /\ AcceptedIsRunning' /\ ReadIsCurrent'
  BY DEF SessionInv, ResultIsOwn, AcceptedIsRunning, ReadIsCurrent,
         bluezVars, protocolVars
<1> QED
  BY <1>1, <1>2, <1>3 DEF SessionInv

\* Opening and closing a window, whoever does it.
LEMMA ChangeWindowKeeps ==
  ASSUME SessionInv, NEW open \in BOOLEAN, ChangeWindow(open), UNCHANGED bluezVars,
         input' \in BOOLEAN, closing' \in BOOLEAN
  PROVE  SessionInv'
<1>1. win' \in [open : BOOLEAN, epoch : 0..MaxWindows, owner : Peers \cup {None}]
      /\ win'.epoch = win.epoch + 1
  BY ProvSessionAssumption DEF SessionInv, TypeOK, ChangeWindow
<1>2. EpochInv'
  BY DEF SessionInv, EpochInv, bluezVars
<1>3. ForgetSession /\ nextEpoch \in Nat /\ nextEpoch' = nextEpoch
  BY DEF ChangeWindow, SessionInv, TypeOK, bluezVars
<1>4. /\ work' \in Works \cup {None}
      /\ CacheInv' /\ ActiveInv' /\ CutInv'
      /\ ResultIsOwn' /\ AcceptedIsRunning' /\ ReadIsCurrent'
  BY <1>1, <1>2, <1>3, NewEpoch
<1>5. TypeOK'
  <2>1. /\ frag' = [k \in Keys |-> None] /\ expired' = {} /\ cache' = <<>> /\ ran' = {}
        /\ active' = None /\ result' = None /\ snap' = None
    BY <1>3 DEF ForgetSession, DropAll
  <2>2. /\ cache' \in Seq([tx : Transactions, body : Bodies, result : Results])
        /\ Len(cache') <= CacheLimit
    BY <2>1, ProvSessionAssumption
  <2>3. frag' \in [Keys -> Buffers \cup {None}]
    BY <2>1
  <2> QED
    BY <1>1, <1>4, <2>1, <2>2, <2>3 DEF SessionInv, TypeOK, bluezVars
<1> QED
  BY <1>2, <1>4, <1>5 DEF SessionInv

\* Closing the window moves the epoch and forgets the cached results.
LEMMA CloseWindowKeeps ==
  ASSUME SessionInv, CloseWindow, UNCHANGED bluezVars,
         input' \in BOOLEAN, closing' \in BOOLEAN
  PROVE  SessionInv'
<1>1. CASE win.open
  BY <1>1, ChangeWindowKeeps DEF CloseWindow
<1>2. CASE ~win.open
  BY <1>2, Elsewhere DEF CloseWindow
<1> QED
  BY <1>1, <1>2

\* The key and the window's timers.
LEMMA WindowSteps ==
  ASSUME SessionInv, HoldElapsed \/ InputLost \/ ExpiryTick \/ CloseOneShot
  PROVE  SessionInv'
<1>0. input \in BOOLEAN /\ closing \in BOOLEAN
  BY DEF SessionInv, TypeOK
<1>1. CASE HoldElapsed
  BY <1>0, <1>1, ChangeWindowKeeps DEF HoldElapsed
<1>2. CASE InputLost
  BY <1>0, <1>2, CloseWindowKeeps DEF InputLost
<1>3. CASE ExpiryTick
  BY <1>0, <1>3, ChangeWindowKeeps DEF ExpiryTick
<1>4. CASE CloseOneShot
  BY <1>0, <1>4, CloseWindowKeeps DEF CloseOneShot
<1> QED
  BY <1>1, <1>2, <1>3, <1>4
-----------------------------------------------------------------------------
(* BlueZ and the peers.                                                    *)

\* External changes of a link or a bond.
LEMMA PeerChanges ==
  ASSUME SessionInv, NEW p \in Peers, LinkChanges(p) \/ BondChanges(p)
  PROVE  SessionInv'
<1>0. TypeOK /\ EpochInv /\ link \in [Peers -> BOOLEAN] /\ bonded \in [Peers -> BOOLEAN]
      /\ signals \in [Peers -> Seq({"up", "down", "bond"})]
  BY DEF SessionInv, TypeOK
<1>1. /\ present /\ present' = present
      /\ UNCHANGED <<input, win, peerEpoch, nextEpoch, protocolVars, active, work,
                     result, snap, closing, ran>>
  BY DEF LinkChanges, BondChanges
<1>2. PICK x \in {"up", "down", "bond"} :
        /\ signals' = [signals EXCEPT ![p] = Append(@, x)]
        /\ \/ x = "bond" /\ link' = link
           \/ x = "down" /\ link[p] /\ link' = [link EXCEPT ![p] = FALSE]
           \/ x = "up" /\ ~link[p] /\ link' = [link EXCEPT ![p] = TRUE]
  BY <1>0 DEF LinkChanges, BondChanges
<1>3. signals' \in [Peers -> Seq({"up", "down", "bond"})]
  BY <1>0, <1>2
<1>4. link' \in [Peers -> BOOLEAN] /\ bonded' \in [Peers -> BOOLEAN]
  BY <1>0 DEF LinkChanges, BondChanges
<1>5. TypeOK'
  BY <1>1, <1>3, <1>4 DEF SessionInv, TypeOK, protocolVars
<1>6. EpochInv'
  BY <1>0, <1>1 DEF EpochInv
<1>7. CacheInv' /\ ActiveInv' /\ CutInv' /\ ResultIsOwn' /\ AcceptedIsRunning'
      /\ ReadIsCurrent'
  BY <1>1 DEF SessionInv, CacheInv, Completed, ActiveInv, CutInv, ResultIsOwn,
              AcceptedIsRunning, ReadIsCurrent, protocolVars
<1> QED
  BY <1>5, <1>6, <1>7 DEF SessionInv

\* The fragments and markers of one peer go.
LEMMA DropPeerTyped ==
  ASSUME TypeOK, NEW p \in Peers, DropPeer(p)
  PROVE  frag' \in [Keys -> Buffers \cup {None}] /\ expired' \subseteq Transactions
BY DEF TypeOK, DropPeer

\* What the main loop hears of a peer.
LEMMA PropertiesChangedKeeps ==
  ASSUME SessionInv, NEW p \in Peers, PropertiesChanged(p)
  PROVE  SessionInv'
<1>0. TypeOK /\ nextEpoch \in 0..MaxPeerEpochs /\ MaxPeerEpochs \in Nat
      /\ peerEpoch \in [Peers -> 0..MaxPeerEpochs] /\ nextEpoch < MaxPeerEpochs
  BY ProvSessionAssumption DEF SessionInv, TypeOK, PropertiesChanged
<1>1. /\ nextEpoch' = nextEpoch + 1 /\ peerEpoch' = [peerEpoch EXCEPT ![p] = nextEpoch + 1]
      /\ nextEpoch' \in 0..MaxPeerEpochs
      /\ peerEpoch' \in [Peers -> 0..MaxPeerEpochs]
  BY <1>0 DEF PropertiesChanged
<1>2. signals' \in [Peers -> Seq({"up", "down", "bond"})]
  BY <1>0 DEF TypeOK, PropertiesChanged
<1>3. /\ UNCHANGED <<input, win, present, link, bonded, cache, active, result, closing, ran>>
      /\ snap' \in {snap, None} /\ (snap # None /\ snap.peer = p => snap' = None)
  BY DEF PropertiesChanged
<1>4. frag' \in [Keys -> Buffers \cup {None}] /\ expired' \subseteq Transactions
  BY <1>0, DropPeerTyped DEF PropertiesChanged, TypeOK
<1>5. Cut({p}, {"gate"})
  BY DEF PropertiesChanged
<1>6. /\ work' \in Works \cup {None} /\ (work' # None <=> work # None)
      /\ work # None =>
           /\ work'.tx = work.tx /\ work'.wepoch = work.wepoch
           /\ work'.cepoch = work.cepoch /\ work'.stage = work.stage
           /\ work'.cut <=> work.cut \/ (work.stage = "gate" /\ PeerOf(work.tx) = p)
  BY <1>0, <1>5, CutMarks
<1>7. TypeOK'
  BY <1>1, <1>2, <1>3, <1>4, <1>6 DEF SessionInv, TypeOK
<1>8. EpochInv'
  BY <1>0, <1>1 DEF SessionInv, EpochInv
<1>9. CutInv'
  <2> SUFFICES ASSUME work' # None PROVE CutInv'
    BY DEF CutInv
  <2>1. work \in Works /\ work # None
    BY <1>0, <1>6 DEF TypeOK
  <2>2. PeerOf(work.tx) = p => peerEpoch'[PeerOf(work.tx)] # work.cepoch
    BY <1>0, <1>1, <2>1 DEF SessionInv, CutInv, Works
  <2>3. PeerOf(work.tx) # p => peerEpoch'[PeerOf(work.tx)] = peerEpoch[PeerOf(work.tx)]
    BY <1>0, <1>1
  <2> QED
    BY <1>0, <1>1, <1>3, <1>6, <2>1, <2>2, <2>3 DEF SessionInv, CutInv, Works
<1>10. CacheInv' /\ ActiveInv' /\ ResultIsOwn' /\ AcceptedIsRunning'
  BY <1>3, <1>6 DEF SessionInv, CacheInv, Completed, ActiveInv, ResultIsOwn,
                    AcceptedIsRunning
<1>11. ReadIsCurrent'
  BY <1>0, <1>1, <1>3 DEF SessionInv, TypeOK, Snapshots, ReadIsCurrent
<1> QED
  BY <1>7, <1>8, <1>9, <1>10, <1>11 DEF SessionInv

\* A first request takes an epoch nobody has, and none is taken from a peer.
LEMMA FirstRequestKeeps ==
  ASSUME SessionInv, NEW p \in Peers, FirstRequest(p)
  PROVE  SessionInv'
<1>0. /\ TypeOK /\ nextEpoch \in 0..MaxPeerEpochs /\ MaxPeerEpochs \in Nat
      /\ peerEpoch \in [Peers -> 0..MaxPeerEpochs] /\ nextEpoch < MaxPeerEpochs
  BY ProvSessionAssumption DEF SessionInv, TypeOK, FirstRequest
<1>1. /\ peerEpoch[p] = 0 /\ nextEpoch' = nextEpoch + 1
      /\ peerEpoch' = [peerEpoch EXCEPT ![p] = nextEpoch + 1]
      /\ UNCHANGED <<input, win, present, link, bonded, signals, protocolVars, active,
                     work, result, snap, closing, ran>>
  BY DEF FirstRequest
<1>2. nextEpoch' \in 0..MaxPeerEpochs /\ peerEpoch' \in [Peers -> 0..MaxPeerEpochs]
  BY <1>0, <1>1
<1>3. TypeOK'
  BY <1>0, <1>1, <1>2 DEF TypeOK, protocolVars
<1>4. EpochInv'
  BY <1>0, <1>1 DEF SessionInv, EpochInv
<1>5. CutInv'
  <2> SUFFICES ASSUME work # None PROVE CutInv'
    BY <1>1 DEF CutInv
  <2>1. work \in Works /\ PeerOf(work.tx) \in Peers
    BY <1>0 DEF TypeOK, Works, PeerOf, Transactions, Keys
  <2>2. work.cepoch <= nextEpoch /\ work.cepoch \in Nat /\ work.cepoch # nextEpoch + 1
    BY <1>0, <2>1 DEF SessionInv, CutInv, Works
  <2>3. \/ peerEpoch'[PeerOf(work.tx)] = peerEpoch[PeerOf(work.tx)]
        \/ peerEpoch'[PeerOf(work.tx)] # work.cepoch
    BY <1>0, <1>1, <2>1, <2>2
  <2> QED
    BY <1>0, <1>1, <2>1, <2>2, <2>3 DEF SessionInv, CutInv
<1>6. CacheInv' /\ ActiveInv' /\ ResultIsOwn' /\ AcceptedIsRunning'
  BY <1>1 DEF SessionInv, CacheInv, Completed, ActiveInv, ResultIsOwn,
              AcceptedIsRunning, protocolVars
<1>7. ReadIsCurrent'
  <2> SUFFICES ASSUME snap # None PROVE ReadIsCurrent'
    BY <1>1 DEF ReadIsCurrent
  <2>1. snap.peer \in Peers /\ snap.epoch # 0 /\ snap.epoch = peerEpoch[snap.peer]
    BY DEF SessionInv, TypeOK, Snapshots, ReadIsCurrent
  <2>2. peerEpoch'[snap.peer] = peerEpoch[snap.peer]
    BY <1>0, <1>1, <2>1
  <2> QED
    BY <1>1, <2>2 DEF SessionInv, ReadIsCurrent
<1> QED
  BY <1>3, <1>4, <1>5, <1>6, <1>7 DEF SessionInv

\* BlueZ comes and goes.
LEMMA BluezAppearsKeeps ==
  ASSUME SessionInv, BluezAppears
  PROVE  SessionInv'
<1>0. /\ nextEpoch \in 0..MaxPeerEpochs /\ MaxPeerEpochs \in Nat /\ nextEpoch < MaxPeerEpochs
      /\ nextEpoch' = nextEpoch + 1 /\ peerEpoch' = [q \in Peers |-> 0]
      /\ present' = TRUE /\ snap' = None
      /\ UNCHANGED <<input, win, link, bonded, signals, protocolVars, active, work,
                     result, closing, ran>>
  BY ProvSessionAssumption DEF SessionInv, TypeOK, BluezAppears
<1>1. nextEpoch' \in 0..MaxPeerEpochs /\ peerEpoch' \in [Peers -> 0..MaxPeerEpochs]
  BY <1>0
<1>2. TypeOK'
  BY <1>0, <1>1 DEF SessionInv, TypeOK, protocolVars
<1>3. EpochInv'
  BY <1>0 DEF EpochInv
<1>4. CutInv'
  <2> SUFFICES ASSUME work # None PROVE CutInv'
    BY <1>0 DEF CutInv
  <2>1. work \in Works /\ PeerOf(work.tx) \in Peers
    BY DEF SessionInv, TypeOK, Works, PeerOf, Transactions, Keys
  <2> QED
    BY <1>0, <2>1 DEF SessionInv, CutInv, Works
<1>5. CacheInv' /\ ActiveInv' /\ ResultIsOwn' /\ AcceptedIsRunning' /\ ReadIsCurrent'
  BY <1>0 DEF SessionInv, CacheInv, Completed, ActiveInv, ResultIsOwn,
              AcceptedIsRunning, ReadIsCurrent, protocolVars
<1> QED
  BY <1>2, <1>3, <1>4, <1>5 DEF SessionInv

\* When BlueZ vanishes, every link and the session of the window are gone.
LEMMA BluezVanishesKeeps ==
  ASSUME SessionInv, BluezVanishes
  PROVE  SessionInv'
<1>0. /\ nextEpoch \in 0..MaxPeerEpochs /\ MaxPeerEpochs \in Nat /\ nextEpoch < MaxPeerEpochs
      /\ nextEpoch' = nextEpoch + 1 /\ peerEpoch' = [q \in Peers |-> 0]
      /\ present' = FALSE /\ link' = [q \in Peers |-> FALSE]
      /\ \A q \in Peers : signals[q] = <<>>
      /\ win.epoch < MaxWindows /\ win' = [win EXCEPT !.epoch = @ + 1, !.owner = None]
      /\ ForgetSession
      /\ UNCHANGED <<input, bonded, signals, closing>>
  BY ProvSessionAssumption DEF SessionInv, TypeOK, BluezVanishes
<1>1. /\ nextEpoch' \in 0..MaxPeerEpochs /\ peerEpoch' \in [Peers -> 0..MaxPeerEpochs]
      /\ link' \in [Peers -> BOOLEAN]
  BY <1>0
<1>2. /\ win' \in [open : BOOLEAN, epoch : 0..MaxWindows, owner : Peers \cup {None}]
      /\ win'.epoch = win.epoch + 1
  <2>1. /\ win \in [open : BOOLEAN, epoch : 0..MaxWindows, owner : Peers \cup {None}]
        /\ MaxWindows \in Nat
    BY ProvSessionAssumption DEF SessionInv, TypeOK
  <2>2. win' = [win EXCEPT !.epoch = win.epoch + 1, !.owner = None]
    BY <1>0
  <2>3. win.epoch + 1 \in 0..MaxWindows
    BY <1>0, <2>1
  <2> QED
    BY <2>1, <2>2, <2>3
<1>3. EpochInv'
  BY <1>0 DEF EpochInv
<1>4. /\ work' \in Works \cup {None}
      /\ CacheInv' /\ ActiveInv' /\ CutInv'
      /\ ResultIsOwn' /\ AcceptedIsRunning' /\ ReadIsCurrent'
  BY <1>0, <1>1, <1>2, <1>3, NewEpoch
<1>5. TypeOK'
  <2>1. /\ frag' = [k \in Keys |-> None] /\ expired' = {} /\ cache' = <<>> /\ ran' = {}
        /\ active' = None /\ result' = None /\ snap' = None
    BY <1>0 DEF ForgetSession, DropAll
  <2>2. /\ cache' \in Seq([tx : Transactions, body : Bodies, result : Results])
        /\ Len(cache') <= CacheLimit
    BY <2>1, ProvSessionAssumption
  <2>3. frag' \in [Keys -> Buffers \cup {None}]
    BY <2>1
  <2> QED
    BY <1>0, <1>1, <1>2, <1>4, <2>1, <2>2, <2>3 DEF SessionInv, TypeOK
<1> QED
  BY <1>3, <1>4, <1>5 DEF SessionInv
-----------------------------------------------------------------------------
(* Frames.                                                                 *)

\* The bytes of a frame that fits join those of its own transaction.
LEMMA MergedTyped ==
  ASSUME TypeOK, NEW k \in Keys, NEW f \in Frames, Fits(k, f)
  PROVE  /\ [id |-> f.id, total |-> f.total, data |-> Merged(k, f)] \in Buffers
         /\ DOMAIN Merged(k, f) = 1..f.total => Merged(k, f) \in Bodies
<1>0. /\ f.id \in Ids /\ f.total \in Totals /\ f.byte \in Bytes
      /\ f.total \in Nat /\ f.part \in 1..f.total
  BY ProvSessionAssumption DEF Ids, Totals, Bytes
<1>1. PICK S \in SUBSET (1..f.total) : Received(k) \in [S -> Bytes]
  <2>1. CASE frag[k] = None
    <3>1. Received(k) = <<>>
      BY <2>1 DEF Received
    <3>2. <<>> \in [{} -> Bytes]
      OBVIOUS
    <3> QED
      BY <3>1, <3>2
  <2>2. CASE frag[k] # None
    <3>1. frag[k] \in Buffers /\ frag[k].total = f.total /\ Received(k) = frag[k].data
      BY <2>2 DEF TypeOK, Fits, Received
    <3>2. PICK n \in Totals :
            frag[k] \in [id : Ids, total : {n},
                         data : UNION {[S -> Bytes] : S \in SUBSET (1..n)}]
      BY <3>1 DEF Buffers
    <3>3. n = f.total /\ frag[k].data \in UNION {[S -> Bytes] : S \in SUBSET (1..n)}
      BY <3>1, <3>2
    <3> QED
      BY <3>1, <3>3
  <2> QED
    BY <2>1, <2>2
<1>2. /\ Merged(k, f) \in [S \cup {f.part} -> Bytes]
      /\ S \cup {f.part} \in SUBSET (1..f.total)
  BY <1>0, <1>1 DEF Merged
<1>3. Merged(k, f) \in UNION {[R -> Bytes] : R \in SUBSET (1..f.total)}
  BY <1>2
<1>4. [id |-> f.id, total |-> f.total, data |-> Merged(k, f)]
        \in [id : Ids, total : {f.total},
             data : UNION {[R -> Bytes] : R \in SUBSET (1..f.total)}]
  BY <1>0, <1>3
<1>5. [id |-> f.id, total |-> f.total, data |-> Merged(k, f)] \in Buffers
  BY <1>0, <1>4 DEF Buffers
<1>6. DOMAIN Merged(k, f) = 1..f.total => Merged(k, f) \in [1..f.total -> Bytes]
  BY <1>2
<1> QED
  BY <1>0, <1>5, <1>6 DEF Bodies

\* What a handled write knows of its peer.
LEMMA HandledPeer ==
  ASSUME SessionInv, NEW p \in Peers, Handles(p)
  PROVE  /\ work = None /\ active = None /\ present
         /\ win.open /\ win.owner \in {None, p}
         /\ peerEpoch[p] \in 1..MaxPeerEpochs /\ peerEpoch[p] <= nextEpoch
<1>1. work = None /\ present /\ peerEpoch[p] # 0 /\ win.open /\ win.owner \in {None, p}
  BY DEF Handles, Admits
<1>2. active = None
  BY <1>1 DEF SessionInv, ActiveInv
<1>3. peerEpoch[p] # 0 /\ peerEpoch[p] <= nextEpoch /\ peerEpoch[p] \in 0..MaxPeerEpochs
  BY <1>1 DEF SessionInv, EpochInv, TypeOK
<1> QED
  BY <1>1, <1>2, <1>3, ProvSessionAssumption

\* A write that leaves the cache, the results and the worker alone: only
\* fragments change, and perhaps the window is claimed by the peer it admits.
LEMMA OnlyFragments ==
  ASSUME SessionInv, NEW p \in Peers,
         work # None => win' = win,
         win' = win \/ (win.owner \in {None, p} /\ win' = [win EXCEPT !.owner = p]),
         frag' \in [Keys -> Buffers \cup {None}], expired' \subseteq Transactions,
         UNCHANGED <<input, bluezVars, cache, active, work, result, snap, closing, ran>>
  PROVE  SessionInv'
<1>0. /\ win' \in [open : BOOLEAN, epoch : 0..MaxWindows, owner : Peers \cup {None}]
      /\ win'.open = win.open /\ win'.epoch = win.epoch
      /\ win'.owner = win.owner \/ (win.owner = None /\ win'.owner = p)
  BY DEF SessionInv, TypeOK
<1>1. TypeOK'
  BY <1>0 DEF SessionInv, TypeOK, bluezVars
<1>2. EpochInv'
  BY DEF SessionInv, EpochInv, bluezVars
<1>3. ActiveInv' /\ CutInv' /\ AcceptedIsRunning'
  BY <1>0 DEF SessionInv, ActiveInv, CutInv, AcceptedIsRunning, bluezVars
<1>4. \A tx \in Transactions : PeerOf(tx) \in Peers /\ PeerOf(tx) # None
  BY ProvSessionAssumption DEF PeerOf, Transactions, Keys
<1>5. CacheInv'
  <2>1. \A i \in DOMAIN cache : cache[i].tx \in Transactions
    BY CacheEntries DEF SessionInv
  <2>2. \A i \in DOMAIN cache : PeerOf(cache[i].tx) = win'.owner
    BY <1>0, <1>4, <2>1 DEF SessionInv, CacheInv
  <2> QED
    BY <1>0, <2>2 DEF SessionInv, CacheInv, Completed
<1>6. ResultIsOwn'
  BY <1>0, <1>4 DEF SessionInv, TypeOK, Results, ResultIsOwn
<1>7. ReadIsCurrent'
  BY <1>0, ProvSessionAssumption DEF SessionInv, TypeOK, Snapshots, ReadIsCurrent, bluezVars
<1> QED
  BY <1>1, <1>2, <1>3, <1>5, <1>6, <1>7 DEF SessionInv

\* Writes that are refused, and frames that complete nothing.
LEMMA FragmentWrites ==
  ASSUME SessionInv, NEW p \in Peers, NEW f \in Frames,
         WriteAgentBusy(p) \/ WriteDropped(p, f) \/ WriteFragment(p, f)
  PROVE  SessionInv'
<1> DEFINE k == <<p, f.char>>
<1>0. TypeOK /\ k \in Keys /\ frag \in [Keys -> Buffers \cup {None}]
      /\ expired \subseteq Transactions
  BY DEF SessionInv, TypeOK, Keys, Chars
<1>1. CASE WriteAgentBusy(p)
  BY <1>0, <1>1, DropPeerTyped, OnlyFragments DEF WriteAgentBusy
<1>2. CASE WriteDropped(p, f)
  <2>1. frag' \in [Keys -> Buffers \cup {None}]
    BY <1>0, <1>2 DEF WriteDropped
  <2> QED
    BY <1>0, <1>2, <2>1, OnlyFragments DEF WriteDropped
<1>3. CASE WriteFragment(p, f)
  <2>1. Fits(k, f)
    BY <1>3 DEF WriteFragment, Disposition
  <2>2. [id |-> f.id, total |-> f.total, data |-> Merged(k, f)] \in Buffers
    BY <1>0, <2>1, MergedTyped
  <2>3. frag' \in [Keys -> Buffers \cup {None}]
    BY <1>0, <1>3, <2>2 DEF WriteFragment
  <2>4. work = None /\ win.owner \in {None, p}
    BY <1>3, HandledPeer DEF WriteFragment
  <2> QED
    BY <1>0, <1>3, <2>3, <2>4, OnlyFragments DEF WriteFragment, Claim
<1> QED
  BY <1>1, <1>2, <1>3

\* Fragments and their markers time out.
LEMMA ExpirySteps ==
  ASSUME SessionInv,
         \/ \E k \in Keys : FragmentsExpire(k)
         \/ \E tx \in Transactions : MarkerExpires(tx)
  PROVE  SessionInv'
<1>0. frag \in [Keys -> Buffers \cup {None}] /\ expired \subseteq Transactions
  BY DEF SessionInv, TypeOK
<1>1. ASSUME NEW k \in Keys, FragmentsExpire(k) PROVE SessionInv'
  <2>1. frag[k] \in Buffers
    BY <1>0, <1>1 DEF FragmentsExpire
  <2>2. frag[k].id \in Ids
    BY <2>1 DEF Buffers
  <2>3. /\ frag' \in [Keys -> Buffers \cup {None}]
        /\ expired' \subseteq Transactions
    BY <1>0, <1>1, <2>2 DEF FragmentsExpire, Transactions
  <2>4. PICK p \in Peers : TRUE
    BY DEF Keys
  <2> QED
    BY <1>1, <2>3, <2>4, OnlyFragments DEF FragmentsExpire
<1>2. ASSUME NEW tx \in Transactions, MarkerExpires(tx) PROVE SessionInv'
  <2>1. PICK p \in Peers : TRUE
    BY DEF Transactions, Keys
  <2> QED
    BY <1>0, <1>2, <2>1, OnlyFragments DEF MarkerExpires
<1> QED
  BY <1>1, <1>2

\* A write that was taken and then refused: everything is dropped.
LEMMA WriteUnauthorizedKeeps ==
  ASSUME SessionInv, NEW p \in Peers, NEW f \in Frames, WriteUnauthorized(p, f)
  PROVE  SessionInv'
<1>0. input' \in BOOLEAN /\ closing' \in BOOLEAN /\ UNCHANGED bluezVars
  BY DEF SessionInv, TypeOK, WriteUnauthorized
<1>1. CASE CloseWindow
  BY <1>0, <1>1, CloseWindowKeeps
<1>2. CASE DropAll /\ UNCHANGED <<win, active, work, result, snap>>
  <2>1. frag' = [k \in Keys |-> None] /\ expired' = {} /\ cache' = <<>> /\ ran' = {}
    BY <1>2 DEF DropAll
  <2>2. /\ cache' \in Seq([tx : Transactions, body : Bodies, result : Results])
        /\ Len(cache') <= CacheLimit
    BY <2>1, ProvSessionAssumption
  <2>3. frag' \in [Keys -> Buffers \cup {None}]
    BY <2>1
  <2>4. TypeOK'
    BY <1>0, <1>2, <2>1, <2>2, <2>3 DEF SessionInv, TypeOK, bluezVars
  <2>5. EpochInv' /\ ActiveInv' /\ CutInv'
    BY <1>0, <1>2 DEF SessionInv, EpochInv, ActiveInv, CutInv, bluezVars
  <2>6. CacheInv' /\ ResultIsOwn' /\ AcceptedIsRunning' /\ ReadIsCurrent'
    BY <1>0, <1>2, <2>1 DEF SessionInv, CacheInv, ResultIsOwn, AcceptedIsRunning,
                            ReadIsCurrent, bluezVars
  <2> QED
    BY <2>4, <2>5, <2>6 DEF SessionInv
<1> QED
  BY <1>1, <1>2 DEF WriteUnauthorized

\* What a claim does to the window.
LEMMA ClaimTyped ==
  ASSUME SessionInv, NEW p \in Peers, Handles(p), Claim(p)
  PROVE  /\ win' \in [open : BOOLEAN, epoch : 0..MaxWindows, owner : Peers \cup {None}]
         /\ win'.open = win.open /\ win'.epoch = win.epoch /\ win'.owner = p
         /\ \A i \in DOMAIN cache : PeerOf(cache[i].tx) = p
<1>1. win \in [open : BOOLEAN, epoch : 0..MaxWindows, owner : Peers \cup {None}]
  BY DEF SessionInv, TypeOK
<1>2. \A tx \in Transactions : PeerOf(tx) \in Peers /\ PeerOf(tx) # None
  BY ProvSessionAssumption DEF PeerOf, Transactions, Keys
<1>3. \A i \in DOMAIN cache : cache[i].tx \in Transactions
  BY CacheEntries DEF SessionInv
<1>4. win.owner \in {None, p}
  BY HandledPeer
<1>5. \A i \in DOMAIN cache : PeerOf(cache[i].tx) = p
  BY <1>2, <1>3, <1>4 DEF SessionInv, CacheInv
<1> QED
  BY <1>1, <1>5 DEF Claim

\* A retry of a completed transaction shows its result again.
LEMMA WriteReplayKeeps ==
  ASSUME SessionInv, NEW p \in Peers, NEW f \in Frames, WriteReplay(p, f)
  PROVE  SessionInv'
<1> DEFINE k == <<p, f.char>>
           tx == <<k, f.id>>
           n == CHOOSE i \in Completed(tx) : TRUE
<1>0. /\ Handles(p) /\ Disposition(k, f) = "replay" /\ Claim(p)
      /\ frag' = [frag EXCEPT ![k] = None] /\ result' = cache[n].result /\ snap' = None
      /\ UNCHANGED <<input, bluezVars, expired, cache, active, work, closing, ran>>
  BY DEF WriteReplay, InvalidateResult
<1>1. n \in DOMAIN cache /\ cache[n].tx = tx
  <2>1. Completed(tx) # {}
    BY <1>0 DEF Disposition
  <2> QED
    BY <2>1 DEF Completed
<1>2. result' \in Results /\ frag' \in [Keys -> Buffers \cup {None}]
  BY <1>0, <1>1, CacheEntries DEF SessionInv, TypeOK
<1>3. /\ win' \in [open : BOOLEAN, epoch : 0..MaxWindows, owner : Peers \cup {None}]
      /\ win'.open = win.open /\ win'.epoch = win.epoch /\ win'.owner = p
      /\ \A i \in DOMAIN cache : PeerOf(cache[i].tx) = p
  BY <1>0, ClaimTyped
<1>4. work = None /\ active = None
  BY <1>0, HandledPeer
<1>5. TypeOK'
  BY <1>0, <1>2, <1>3 DEF SessionInv, TypeOK, bluezVars
<1>6. EpochInv' /\ ActiveInv' /\ CutInv' /\ ReadIsCurrent'
  BY <1>0, <1>4 DEF SessionInv, EpochInv, ActiveInv, CutInv, ReadIsCurrent, bluezVars
<1>7. CacheInv'
  BY <1>0, <1>3 DEF SessionInv, CacheInv, Completed
<1>8. ResultIsOwn'
  BY <1>0, <1>1, <1>3 DEF SessionInv, CacheInv, ResultIsOwn
<1>9. AcceptedIsRunning'
  BY <1>0, <1>1, <1>4 DEF SessionInv, AcceptedIsRunning
<1> QED
  BY <1>5, <1>6, <1>7, <1>8, <1>9 DEF SessionInv

\* prune_completed_limit leaves room for one, and only the oldest is forgotten.
LEMMA PrunedKeeps ==
  ASSUME TypeOK
  PROVE  /\ Pruned \in Seq(Entries) /\ Len(Pruned) + 1 <= CacheLimit
         /\ \A i \in DOMAIN Pruned : \E j \in DOMAIN cache : Pruned[i] = cache[j]
         /\ \A j \in DOMAIN cache : cache[j].tx \in Evicted
                                   \/ \E i \in DOMAIN Pruned : Pruned[i] = cache[j]
<1>0. /\ cache \in Seq(Entries) /\ DOMAIN cache = 1..Len(cache) /\ Len(cache) \in Nat
      /\ Len(cache) <= CacheLimit /\ CacheLimit \in Nat \ {0}
  BY CacheEntries, ProvSessionAssumption DEF TypeOK
<1>1. CASE Len(cache) >= CacheLimit
  <2>1. Pruned = Tail(cache) /\ Evicted = {Head(cache).tx} /\ cache # <<>>
    BY <1>0, <1>1 DEF Pruned, Evicted
  <2>2. /\ Pruned \in Seq(Entries) /\ Len(Pruned) = Len(cache) - 1
        /\ DOMAIN Pruned = 1..(Len(cache) - 1) /\ Head(cache) = cache[1]
        /\ \A i \in 1..(Len(cache) - 1) : Pruned[i] = cache[i + 1]
    BY <1>0, <2>1
  <2>3. \A i \in 1..(Len(cache) - 1) : i + 1 \in 1..Len(cache)
    BY <1>0
  <2>4. \A j \in 1..Len(cache) : j # 1 => j - 1 \in 1..(Len(cache) - 1) /\ (j - 1) + 1 = j
    BY <1>0
  <2>5. \A j \in DOMAIN cache : j # 1 => \E i \in DOMAIN Pruned : Pruned[i] = cache[j]
    BY <1>0, <2>2, <2>4
  <2>6. \A j \in DOMAIN cache : j = 1 => cache[j].tx \in Evicted
    BY <2>1, <2>2
  <2>7. Len(Pruned) + 1 <= CacheLimit
    BY <1>0, <2>2
  <2>8. \A i \in DOMAIN Pruned : \E j \in DOMAIN cache : Pruned[i] = cache[j]
    BY <1>0, <2>2, <2>3
  <2> QED
    BY <2>2, <2>5, <2>6, <2>7, <2>8
<1>2. CASE ~(Len(cache) >= CacheLimit)
  BY <1>0, <1>2 DEF Pruned
<1> QED
  BY <1>1, <1>2

\* A new request: its entry joins a cache that had no entry for it.
LEMMA WriteCompleteKeeps ==
  ASSUME SessionInv, NEW p \in Peers, NEW f \in Frames, WriteComplete(p, f)
  PROVE  SessionInv'
<1> DEFINE k == <<p, f.char>>
           tx == <<k, f.id>>
           accepted == [tx |-> tx, window |-> win.epoch, status |-> "ACCEPTED"]
           entry == [tx |-> tx, body |-> Merged(k, f), result |-> accepted]
           op == [tx |-> tx, wepoch |-> win.epoch, cepoch |-> peerEpoch[p],
                  cut |-> FALSE, stage |-> "gate", ok |-> FALSE]
<1>0. /\ Handles(p) /\ Disposition(k, f) = "complete" /\ Claim(p)
      /\ frag' = [frag EXCEPT ![k] = None] /\ cache' = Append(Pruned, entry)
      /\ active' = tx /\ work' = op /\ result' = accepted /\ snap' = None
      /\ ran' = (ran \ Evicted) \cup {tx}
      /\ UNCHANGED <<input, bluezVars, expired, closing>>
  BY DEF WriteComplete, InvalidateResult
<1>1. TypeOK /\ k \in Keys /\ tx \in Transactions /\ PeerOf(tx) = p /\ tx # None
  BY ProvSessionAssumption DEF SessionInv, Keys, Chars, Transactions, Ids, PeerOf
<1>2. /\ work = None /\ peerEpoch[p] \in 1..MaxPeerEpochs /\ peerEpoch[p] <= nextEpoch
      /\ win.epoch \in 0..MaxWindows
  BY <1>0, <1>1, HandledPeer DEF TypeOK
<1>3. /\ win' \in [open : BOOLEAN, epoch : 0..MaxWindows, owner : Peers \cup {None}]
      /\ win'.open = win.open /\ win'.epoch = win.epoch /\ win'.owner = p
      /\ \A i \in DOMAIN cache : PeerOf(cache[i].tx) = p
  BY <1>0, ClaimTyped
<1>4. accepted \in Results /\ op \in Works
  BY <1>1, <1>2 DEF Results, Works
<1>5. entry \in Entries
  <2>1. Fits(k, f) /\ DOMAIN Merged(k, f) = 1..f.total
    BY <1>0 DEF Disposition
  <2>2. Merged(k, f) \in Bodies
    BY <1>1, <2>1, MergedTyped
  <2> QED
    BY <1>1, <1>4, <2>2 DEF Entries
<1>6. /\ Pruned \in Seq(Entries) /\ Len(Pruned) + 1 <= CacheLimit
      /\ \A i \in DOMAIN Pruned : \E j \in DOMAIN cache : Pruned[i] = cache[j]
      /\ \A j \in DOMAIN cache : cache[j].tx \in Evicted
                                \/ \E i \in DOMAIN Pruned : Pruned[i] = cache[j]
  BY <1>1, PrunedKeeps
<1> HIDE DEF entry
<1>7. /\ cache' \in Seq(Entries) /\ Len(cache') = Len(Pruned) + 1
      /\ Len(Pruned) \in Nat
      /\ DOMAIN Pruned = 1..Len(Pruned) /\ DOMAIN cache' = 1..(Len(Pruned) + 1)
      /\ cache'[Len(Pruned) + 1] = entry
      /\ \A i \in DOMAIN Pruned : cache'[i] = Pruned[i]
  BY <1>0, <1>5, <1>6
<1>8. \A i \in DOMAIN cache' : cache'[i] = entry \/ \E j \in DOMAIN cache : cache'[i] = cache[j]
  <2>1. \A i \in DOMAIN cache' : i = Len(Pruned) + 1 \/ i \in DOMAIN Pruned
    BY <1>7
  <2> QED
    BY <1>6, <1>7, <2>1
<1>9. \A j \in DOMAIN cache : cache[j].tx \in Evicted
                            \/ \E i \in DOMAIN cache' : cache'[i] = cache[j]
  <2>1. DOMAIN Pruned \subseteq DOMAIN cache'
    BY <1>7
  <2> QED
    BY <1>6, <1>7, <2>1
<1>10. entry.tx = tx /\ entry.result = accepted
  BY DEF entry
<1>11. TypeOK'
  <2>1. frag' \in [Keys -> Buffers \cup {None}] /\ ran' \subseteq Transactions
    BY <1>0, <1>1 DEF TypeOK
  <2>2. /\ cache' \in Seq([tx : Transactions, body : Bodies, result : Results])
        /\ Len(cache') <= CacheLimit
    BY <1>6, <1>7 DEF Entries
  <2> QED
    BY <1>0, <1>1, <1>3, <1>4, <2>1, <2>2 DEF TypeOK, bluezVars
<1>12. EpochInv'
  BY <1>0 DEF SessionInv, EpochInv, bluezVars
<1>13. CacheInv'
  <2>1. \A i \in DOMAIN cache' :
          /\ cache'[i].result.tx = cache'[i].tx /\ cache'[i].result.window = win'.epoch
          /\ PeerOf(cache'[i].tx) = win'.owner
    BY <1>1, <1>3, <1>8, <1>10 DEF SessionInv, CacheInv
  <2>2. \A t \in ran' : \E i \in DOMAIN cache' : cache'[i].tx = t
    <3>1. \E i \in DOMAIN cache' : cache'[i].tx = tx
      <4>1. Len(Pruned) + 1 \in 1..(Len(Pruned) + 1)
        BY <1>7
      <4> QED
        BY <1>7, <1>10, <4>1
    <3>2. \A t \in ran : \E j \in DOMAIN cache : cache[j].tx = t
      BY DEF SessionInv, CacheInv, Completed
    <3>3. ASSUME NEW t \in ran, t \notin Evicted PROVE \E i \in DOMAIN cache' : cache'[i].tx = t
      <4>1. PICK j \in DOMAIN cache : cache[j].tx = t
        BY <3>2
      <4>2. PICK i \in DOMAIN cache' : cache'[i] = cache[j]
        BY <1>9, <3>3, <4>1
      <4> QED
        BY <4>1, <4>2
    <3> QED
      BY <1>0, <3>1, <3>3
  <2> QED
    BY <2>1, <2>2 DEF CacheInv, Completed
<1>14. ActiveInv' /\ ResultIsOwn' /\ ReadIsCurrent'
  BY <1>0, <1>1, <1>3, <1>4, ProvSessionAssumption DEF ActiveInv, ResultIsOwn, ReadIsCurrent
<1>15. CutInv'
  BY <1>0, <1>2, <1>3 DEF CutInv, bluezVars
<1>16. AcceptedIsRunning'
  <2>1. \A j \in DOMAIN cache : cache[j].result.status # "ACCEPTED"
    <3>1. \A j \in DOMAIN cache : cache[j].result # None
      BY <1>1, CacheEntries, ProvSessionAssumption
    <3> QED
      BY <1>2, <3>1 DEF SessionInv, AcceptedIsRunning
  <2>2. \A i \in DOMAIN cache' : cache'[i].result.status = "ACCEPTED" => cache'[i].result = accepted
    BY <1>8, <1>10, <2>1
  <2>3. work' # None /\ work'.tx = tx /\ active' = tx /\ accepted.tx = tx
    BY <1>0, <1>4, ProvSessionAssumption
  <2> QED
    BY <1>0, <2>2, <2>3 DEF AcceptedIsRunning
<1> QED
  BY <1>11, <1>12, <1>13, <1>14, <1>15, <1>16 DEF SessionInv
-----------------------------------------------------------------------------
(* The worker and the reads.                                               *)

\* The worker's steps up to its end.  A refused gate may hand the peer an
\* epoch, which is a new one.
LEMMA WorkerSteps ==
  ASSUME SessionInv, GateRefuses \/ PeerAsked \/ GatePasses \/ OperationEnds
  PROVE  SessionInv'
<1>0. /\ work # None
      /\ UNCHANGED <<input, win, present, link, bonded, signals, protocolVars, active,
                     result, snap, closing, ran>>
  BY DEF GateRefuses, PeerAsked, GatePasses, OperationEnds, bluezVars
<1>1. /\ TypeOK /\ work \in Works /\ PeerOf(work.tx) \in Peers
      /\ peerEpoch \in [Peers -> 0..MaxPeerEpochs] /\ nextEpoch \in 0..MaxPeerEpochs
      /\ MaxPeerEpochs \in Nat /\ win.epoch \in 0..MaxWindows /\ MaxWindows \in Nat
  BY <1>0, ProvSessionAssumption
     DEF SessionInv, TypeOK, Works, PeerOf, Transactions, Keys
<1>2. /\ work' \in Works /\ work' # None
      /\ work'.tx = work.tx /\ work'.wepoch = work.wepoch /\ work'.cepoch = work.cepoch
      /\ work'.cut = work.cut
      /\ \/ work'.stage = "done"
         \/ PeerAsked /\ work'.stage = "asked"
         \/ GatePasses /\ work'.stage = "passed"
  <2>1. CASE GateRefuses
    BY <1>1, <2>1, ProvSessionAssumption DEF GateRefuses, Works
  <2>2. CASE PeerAsked
    <3>1. work' = [work EXCEPT !.stage = "asked"]
      BY <2>2 DEF PeerAsked
    <3> QED
      BY <1>1, <2>2, <3>1, ProvSessionAssumption DEF Works
  <2>3. CASE GatePasses
    <3>1. work' = [work EXCEPT !.stage = "passed"]
      BY <2>3 DEF GatePasses
    <3> QED
      BY <1>1, <2>3, <3>1, ProvSessionAssumption DEF Works
  <2>4. CASE OperationEnds
    <3>1. PICK ok \in BOOLEAN : work' = [work EXCEPT !.stage = "done", !.ok = ok]
      BY <2>4 DEF OperationEnds
    <3> QED
      BY <1>1, <3>1, ProvSessionAssumption DEF Works
  <2> QED
    BY <2>1, <2>2, <2>3, <2>4
<1>3. \/ peerEpoch' = peerEpoch /\ nextEpoch' = nextEpoch
      \/ /\ work'.stage = "done" /\ peerEpoch[PeerOf(work.tx)] = 0 /\ nextEpoch < MaxPeerEpochs
         /\ nextEpoch' = nextEpoch + 1
         /\ peerEpoch' = [peerEpoch EXCEPT ![PeerOf(work.tx)] = nextEpoch + 1]
  BY <1>1 DEF GateRefuses, PeerAsked, GatePasses, OperationEnds, bluezVars, Works
<1>4. nextEpoch' \in 0..MaxPeerEpochs /\ peerEpoch' \in [Peers -> 0..MaxPeerEpochs]
  BY <1>1, <1>3
<1>5. TypeOK'
  BY <1>0, <1>1, <1>2, <1>4 DEF TypeOK, protocolVars
<1>6. EpochInv'
  BY <1>1, <1>3 DEF SessionInv, EpochInv
<1>7. CacheInv' /\ ActiveInv' /\ ResultIsOwn' /\ AcceptedIsRunning'
  BY <1>0, <1>2 DEF SessionInv, CacheInv, Completed, ActiveInv, ResultIsOwn,
                    AcceptedIsRunning, protocolVars
<1>8. ReadIsCurrent'
  <2> SUFFICES ASSUME snap # None PROVE ReadIsCurrent'
    BY <1>0 DEF ReadIsCurrent
  <2>1. snap.peer \in Peers /\ snap.epoch # 0 /\ snap.epoch = peerEpoch[snap.peer]
    BY DEF SessionInv, TypeOK, Snapshots, ReadIsCurrent
  <2>2. peerEpoch'[snap.peer] = peerEpoch[snap.peer]
    BY <1>1, <1>3, <2>1
  <2> QED
    BY <1>0, <2>2 DEF SessionInv, ReadIsCurrent
<1>9. CutInv'
  <2>1. nextEpoch' >= nextEpoch /\ nextEpoch' \in Nat
    BY <1>1, <1>3
  <2>2. work'.stage = "asked" /\ work.cut => work.wepoch < win.epoch
    BY <1>1, <1>2, <1>0 DEF SessionInv, CutInv, PeerAsked
  <2>3. work'.stage = "passed" => ~work.cut
    BY <1>1, <1>2, <1>0 DEF SessionInv, CutInv, GatePasses, Works
  <2>4. work.wepoch <= win.epoch /\ work.cepoch <= nextEpoch /\ work.cepoch \in Nat
    BY <1>0, <1>1 DEF SessionInv, CutInv, Works
  <2> QED
    BY <1>0, <1>1, <1>2, <2>1, <2>2, <2>3, <2>4 DEF CutInv
<1> QED
  BY <1>5, <1>6, <1>7, <1>8, <1>9 DEF SessionInv

\* The final result replaces ACCEPTED wherever it was kept.
LEMMA WorkCompletedKeeps ==
  ASSUME SessionInv, WorkCompleted
  PROVE  SessionInv'
<1>0. /\ work # None /\ work' = None
      /\ UNCHANGED <<input, win, bluezVars, frag, expired, ran>>
  BY DEF WorkCompleted
<1>1. TypeOK /\ work \in Works
  BY <1>0 DEF SessionInv, TypeOK
<1>2. EpochInv' /\ CutInv'
  BY <1>0 DEF SessionInv, EpochInv, CutInv, bluezVars
<1>3. CASE active # None /\ PeerOf(active) = PeerOf(work.tx)
  <2> DEFINE final == [tx |-> active, window |-> work.wepoch,
                       status |-> IF work.ok THEN "SUCCEEDED" ELSE "FAILED"]
  <2>1. /\ snap' = None /\ result' = final /\ active' = None
        /\ cache' = [i \in DOMAIN cache |-> IF cache[i].tx = active
                                          THEN [cache[i] EXCEPT !.result = final]
                                          ELSE cache[i]]
        /\ closing' = (closing \/ (OneShot /\ work.ok))
    BY <1>3 DEF WorkCompleted, InvalidateResult
  <2>2. /\ active = work.tx /\ work.wepoch = win.epoch /\ PeerOf(active) = win.owner
        /\ active \in Transactions
    BY <1>1, <1>3 DEF SessionInv, ActiveInv, Works
  <2>3. /\ final \in Results /\ final.status # "ACCEPTED" /\ final.tx = active
        /\ final.window = win.epoch
    BY <1>1, <2>2 DEF Results, Works
  <2> HIDE DEF final
  <2>4. \A i \in DOMAIN cache :
          /\ cache'[i] \in Entries /\ cache'[i].tx = cache[i].tx
          /\ cache'[i].result = IF cache[i].tx = active THEN final ELSE cache[i].result
    <3> SUFFICES ASSUME NEW i \in DOMAIN cache
                 PROVE  /\ cache'[i] \in Entries /\ cache'[i].tx = cache[i].tx
                        /\ cache'[i].result = IF cache[i].tx = active THEN final
                                               ELSE cache[i].result
      OBVIOUS
    <3>1. cache[i] \in Entries
      BY <1>1, CacheEntries
    <3>2. cache'[i] = IF cache[i].tx = active THEN [cache[i] EXCEPT !.result = final]
                      ELSE cache[i]
      BY <2>1
    <3> QED
      BY <2>3, <3>1, <3>2 DEF Entries
  <2>5. /\ DOMAIN cache' = 1..Len(cache) /\ DOMAIN cache = 1..Len(cache) /\ Len(cache) \in Nat
    BY <1>1, <2>1, CacheEntries
  <2>6. cache' \in [1..Len(cache) -> Entries]
    BY <2>1, <2>4, <2>5
  <2>7. cache' \in Seq(Entries) /\ Len(cache') = Len(cache)
    BY <2>5, <2>6
  <2>8. TypeOK'
    <3>1. /\ cache' \in Seq([tx : Transactions, body : Bodies, result : Results])
          /\ Len(cache') <= CacheLimit
      BY <1>1, <2>7 DEF TypeOK, Entries
    <3>2. closing' \in BOOLEAN
      BY <2>1
    <3> QED
      BY <1>0, <1>1, <2>1, <2>3, <3>1, <3>2 DEF TypeOK, bluezVars
  <2>9. CacheInv'
    <3>1. \A i \in DOMAIN cache' :
            /\ cache'[i].result.tx = cache'[i].tx /\ cache'[i].result.window = win'.epoch
            /\ PeerOf(cache'[i].tx) = win'.owner
      BY <1>0, <2>3, <2>4, <2>5 DEF SessionInv, CacheInv
    <3>2. \A t \in ran' : \E i \in DOMAIN cache' : cache'[i].tx = t
      BY <1>0, <2>4, <2>5 DEF SessionInv, CacheInv, Completed
    <3> QED
      BY <3>1, <3>2 DEF CacheInv, Completed
  <2>10. ActiveInv' /\ ReadIsCurrent'
    BY <2>1 DEF ActiveInv, ReadIsCurrent
  <2>11. ResultIsOwn'
    BY <1>0, <2>1, <2>2, <2>3 DEF ResultIsOwn
  <2>12. AcceptedIsRunning'
    <3>1. \A i \in DOMAIN cache : cache[i].result.tx = cache[i].tx /\ cache[i].result # None
      BY <1>1, CacheEntries, ProvSessionAssumption DEF SessionInv, CacheInv
    <3>2. \A i \in DOMAIN cache : cache[i].result.status = "ACCEPTED" => cache[i].tx = active
      BY <3>1 DEF SessionInv, AcceptedIsRunning
    <3>3. \A i \in DOMAIN cache' : cache'[i].result.status # "ACCEPTED"
      BY <2>3, <2>4, <2>5, <3>2
    <3> QED
      BY <2>1, <2>3, <3>3 DEF AcceptedIsRunning
  <2> QED
    BY <1>2, <2>8, <2>9, <2>10, <2>11, <2>12 DEF SessionInv
<1>4. CASE ~(active # None /\ PeerOf(active) = PeerOf(work.tx))
  <2>1. active = None /\ UNCHANGED <<cache, active, result, snap, closing>>
    BY <1>4 DEF SessionInv, ActiveInv, WorkCompleted
  <2>2. TypeOK'
    BY <1>0, <1>1, <2>1 DEF TypeOK, bluezVars
  <2>3. CacheInv' /\ ActiveInv' /\ ResultIsOwn' /\ ReadIsCurrent'
    BY <1>0, <2>1 DEF SessionInv, CacheInv, Completed, ActiveInv, ResultIsOwn,
                      ReadIsCurrent, bluezVars
  <2>4. AcceptedIsRunning'
    <3>1. \A r \in {result} \cup {cache[i].result : i \in DOMAIN cache} :
            r # None /\ r.status = "ACCEPTED" => r.tx = None
      BY <2>1 DEF SessionInv, AcceptedIsRunning
    <3>2. \A r \in Results : r.tx # None
      BY ProvSessionAssumption DEF Results
    <3>3. \A r \in {result} \cup {cache[i].result : i \in DOMAIN cache} :
            r # None => r \in Results
      BY <1>1, CacheEntries DEF TypeOK
    <3>4. \A r \in {result} \cup {cache[i].result : i \in DOMAIN cache} :
            ~(r # None /\ r.status = "ACCEPTED")
      BY <3>1, <3>2, <3>3
    <3> QED
      BY <2>1, <3>4 DEF AcceptedIsRunning
  <2> QED
    BY <1>2, <2>2, <2>3, <2>4 DEF SessionInv
<1> QED
  BY <1>3, <1>4

\* A read begins, or its snapshot goes.
LEMMA ReadSteps ==
  ASSUME SessionInv, ReadEnds \/ \E p \in Peers : ReadResult(p)
  PROVE  SessionInv'
<1>0. UNCHANGED <<input, win, bluezVars, protocolVars, active, work, result, closing, ran>>
  BY DEF ReadEnds, ReadResult
<1>1. /\ EpochInv' /\ CacheInv' /\ ActiveInv' /\ CutInv' /\ ResultIsOwn'
      /\ AcceptedIsRunning'
  BY <1>0 DEF SessionInv, EpochInv, CacheInv, Completed, ActiveInv, CutInv,
              ResultIsOwn, AcceptedIsRunning, bluezVars, protocolVars
<1>2. CASE ReadEnds
  <2>1. snap' = None
    BY <1>2 DEF ReadEnds
  <2>2. TypeOK' /\ ReadIsCurrent'
    BY <1>0, <2>1 DEF SessionInv, TypeOK, ReadIsCurrent, bluezVars, protocolVars
  <2> QED
    BY <1>1, <2>2 DEF SessionInv
<1>3. ASSUME NEW p \in Peers, ReadResult(p) PROVE SessionInv'
  <2>1. /\ snap' = [peer |-> p, epoch |-> peerEpoch[p], value |-> result]
        /\ peerEpoch[p] # 0 /\ win.open /\ win.owner = p /\ result # None
    BY <1>3 DEF ReadResult
  <2>2. peerEpoch[p] \in 1..MaxPeerEpochs /\ result \in Results
    <3>1. peerEpoch[p] \in 0..MaxPeerEpochs /\ peerEpoch[p] # 0 /\ MaxPeerEpochs \in Nat
      BY <2>1, ProvSessionAssumption DEF SessionInv, TypeOK
    <3>2. result \in Results
      BY <2>1 DEF SessionInv, TypeOK
    <3> QED
      BY <3>1, <3>2
  <2>3. snap' \in Snapshots
    BY <2>1, <2>2 DEF Snapshots
  <2>4. TypeOK'
    BY <1>0, <2>3 DEF SessionInv, TypeOK, bluezVars, protocolVars
  <2>5. ReadIsCurrent'
    BY <1>0, <2>1 DEF ReadIsCurrent, bluezVars
  <2> QED
    BY <1>1, <2>4, <2>5 DEF SessionInv
<1> QED
  BY <1>2, <1>3
-----------------------------------------------------------------------------
(* The theorems.                                                           *)

\* Every step keeps the invariant.
LEMMA NextKeeps == SessionInv /\ [Next]_vars => SessionInv'
<1> SUFFICES ASSUME SessionInv, [Next]_vars PROVE SessionInv'
  OBVIOUS
<1>1. CASE UNCHANGED vars
  <2>1. /\ UNCHANGED <<win, bluezVars, protocolVars, active, work, result, snap, ran>>
        /\ input' \in BOOLEAN /\ closing' \in BOOLEAN
    BY <1>1 DEF vars, SessionInv, TypeOK
  <2> QED
    BY <2>1, Elsewhere
<1>2. CASE HoldElapsed \/ InputLost \/ ExpiryTick \/ CloseOneShot
  BY <1>2, WindowSteps
<1>3. CASE BluezAppears
  BY <1>3, BluezAppearsKeeps
<1>4. CASE BluezVanishes
  BY <1>4, BluezVanishesKeeps
<1>5. CASE GateRefuses \/ PeerAsked \/ GatePasses \/ OperationEnds
  BY <1>5, WorkerSteps
<1>6. CASE WorkCompleted
  BY <1>6, WorkCompletedKeeps
<1>7. CASE ReadEnds \/ \E p \in Peers : ReadResult(p)
  BY <1>7, ReadSteps
<1>8. ASSUME NEW p \in Peers, LinkChanges(p) \/ BondChanges(p) PROVE SessionInv'
  BY <1>8, PeerChanges
<1>9. ASSUME NEW p \in Peers, PropertiesChanged(p) PROVE SessionInv'
  BY <1>9, PropertiesChangedKeeps
<1>10. ASSUME NEW p \in Peers, WriteAgentBusy(p) PROVE SessionInv'
  <2>1. TypeOK /\ frag' \in [Keys -> Buffers \cup {None}] /\ expired' \subseteq Transactions
    BY <1>10, DropPeerTyped DEF SessionInv, WriteAgentBusy
  <2> QED
    BY <1>10, <2>1, OnlyFragments DEF WriteAgentBusy
<1>11. ASSUME NEW p \in Peers, NEW f \in Frames, WriteDropped(p, f) \/ WriteFragment(p, f)
       PROVE  SessionInv'
  BY <1>11, FragmentWrites
<1>12. ASSUME NEW p \in Peers, NEW f \in Frames, WriteUnauthorized(p, f) PROVE SessionInv'
  BY <1>12, WriteUnauthorizedKeeps
<1>13. ASSUME NEW p \in Peers, NEW f \in Frames, WriteReplay(p, f) PROVE SessionInv'
  BY <1>13, WriteReplayKeeps
<1>14. ASSUME NEW p \in Peers, NEW f \in Frames, WriteComplete(p, f) PROVE SessionInv'
  BY <1>14, WriteCompleteKeeps
<1>15. CASE \/ \E k \in Keys : FragmentsExpire(k)
            \/ \E tx \in Transactions : MarkerExpires(tx)
  BY <1>15, ExpirySteps
<1>16. ASSUME NEW p \in Peers, FirstRequest(p) PROVE SessionInv'
  BY <1>16, FirstRequestKeeps
<1> QED
  BY <1>1, <1>2, <1>3, <1>4, <1>5, <1>6, <1>7, <1>8, <1>9, <1>10, <1>11, <1>12,
     <1>13, <1>14, <1>15, <1>16 DEF Next

\* The session's inductive invariant holds throughout.
THEOREM SessionInvariant == Spec => []SessionInv
BY InitSession, NextKeeps, PTL DEF Spec

\* What OperationResult shows was made in this window for its owner, for any
\* number of peers and windows: window_changed and bluez_lost leave nothing.
THEOREM ResultBelongsToOwner == Spec => []ResultIsOwn
<1>1. SessionInv => ResultIsOwn
  BY DEF SessionInv
<1> QED
  BY <1>1, SessionInvariant, PTL

\* ACCEPTED always means an operation that runs: no peer polls for an answer
\* that cannot come (result_published, the cache).
THEOREM AcceptedHasWorker == Spec => []AcceptedIsRunning
<1>1. SessionInv => AcceptedIsRunning
  BY DEF SessionInv
<1> QED
  BY <1>1, SessionInvariant, PTL

\* A continued read never mixes results, windows or connections (gatt_read.c).
THEOREM ContinuedReadIsCurrent == Spec => []ReadIsCurrent
<1>1. SessionInv => ReadIsCurrent
  BY DEF SessionInv
<1> QED
  BY <1>1, SessionInvariant, PTL

\* The commit gate refuses whatever the daemon had a reason to refuse, although
\* it looks at BlueZ and at the window in two steps (authorize_commit).
THEOREM GateRefusesCut == Spec => []NoCommitAfterCut
<1>1. SessionInv => NoCommitAfterCut
  BY DEF SessionInv, CutInv, NoCommitAfterCut
<1> QED
  BY <1>1, SessionInvariant, PTL

\* A transaction the session remembers is never submitted again, also across
\* reconnections (complete_transaction).
THEOREM RetryNeverRepeats == Spec => RetryRunsOnce
<1>1. SessionInv /\ [Next]_vars => [~Busy /\ Busy' => work'.tx \notin ran]_vars
  <2> SUFFICES ASSUME SessionInv, Next, work = None, work' # None
               PROVE  work'.tx \notin ran
    OBVIOUS
  <2>1. PICK p \in Peers, f \in Frames : WriteComplete(p, f)
    BY DEF Next, HoldElapsed, InputLost, ExpiryTick, CloseOneShot, CloseWindow, ChangeWindow,
           ForgetSession, Cut, BluezAppears, BluezVanishes, GateRefuses, PeerAsked,
           GatePasses, OperationEnds, WorkCompleted, ReadEnds, LinkChanges, BondChanges, FirstRequest,
           PropertiesChanged, WriteAgentBusy, ReadResult, WriteDropped, WriteUnauthorized,
           WriteFragment, WriteReplay, FragmentsExpire, MarkerExpires
  <2>2. Completed(<<<<p, f.char>>, f.id>>) = {} /\ work'.tx = <<<<p, f.char>>, f.id>>
    BY <2>1 DEF WriteComplete, Disposition
  <2> QED
    BY <2>2 DEF SessionInv, CacheInv
<1> QED
  BY <1>1, SessionInvariant, PTL DEF Spec, RetryRunsOnce
=============================================================================
