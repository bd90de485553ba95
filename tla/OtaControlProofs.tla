-------------------------- MODULE OtaControlProofs --------------------------
(***************************************************************************)
(* Accepted requests and remembered decisions, for any number of ids,      *)
(* requests and cache entries: ControlInv is inductive.                    *)
(***************************************************************************)
EXTENDS OtaControl, FiniteSetTheorems, TLAPS

Decisions == [id : Ids \cup {NoId}, accepted : BOOLEAN]

\* Positions in the ring, counted from an entry of it.
LEMMA RankIs ==
  ASSUME NEW n \in Nat \ {0}, NEW c \in 0..(n - 1), NEW i \in 0..(n - 1)
  PROVE  (i - c) % n = IF i >= c THEN i - c ELSE i - c + n
<1>1. CASE i >= c
  <2>1. i - c \in 0..(n - 1)
    BY <1>1
  <2>2. \A x \in 0..(n - 1) : x % n = x
    OBVIOUS
  <2> QED
    BY <1>1, <2>1, <2>2
<1>2. CASE i < c
  <2>1. i - c \in Int /\ i - c < 0 /\ 0 <= (i - c) + n
    BY <1>2
  <2>2. \A x \in Int : x < 0 /\ 0 <= x + n => x % n = x + n
    OBVIOUS
  <2> QED
    BY <1>2, <2>1, <2>2
<1> QED
  BY <1>1, <1>2

\* The entry after another one.
LEMMA SuccessorIs ==
  ASSUME NEW n \in Nat \ {0}, NEW c \in 0..(n - 1)
  PROVE  (c + 1) % n = IF c + 1 = n THEN 0 ELSE c + 1
<1>1. \A x \in 0..(n - 1) : x % n = x
  OBVIOUS
<1>2. n % n = 0
  OBVIOUS
<1> QED
  BY <1>1, <1>2

\* When the ring moves on, the entry just written is the youngest one, and the
\* others keep their order.
LEMMA RingMoves ==
  ASSUME NEW n \in Nat \ {0}, NEW c \in 0..(n - 1), NEW d, d = (c + 1) % n
  PROVE  /\ d \in 0..(n - 1)
         /\ \A i \in 0..(n - 1) :
              /\ (i - c) % n \in 0..(n - 1)
              /\ i = c => (i - c) % n = 0 /\ (i - d) % n = n - 1
              /\ i # c => (i - c) % n > 0 /\ (i - d) % n = ((i - c) % n) - 1
<1>1. d = IF c + 1 = n THEN 0 ELSE c + 1
  BY SuccessorIs
<1>2. d \in 0..(n - 1)
  BY <1>1
<1>3. ASSUME NEW i \in 0..(n - 1)
      PROVE  /\ (i - c) % n \in 0..(n - 1)
             /\ i = c => (i - c) % n = 0 /\ (i - d) % n = n - 1
             /\ i # c => (i - c) % n > 0 /\ (i - d) % n = ((i - c) % n) - 1
  <2>1. (i - c) % n = IF i >= c THEN i - c ELSE i - c + n
    BY RankIs
  <2>2. (i - d) % n = IF i >= d THEN i - d ELSE i - d + n
    BY <1>2, RankIs
  <2> PICK x : x = (i - c) % n
    OBVIOUS
  <2> PICK y : y = (i - d) % n
    OBVIOUS
  <2>3. x = (IF i >= c THEN i - c ELSE i - c + n) /\ y = (IF i >= d THEN i - d ELSE i - d + n)
    BY <2>1, <2>2
  <2>4. /\ x \in 0..(n - 1) /\ (i = c => x = 0 /\ y = n - 1)
        /\ i # c => x > 0 /\ y = x - 1
    BY <1>1, <2>3
  <2> QED
    BY <2>4
<1> QED
  BY <1>2, <1>3

\* What the variables hold, for the steps below.
LEMMA Typed ==
  ASSUME TypeOK
  PROVE  /\ CONTROL_CACHE_SIZE \in Nat \ {0} /\ Entries = 0..(CONTROL_CACHE_SIZE - 1)
         /\ cache \in [Entries -> Decisions] /\ cache_next \in Entries
         /\ \A i \in Entries : cache[i].id \in Ids \cup {NoId} /\ cache[i].accepted \in BOOLEAN
         /\ NoId \notin Ids
         /\ accepts \in [Ids -> Nat] /\ answers \in [Ids -> SUBSET BOOLEAN]
         /\ cycles \in [Ids -> Nat] /\ forgotten \subseteq Ids
BY OtaControlAssumption DEF TypeOK, Entries, Decisions

\* The fresh agent satisfies the invariant.
LEMMA InitControl == Init => ControlInv
<1> SUFFICES ASSUME Init PROVE ControlInv
  OBVIOUS
<1>1. CONTROL_CACHE_SIZE \in Nat \ {0} /\ 0 \in Entries /\ 0 \in 0..MaxRequests
  BY OtaControlAssumption DEF Entries
<1>2. NoEntry \in Decisions /\ NoEntry.id = NoId
  BY DEF NoEntry, Decisions
<1>3. cache \in [Entries -> Decisions] /\ \A i \in Entries : cache[i].id = NoId
  BY <1>2 DEF Init
<1>4. {stopping, signal_stopping, closing, idle_eligible, pending, wake} \subseteq BOOLEAN
  BY DEF Init
<1>5. TypeOK
  BY <1>1, <1>3, <1>4 DEF Init, TypeOK, MainPoints, Decisions
<1>6. RequestInv /\ RingInv /\ RememberedInv /\ AcceptedIsConsumedOnce
  BY <1>3 DEF Init, RequestInv, RingInv, RememberedInv, AcceptedIsConsumedOnce
<1> QED
  BY <1>5, <1>6 DEF ControlInv

\* Steps that neither decide nor consume.
LEMMA OthersKeep ==
  ASSUME ControlInv, TypeOK', UNCHANGED <<pending, asker, cycles, cacheVars>>,
         server' = server \/ (server'.pc = "decide" /\ server'.id \in Ids)
           \/ server'.pc \in {"accept", "gone"}
  PROVE  ControlInv'
<1>1. UNCHANGED <<pending, asker, cycles, cache, cache_next, accepts, answers, forgotten>>
  BY DEF cacheVars
<1>2. RequestInv'
  BY <1>1 DEF ControlInv, RequestInv
<1>3. RingInv' /\ RememberedInv' /\ AcceptedIsConsumedOnce'
  BY <1>1 DEF ControlInv, RingInv, Rank, RememberedInv, Cached, AcceptedIsConsumedOnce
<1> QED
  BY <1>2, <1>3 DEF ControlInv

\* The main thread outside its critical section that consumes.
LEMMA MainKeeps ==
  ASSUME ControlInv,
         \/ CycleEnds \/ LoopTest \/ DrainFirst \/ Arm \/ PollWakes \/ PollTimesOut \/ PollFails
         \/ DrainAgain \/ AfterWait \/ Close \/ Join
  PROVE  ControlInv'
<1> USE DEF CycleEnds, LoopTest, DrainFirst, DrainAgain, Drain, Arm, PollWakes, PollTimesOut,
            PollFails, AfterWait, Close, Join
<1>0. /\ TypeOK
      /\ {stopping, signal_stopping, closing, idle_eligible, pending, wake} \subseteq BOOLEAN
  BY DEF ControlInv, TypeOK
<1>1. /\ UNCHANGED <<server, pending, asker, cycles, requests>> /\ UNCHANGED cacheVars
      /\ UNCHANGED <<stopping, signal_stopping, handler>>
  BY DEF MainUnchanged, flagVars, stopVars
<1>2. main' \in MainPoints
  BY DEF MainPoints
<1>3. closing' \in BOOLEAN /\ wake' \in BOOLEAN
  BY <1>0 DEF stopVars
<1>4. idle_eligible' \in BOOLEAN
  BY <1>0 DEF flagVars
<1>5. TypeOK'
  BY <1>0, <1>1, <1>2, <1>3, <1>4 DEF TypeOK, cacheVars
<1> QED
  BY <1>1, <1>5, OthersKeep

\* The server thread outside its decision.
LEMMA ServerKeeps ==
  ASSUME ControlInv, (\E id \in Ids : Accept(id)) \/ WakeMain \/ ServerStops
  PROVE  ControlInv'
<1>0. /\ TypeOK
      /\ {stopping, signal_stopping, closing, idle_eligible, pending, wake} \subseteq BOOLEAN
  BY DEF ControlInv, TypeOK
<1>1. UNCHANGED <<main, stopping, signal_stopping, closing, handler, idle_eligible, pending, asker,
                  cycles>> /\ UNCHANGED cacheVars
  BY DEF Accept, WakeMain, ServerStops, ServerUnchanged, flagVars, stopVars
<1>2. wake' \in BOOLEAN
  BY <1>0 DEF Accept, WakeMain, ServerStops
<1>3. requests' \in 0..MaxRequests
  BY <1>0, OtaControlAssumption DEF Accept, WakeMain, ServerStops, TypeOK
<1>4. /\ server' \in [pc : {"accept", "decide", "wake", "gone"}, id : Ids \cup {NoId}]
      /\ (server'.pc = "decide" /\ server'.id \in Ids) \/ server'.pc \in {"accept", "gone"}
  BY DEF Accept, WakeMain, ServerStops
<1>5. TypeOK'
  BY <1>0, <1>1, <1>2, <1>3, <1>4 DEF TypeOK, cacheVars
<1> QED
  BY <1>1, <1>4, <1>5, OthersKeep

\* The signal handler.
LEMMA SignalKeeps ==
  ASSUME ControlInv, SignalArrives \/ SignalFlag \/ SignalWakes
  PROVE  ControlInv'
<1>0. /\ TypeOK
      /\ {stopping, signal_stopping, closing, idle_eligible, pending, wake} \subseteq BOOLEAN
  BY DEF ControlInv, TypeOK
<1>1. UNCHANGED <<main, server, closing, idle_eligible, pending, asker, requests, cycles>>
      /\ UNCHANGED cacheVars
  BY DEF SignalArrives, SignalFlag, SignalWakes, HandlerUnchanged, flagVars
<1>2. stopping' \in BOOLEAN /\ signal_stopping' \in BOOLEAN /\ wake' \in BOOLEAN
  BY <1>0 DEF SignalArrives, SignalFlag, SignalWakes
<1>3. handler' \in {"none", "entered", "flagged", "done"}
  BY DEF SignalArrives, SignalFlag, SignalWakes
<1>4. TypeOK'
  BY <1>0, <1>1, <1>2, <1>3 DEF TypeOK, cacheVars
<1> QED
  BY <1>1, <1>4, OthersKeep

\* The last critical section of the wait: the pending request is consumed.
LEMMA ConsumeKeeps ==
  ASSUME ControlInv, Consume
  PROVE  ControlInv'
<1>0. /\ TypeOK /\ RequestInv /\ AcceptedIsConsumedOnce
      /\ {stopping, signal_stopping, closing, idle_eligible, pending, wake} \subseteq BOOLEAN
  BY DEF ControlInv, TypeOK
<1>1. /\ UNCHANGED <<server, requests, stopping, signal_stopping, closing, handler, wake>>
      /\ UNCHANGED <<cache, cache_next, accepts, answers, forgotten>>
      /\ idle_eligible' = FALSE /\ pending' = FALSE /\ asker' = NoId /\ main' = "waited"
      /\ cycles' = IF pending THEN [cycles EXCEPT ![asker] = @ + 1] ELSE cycles
  BY DEF Consume, MainUnchanged, stopVars, cacheVars
<1>2. accepts \in [Ids -> Nat] /\ cycles \in [Ids -> Nat] /\ (pending => asker \in Ids)
  BY <1>0, Typed DEF RequestInv
<1>3. cycles' \in [Ids -> Nat] /\ \A id \in Ids : accepts[id] = cycles'[id]
  <2>1. CASE pending
    <3>1. cycles' = [cycles EXCEPT ![asker] = cycles[asker] + 1] /\ asker \in Ids
      BY <1>1, <1>2, <2>1
    <3>2. \A id \in Ids : accepts[id] = cycles[id] + (IF asker = id THEN 1 ELSE 0)
      BY <1>0, <2>1 DEF AcceptedIsConsumedOnce
    <3> QED
      BY <1>2, <3>1, <3>2
  <2>2. CASE ~pending
    BY <1>0, <1>1, <1>2, <2>2 DEF AcceptedIsConsumedOnce
  <2> QED
    BY <2>1, <2>2
<1>4. {stopping', signal_stopping', closing', idle_eligible', pending', wake'} \subseteq BOOLEAN
  BY <1>0, <1>1
<1>5. TypeOK'
  BY <1>0, <1>1, <1>3, <1>4 DEF TypeOK, MainPoints
<1>6. RequestInv' /\ RingInv' /\ RememberedInv'
  BY <1>1 DEF ControlInv, RequestInv, RingInv, Rank, RememberedInv, Cached
<1>7. AcceptedIsConsumedOnce'
  BY <1>1, <1>2, <1>3 DEF AcceptedIsConsumedOnce
<1> QED
  BY <1>5, <1>6, <1>7 DEF ControlInv

\* Only the oldest remembered decision expires, and its id is forgotten.
LEMMA ExpireKeeps ==
  ASSUME ControlInv, Expire
  PROVE  ControlInv'
<1>0. /\ TypeOK /\ RingInv /\ RememberedInv
      /\ {stopping, signal_stopping, closing, idle_eligible, pending, wake} \subseteq BOOLEAN
  BY DEF ControlInv, TypeOK
<1>1. /\ UNCHANGED <<main, stopping, signal_stopping, closing, handler, cycles>>
      /\ UNCHANGED <<server, idle_eligible, pending, asker, wake, cache_next, accepts, answers,
                     requests>>
  BY DEF Expire, ServerUnchanged, stopVars, flagVars
<1>2. PICK e \in Entries :
        /\ cache[e].id # NoId
        /\ \A j \in Entries : Rank(j) < Rank(e) => cache[j].id = NoId
        /\ cache' = [cache EXCEPT ![e] = NoEntry]
        /\ forgotten' = forgotten \cup {cache[e].id}
  BY DEF Expire
<1>3. /\ cache \in [Entries -> Decisions] /\ cache[e].id \in Ids
      /\ NoEntry \in Decisions /\ NoEntry.id = NoId /\ forgotten \subseteq Ids
  BY <1>0, <1>2, Typed DEF NoEntry, Decisions
<1>4. /\ cache' \in [Entries -> Decisions] /\ cache'[e] = NoEntry
      /\ \A i \in Entries \ {e} : cache'[i] = cache[i]
      /\ forgotten' \subseteq Ids
  BY <1>2, <1>3
<1>5. TypeOK'
  BY <1>0, <1>1, <1>4 DEF TypeOK, Decisions
<1>6. \A i \in Entries : Rank(i)' = Rank(i)
  BY <1>1 DEF Rank
<1>7. RingInv'
  <2>1. ASSUME NEW i \in Entries, NEW j \in Entries, cache'[i].id # NoId, Rank(i) < Rank(j)
        PROVE  cache'[j].id # NoId
    <3>1. i # e /\ cache[i].id # NoId
      BY <1>3, <1>4, <2>1
    <3>2. cache[j].id # NoId /\ j # e
      BY <1>0, <1>2, <2>1, <3>1 DEF RingInv
    <3> QED
      BY <1>4, <3>2
  <2>2. ASSUME NEW i \in Entries, NEW j \in Entries, cache'[i].id = cache'[j].id, cache'[i].id # NoId
        PROVE  i = j
    BY <1>0, <1>3, <1>4, <2>2 DEF RingInv
  <2> QED
    BY <1>6, <2>1, <2>2 DEF RingInv
<1>8. RememberedInv'
  <2> SUFFICES ASSUME NEW id \in Ids, id \notin forgotten'
               PROVE  \/ accepts[id] = 0 /\ answers[id] = {}
                      \/ \E i \in Entries : /\ cache'[i].id = id
                                            /\ accepts[id] <= 1 /\ answers[id] = {cache'[i].accepted}
    BY <1>1 DEF RememberedInv, Cached
  <2>1. id \notin forgotten /\ id # cache[e].id
    BY <1>2
  <2>2. \/ accepts[id] = 0 /\ answers[id] = {}
        \/ \E i \in Entries : cache[i].id = id /\ accepts[id] <= 1 /\ answers[id] = {cache[i].accepted}
    BY <1>0, <2>1 DEF RememberedInv, Cached
  <2> QED
    BY <1>4, <2>1, <2>2
<1>9. RequestInv' /\ AcceptedIsConsumedOnce'
  BY <1>1 DEF ControlInv, RequestInv, AcceptedIsConsumedOnce
<1> QED
  BY <1>5, <1>7, <1>8, <1>9 DEF ControlInv

\* An entry that is overwritten held nothing, or the ring was full.
LEMMA Overwritten ==
  ASSUME TypeOK, RingInv, Cached(NoId) # {}
  PROVE  cache[cache_next].id = NoId
<1>1. PICK e \in Entries : cache[e].id = NoId
  BY DEF Cached
<1>2. Rank(cache_next) = 0 /\ (e # cache_next => Rank(e) > 0)
  <2> PICK d : d = (cache_next + 1) % CONTROL_CACHE_SIZE
    OBVIOUS
  <2> QED
    BY Typed, RingMoves DEF Rank
<1>3. ASSUME e # cache_next, cache[cache_next].id # NoId PROVE FALSE
  BY <1>1, <1>2, <1>3, Typed DEF RingInv
<1> QED
  BY <1>1, <1>3

\* A repeated request gets the remembered answer.
LEMMA RepeatKeeps ==
  ASSUME ControlInv, Decide, Cached(server.id) # {}
  PROVE  ControlInv'
<1>0. /\ TypeOK /\ RequestInv /\ RingInv /\ RememberedInv
      /\ {stopping, signal_stopping, closing, idle_eligible, pending, wake} \subseteq BOOLEAN
  BY DEF ControlInv, TypeOK
<1> PICK id : id = server.id
  OBVIOUS
<1>1. id \in Ids
  BY <1>0 DEF RequestInv, Decide
<1>2. /\ UNCHANGED <<main, stopping, signal_stopping, closing, handler, cycles, wake, requests>>
      /\ UNCHANGED <<idle_eligible, pending, asker, cache, cache_next, accepts, forgotten>>
      /\ server' = [pc |-> "accept", id |-> NoId]
      /\ answers' = [answers EXCEPT ![id] = answers[id] \cup {cache[i].accepted : i \in Cached(id)}]
  BY DEF Decide, ServerUnchanged, stopVars, flagVars
<1>3. PICK e \in Entries : cache[e].id = id /\ Cached(id) = {e}
  <2>1. PICK e \in Entries : cache[e].id = id
    BY DEF Cached
  <2>2. Cached(id) = {e}
    BY <1>0, <1>1, <2>1, Typed DEF RingInv, Cached
  <2> QED
    BY <2>1, <2>2
<1>4. cache[e].accepted \in BOOLEAN /\ answers \in [Ids -> SUBSET BOOLEAN]
  BY <1>0, Typed
<1>5. /\ answers' \in [Ids -> SUBSET BOOLEAN]
      /\ answers'[id] = answers[id] \cup {cache[e].accepted}
      /\ \A other \in Ids \ {id} : answers'[other] = answers[other]
  <2>1. {cache[i].accepted : i \in Cached(id)} = {cache[e].accepted}
    BY <1>3
  <2>2. answers' = [answers EXCEPT ![id] = answers[id] \cup {cache[e].accepted}]
    BY <1>2, <2>1
  <2> QED
    BY <1>1, <1>4, <2>2
<1>6. server' \in [pc : {"accept", "decide", "wake", "gone"}, id : Ids \cup {NoId}] /\ server'.pc = "accept"
  BY <1>2
<1>7. TypeOK'
  BY <1>0, <1>2, <1>5, <1>6 DEF TypeOK
<1>8. RequestInv' /\ RingInv' /\ AcceptedIsConsumedOnce'
  BY <1>2, <1>6 DEF ControlInv, RequestInv, RingInv, Rank, AcceptedIsConsumedOnce
<1>9. RememberedInv'
  <2> SUFFICES ASSUME NEW other \in Ids, other \notin forgotten'
               PROVE  \/ accepts'[other] = 0 /\ answers'[other] = {}
                      \/ \E i \in Entries : /\ cache'[i].id = other /\ accepts'[other] <= 1
                                            /\ answers'[other] = {cache'[i].accepted}
    BY DEF RememberedInv, Cached
  <2>0. other \notin forgotten /\ accepts' = accepts /\ cache' = cache
    BY <1>2
  <2>1. \/ accepts[other] = 0 /\ answers[other] = {}
        \/ \E i \in Entries : /\ cache[i].id = other /\ accepts[other] <= 1
                              /\ answers[other] = {cache[i].accepted}
    BY <1>0, <2>0 DEF RememberedInv, Cached
  <2>2. CASE other # id
    BY <1>5, <2>0, <2>1, <2>2
  <2>3. CASE other = id
    <3>1. \A i \in Entries : cache[i].id = id => i = e
      BY <1>3 DEF Cached
    <3>2. accepts[id] <= 1 /\ answers'[id] = {cache[e].accepted}
      BY <1>5, <2>1, <2>3, <3>1
    <3> QED
      BY <1>3, <2>0, <2>3, <3>2
  <2> QED
    BY <2>2, <2>3
<1> QED
  BY <1>7, <1>8, <1>9 DEF ControlInv

\* A fresh decision goes into the ring; what it overwrites is forgotten.
LEMMA DecisionKeeps ==
  ASSUME ControlInv, Decide, Cached(server.id) = {}
  PROVE  ControlInv'
<1>0. /\ TypeOK /\ RequestInv /\ RingInv /\ RememberedInv /\ AcceptedIsConsumedOnce
      /\ {stopping, signal_stopping, closing, idle_eligible, pending, wake} \subseteq BOOLEAN
  BY DEF ControlInv, TypeOK
<1> PICK id : id = server.id
  OBVIOUS
<1> PICK c : c = cache_next
  OBVIOUS
<1> PICK n : n = CONTROL_CACHE_SIZE
  OBVIOUS
<1> PICK ok : ok = Eligible
  OBVIOUS
<1>1. /\ id \in Ids /\ c \in Entries /\ n \in Nat \ {0} /\ Entries = 0..(n - 1) /\ NoId \notin Ids
      /\ server.pc = "decide"
  BY <1>0, Typed DEF RequestInv, Decide
<1>2. ok \in BOOLEAN /\ (ok => ~pending)
  BY DEF Eligible
<1>3. /\ UNCHANGED <<main, stopping, signal_stopping, closing, handler, cycles, wake, requests>>
      /\ cache' = [cache EXCEPT ![c] = [id |-> id, accepted |-> ok]]
      /\ cache_next' = (c + 1) % n
      /\ answers' = [answers EXCEPT ![id] = answers[id] \cup {ok}]
      /\ forgotten' = IF Cached(NoId) = {} THEN forgotten \cup {cache[c].id} ELSE forgotten
  BY DEF Decide, ServerUnchanged, stopVars, NextEntry
<1>4. /\ ok => /\ pending' = TRUE /\ idle_eligible' = FALSE /\ asker' = id
               /\ accepts' = [accepts EXCEPT ![id] = accepts[id] + 1]
               /\ server' = [server EXCEPT !.pc = "wake"]
      /\ ~ok => /\ UNCHANGED <<idle_eligible, pending, asker, accepts>>
                /\ server' = [pc |-> "accept", id |-> NoId]
  BY DEF Decide, flagVars
<1>5. /\ cache \in [Entries -> Decisions] /\ accepts \in [Ids -> Nat] /\ cycles \in [Ids -> Nat]
      /\ answers \in [Ids -> SUBSET BOOLEAN] /\ forgotten \subseteq Ids
      /\ \A i \in Entries : cache[i].id \in Ids \cup {NoId}
  BY <1>0, Typed
<1>6. /\ cache' \in [Entries -> Decisions] /\ cache'[c].id = id /\ cache'[c].accepted = ok
      /\ \A i \in Entries \ {c} : cache'[i] = cache[i]
  <2> PICK entry : entry = [id |-> id, accepted |-> ok]
    OBVIOUS
  <2>1. entry \in Decisions /\ entry.id = id /\ entry.accepted = ok
    BY <1>1, <1>2 DEF Decisions
  <2>2. cache' = [cache EXCEPT ![c] = entry]
    BY <1>3
  <2> QED
    BY <1>1, <1>5, <2>1, <2>2
<1> PICK d : d = cache_next'
  OBVIOUS
<1>d. /\ d \in 0..(n - 1)
      /\ \A i \in 0..(n - 1) : /\ (i - c) % n \in 0..(n - 1)
                               /\ i = c => (i - c) % n = 0 /\ (i - d) % n = n - 1
                               /\ i # c => (i - c) % n > 0 /\ (i - d) % n = ((i - c) % n) - 1
  <2>1. d = (c + 1) % n
    BY <1>3
  <2>2. c \in 0..(n - 1) /\ n \in Nat \ {0}
    BY <1>1
  <2>3. \A e : e = (c + 1) % n =>
          /\ e \in 0..(n - 1)
          /\ \A i \in 0..(n - 1) : /\ (i - c) % n \in 0..(n - 1)
                                   /\ i = c => (i - c) % n = 0 /\ (i - e) % n = n - 1
                                   /\ i # c => (i - c) % n > 0 /\ (i - e) % n = ((i - c) % n) - 1
    BY <2>2, RingMoves, Zenon
  <2> QED
    BY <2>1, <2>3, Zenon
<1>7. ASSUME NEW i \in Entries
      PROVE  /\ Rank(i) \in 0..(n - 1)
             /\ i = c => Rank(i)' = n - 1
             /\ i # c => Rank(i)' = Rank(i) - 1
  <2>1. Rank(i) = (i - c) % n /\ Rank(i)' = (i - d) % n
    BY DEF Rank
  <2>2. /\ (i - c) % n \in 0..(n - 1)
        /\ i = c => (i - d) % n = n - 1
        /\ i # c => (i - d) % n = ((i - c) % n) - 1
    BY <1>1, <1>d
  <2> QED
    BY <2>1, <2>2
<1>8. /\ answers' \in [Ids -> SUBSET BOOLEAN] /\ answers'[id] = answers[id] \cup {ok}
      /\ \A other \in Ids \ {id} : answers'[other] = answers[other]
  BY <1>1, <1>2, <1>3, <1>5
<1>9. /\ accepts' \in [Ids -> Nat] /\ accepts'[id] = accepts[id] + (IF ok THEN 1 ELSE 0)
      /\ \A other \in Ids \ {id} : accepts'[other] = accepts[other]
  <2>1. CASE ok
    <3>1. accepts' = [accepts EXCEPT ![id] = accepts[id] + 1]
      BY <1>4, <2>1
    <3>2. /\ accepts' \in [Ids -> Nat] /\ accepts'[id] = accepts[id] + 1
          /\ \A other \in Ids \ {id} : accepts'[other] = accepts[other]
      BY <1>1, <1>5, <3>1
    <3> QED
      BY <2>1, <3>2
  <2>2. CASE ~ok
    BY <1>1, <1>4, <1>5, <2>2
  <2> QED
    BY <1>2, <2>1, <2>2
<1>10. forgotten' \subseteq Ids
  <2>1. Cached(NoId) = {} => cache[c].id \in Ids
    BY <1>1, <1>5 DEF Cached
  <2> QED
    BY <1>3, <1>5, <2>1
<1>11. /\ server' \in [pc : {"accept", "decide", "wake", "gone"}, id : Ids \cup {NoId}]
       /\ server'.pc = "accept" \/ server'.id \in Ids
       /\ asker' \in Ids \cup {NoId} /\ (pending' => asker' \in Ids)
       /\ pending' \in BOOLEAN /\ idle_eligible' \in BOOLEAN
  <2>0. server \in [pc : {"accept", "decide", "wake", "gone"}, id : Ids \cup {NoId}]
    BY <1>0 DEF TypeOK
  <2>1. CASE ok
    BY <1>1, <1>4, <2>0, <2>1
  <2>2. CASE ~ok
    BY <1>0, <1>4, <2>2 DEF TypeOK, RequestInv
  <2> QED
    BY <1>2, <2>1, <2>2
<1>12. {stopping', signal_stopping', closing', idle_eligible', pending', wake'} \subseteq BOOLEAN
  BY <1>0, <1>3, <1>11
<1>13. TypeOK'
  BY <1>0, <1>1, <1>3, <1>6, <1>d, <1>8, <1>9, <1>10, <1>11, <1>12 DEF TypeOK, Decisions
<1>14. RequestInv'
  BY <1>11 DEF RequestInv
<1>15. RingInv'
  <2>1. \A i \in Entries : cache[i].id # id
    BY DEF Cached
  <2>2. ASSUME NEW i \in Entries, NEW j \in Entries, cache'[i].id # NoId, Rank(i)' < Rank(j)'
        PROVE  cache'[j].id # NoId
    <3>1. CASE j = c
      BY <1>1, <1>6, <3>1
    <3>2. CASE j # c /\ i # c
      <4>1. Rank(i) < Rank(j) /\ cache[i].id # NoId
        <5>1. Rank(i) \in Int /\ Rank(j) \in Int
          BY <1>1, <1>7
        <5>2. Rank(i)' = Rank(i) - 1 /\ Rank(j)' = Rank(j) - 1
          BY <1>7, <3>2
        <5>3. cache'[i] = cache[i]
          BY <1>6, <3>2
        <5> QED
          BY <2>2, <5>1, <5>2, <5>3
      <4> QED
        BY <1>0, <1>6, <3>2, <4>1 DEF RingInv
    <3>3. CASE j # c /\ i = c
      <4>1. Rank(j) \in 0..(n - 1) /\ Rank(j)' = Rank(j) - 1 /\ Rank(i)' = n - 1
        <5>1. Rank(j) \in 0..(n - 1) /\ Rank(j)' = Rank(j) - 1
          BY <1>7, <3>3
        <5>2. Rank(i)' = n - 1
          BY <1>7, <3>3
        <5> QED
          BY <5>1, <5>2
      <4> QED
        BY <1>1, <2>2, <4>1
    <3> QED
      BY <3>1, <3>2, <3>3
  <2>3. ASSUME NEW i \in Entries, NEW j \in Entries, cache'[i].id = cache'[j].id, cache'[i].id # NoId
        PROVE  i = j
    BY <1>0, <1>6, <2>1, <2>3 DEF RingInv
  <2> QED
    BY <2>2, <2>3 DEF RingInv
<1>16. RememberedInv'
  <2> SUFFICES ASSUME NEW other \in Ids, other \notin forgotten'
               PROVE  \/ accepts'[other] = 0 /\ answers'[other] = {}
                      \/ \E i \in Entries : /\ cache'[i].id = other /\ accepts'[other] <= 1
                                            /\ answers'[other] = {cache'[i].accepted}
    BY DEF RememberedInv, Cached
  <2>1. other \notin forgotten
    BY <1>3
  <2>2. \/ accepts[other] = 0 /\ answers[other] = {}
        \/ \E i \in Entries : /\ cache[i].id = other /\ accepts[other] <= 1
                              /\ answers[other] = {cache[i].accepted}
    BY <1>0, <2>1 DEF RememberedInv, Cached
  <2>3. CASE other = id
    <3>1. accepts[id] = 0 /\ answers[id] = {}
      BY <2>2, <2>3 DEF Cached
    <3>2. accepts'[id] <= 1 /\ answers'[id] = {ok}
      BY <1>2, <1>8, <1>9, <3>1
    <3> QED
      BY <1>1, <1>6, <2>3, <3>2
  <2>4. CASE other # id
    <3>1. cache[c].id # other
      <4>1. Cached(NoId) # {} => cache[c].id = NoId
        BY <1>0, Overwritten
      <4> QED
        BY <1>1, <1>3, <4>1
    <3>2. accepts'[other] = accepts[other] /\ answers'[other] = answers[other]
      BY <1>8, <1>9, <2>4
    <3> QED
      BY <1>6, <2>2, <3>1, <3>2
  <2> QED
    BY <2>3, <2>4
<1>17. AcceptedIsConsumedOnce'
  <2> SUFFICES ASSUME NEW other \in Ids
               PROVE  accepts'[other] = cycles[other] + (IF pending' /\ asker' = other THEN 1 ELSE 0)
    BY <1>3 DEF AcceptedIsConsumedOnce
  <2>1. accepts[other] = cycles[other] + (IF pending /\ asker = other THEN 1 ELSE 0)
    BY <1>0 DEF AcceptedIsConsumedOnce
  <2>2. CASE ok
    <3>1. ~pending /\ pending' /\ asker' = id
      BY <1>2, <1>4, <2>2
    <3>2. accepts'[other] = accepts[other] + (IF other = id THEN 1 ELSE 0)
      BY <1>5, <1>9, <2>2
    <3> QED
      BY <1>5, <2>1, <3>1, <3>2
  <2>3. CASE ~ok
    <3>1. UNCHANGED <<pending, asker, accepts>>
      BY <1>4, <2>3
    <3> QED
      BY <2>1, <3>1
  <2> QED
    BY <1>2, <2>2, <2>3
<1> QED
  BY <1>13, <1>14, <1>15, <1>16, <1>17 DEF ControlInv

\* Every step keeps the invariant.
LEMMA NextKeeps ==
  ASSUME ControlInv, [Next]_vars
  PROVE  ControlInv'
<1>1. CASE UNCHANGED vars
  <2>1. TypeOK' /\ UNCHANGED <<pending, asker, cycles, cacheVars>> /\ server' = server
    BY <1>1 DEF ControlInv, vars, cacheVars, TypeOK
  <2> QED
    BY <2>1, OthersKeep
<1>2. CASE Next
  BY <1>1, <1>2, MainKeeps, ServerKeeps, SignalKeeps, ConsumeKeeps, ExpireKeeps, RepeatKeeps,
     DecisionKeeps DEF Next, Prompt, Ended
<1> QED
  BY <1>1, <1>2
-----------------------------------------------------------------------------
(* The theorems.                                                           *)

\* ControlInv holds in every reachable state of the control socket.
THEOREM ControlInvariant == Spec => []ControlInv
<1>1. ControlInv /\ [Next]_vars => ControlInv'
  BY NextKeeps
<1> QED
  BY InitControl, <1>1, PTL DEF Spec

\* cache_decision and ota_control_idle_wait: an accepted request is the pending
\* one or was consumed by exactly one wait.
THEOREM NoRequestIsLost == Spec => []AcceptedIsConsumedOnce
<1>1. ControlInv => AcceptedIsConsumedOnce
  BY DEF ControlInv
<1> QED
  BY <1>1, ControlInvariant, PTL

\* cache_decision: a retried id gets its first answer again and starts nothing,
\* while the ring remembers it.
THEOREM RetriesAreIdempotent == Spec => []RetryIsIdempotent
<1>1. ControlInv => RetryIsIdempotent
  <2> SUFFICES ASSUME ControlInv, NEW id \in Ids \ forgotten
               PROVE  accepts[id] <= 1 /\ Cardinality(answers[id]) <= 1
    BY DEF RetryIsIdempotent
  <2>1. \/ accepts[id] = 0 /\ answers[id] = {}
        \/ \E i \in Cached(id) : accepts[id] <= 1 /\ answers[id] = {cache[i].accepted}
    BY DEF ControlInv, RememberedInv
  <2>2. Cardinality({}) = 0 /\ \A x : Cardinality({x}) = 1
    BY FS_EmptySet, FS_Singleton
  <2>3. CASE accepts[id] = 0 /\ answers[id] = {}
    BY <2>2, <2>3
  <2>4. CASE \E i \in Cached(id) : accepts[id] <= 1 /\ answers[id] = {cache[i].accepted}
    <3>1. PICK i \in Cached(id) : accepts[id] <= 1 /\ answers[id] = {cache[i].accepted}
      BY <2>4
    <3>2. Cardinality({cache[i].accepted}) = 1
      BY <2>2
    <3> QED
      BY <3>1, <3>2
  <2> QED
    BY <2>1, <2>3, <2>4
<1> QED
  BY <1>1, ControlInvariant, PTL
=============================================================================
