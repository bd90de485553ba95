----------------------------- MODULE OtaControl -----------------------------
(***************************************************************************)
(* The control socket of the agent (control.c): CHECK_UPDATE_NOW requests  *)
(* meet the idle wait of the main loop, SIGTERM and the shutdown.  Three   *)
(* activities interleave: the main thread (run and ota_control_idle_wait), *)
(* the server thread (server_thread, handle_client) and the signal         *)
(* handler, which may run on either thread.  One action is one critical    *)
(* section or one system call.                                             *)
(*                                                                         *)
(* Framing, credentials and JSON are left out: a request is an id that     *)
(* passed parse_request.  The wake pipe is only ever tested for emptiness. *)
(* The cycle config can be refused by refresh_cycle_config, which ends     *)
(* run().                                                                  *)
(***************************************************************************)
EXTENDS Integers, FiniteSets

CONSTANTS Ids,                \* request ids (UUIDs)
          NoId,               \* an empty cache entry
          CONTROL_CACHE_SIZE,
          MaxRequests         \* bound: requests in one behaviour

ASSUME OtaControlAssumption ==
  /\ NoId \notin Ids
  /\ CONTROL_CACHE_SIZE \in Nat \ {0}
  /\ MaxRequests \in Nat

VARIABLES
  main,          \* control point of the main thread
  server,        \* control point of the server thread, its request and verdict
  handler,       \* control point of the signal handler
  stopping,      \* main.c: stopping
  signal_stopping, closing, \* control->signal_stopping, control->stopping
  idle_eligible, pending,
  wake,          \* the wake pipe holds a byte
  cache, cache_next,
  requests,      \* requests so far
  accepts,       \* history: fresh acceptances per id
  answers,       \* history: verdicts given per id
  asker,         \* history: whose request is pending
  cycles,        \* history: waits that consumed an accepted request, per id
  forgotten      \* history: ids whose entry expired or had to make room

flagVars == <<idle_eligible, pending, asker>>
stopVars == <<stopping, signal_stopping, closing, handler>>
cacheVars == <<cache, cache_next, accepts, answers, forgotten>>
vars == <<main, server, handler, stopping, signal_stopping, closing,
          idle_eligible, pending, wake, cache, cache_next, requests, accepts,
          answers, asker, cycles, forgotten>>

Entries == 0..(CONTROL_CACHE_SIZE - 1)
NoEntry == [id |-> NoId, accepted |-> FALSE]

MainPoints == {"loop", "enter", "arm", "poll", "leave", "consume", "waited", "cycle",
               "close", "join", "closed"}

TypeOK ==
  /\ main \in MainPoints
  /\ server \in [pc : {"accept", "decide", "wake", "gone"}, id : Ids \cup {NoId}]
  /\ handler \in {"none", "entered", "flagged", "done"}
  /\ {stopping, signal_stopping, closing, idle_eligible, pending, wake} \subseteq BOOLEAN
  /\ cache \in [Entries -> [id : Ids \cup {NoId}, accepted : BOOLEAN]]
  /\ cache_next \in Entries
  /\ requests \in 0..MaxRequests
  /\ accepts \in [Ids -> Nat] /\ answers \in [Ids -> SUBSET BOOLEAN]
  /\ asker \in Ids \cup {NoId} /\ cycles \in [Ids -> Nat]
  /\ forgotten \subseteq Ids

\* ota_control_open has started the server thread; run() is about to begin.
Init ==
  /\ main = "cycle"
  /\ server = [pc |-> "accept", id |-> NoId]
  /\ handler = "none"
  /\ stopping = FALSE /\ signal_stopping = FALSE /\ closing = FALSE
  /\ idle_eligible = FALSE /\ pending = FALSE /\ wake = FALSE
  /\ cache = [i \in Entries |-> NoEntry] /\ cache_next = 0
  /\ requests = 0
  /\ accepts = [i \in Ids |-> 0] /\ answers = [i \in Ids |-> {}]
  /\ asker = NoId /\ cycles = [i \in Ids |-> 0] /\ forgotten = {}
-----------------------------------------------------------------------------
(* The server thread.                                                      *)

ServerUnchanged == UNCHANGED <<main, stopVars, cycles>>

\* accept4 and handle_client up to cache_decision.  A retry carries the same id.  A
\* connection that was queued when the listener is shut is still accepted.
Accept(id) ==
  /\ server.pc = "accept"
  /\ requests < MaxRequests /\ requests' = requests + 1
  /\ server' = [pc |-> "decide", id |-> id]
  /\ UNCHANGED <<flagVars, wake, cacheVars>> /\ ServerUnchanged

Cached(id) == { i \in Entries : cache[i].id = id }

\* Mutant: the busy flag is not part of the decision.
Eligible_Always == ~closing /\ ~signal_stopping

Eligible == idle_eligible /\ ~pending /\ ~closing /\ ~signal_stopping

\* Mutants: every decision goes to the same entry; the ring does not close.
NextEntry_Fixed == 0
NextEntry_NoWrap == cache_next + 1

NextEntry == (cache_next + 1) % CONTROL_CACHE_SIZE

\* The age of an entry in the ring: the next one to be written is the oldest.
Rank(i) == (i - cache_next) % CONTROL_CACHE_SIZE

\* cache_decision: the remembered answer, or a fresh one into the ring.
Decide ==
  LET id == server.id IN
  /\ server.pc = "decide"
  /\ IF Cached(id) # {}
     THEN /\ server' = [pc |-> "accept", id |-> NoId]
          /\ answers' = [answers EXCEPT ![id] = @ \cup {cache[i].accepted : i \in Cached(id)}]
          /\ UNCHANGED <<flagVars, cache, cache_next, accepts, forgotten>>
     ELSE /\ cache' = [cache EXCEPT ![cache_next] = [id |-> id, accepted |-> Eligible]]
          /\ cache_next' = NextEntry
          /\ answers' = [answers EXCEPT ![id] = @ \cup {Eligible}]
          /\ forgotten' = IF Cached(NoId) = {}
                          THEN forgotten \cup {cache[cache_next].id} ELSE forgotten
          /\ IF Eligible
             THEN /\ pending' = TRUE /\ idle_eligible' = FALSE /\ asker' = id
                  /\ accepts' = [accepts EXCEPT ![id] = @ + 1]
                  /\ server' = [server EXCEPT !.pc = "wake"]
             ELSE /\ server' = [pc |-> "accept", id |-> NoId]
                  /\ UNCHANGED <<flagVars, accepts>>
  /\ UNCHANGED <<wake, requests>> /\ ServerUnchanged

\* Mutant: the accepted request does not wake the wait.
WakeMain_Silent ==
  /\ server.pc = "wake"
  /\ server' = [pc |-> "accept", id |-> NoId]
  /\ UNCHANGED <<wake, flagVars, cacheVars, requests>> /\ ServerUnchanged

\* The write to the pipe, after the unlock; then the answer to the client.
WakeMain ==
  /\ server.pc = "wake"
  /\ wake' = TRUE
  /\ server' = [pc |-> "accept", id |-> NoId]
  /\ UNCHANGED <<flagVars, cacheVars, requests>> /\ ServerUnchanged

\* Mutant: the failing accept4 is retried without a look at stopping.
ServerStops_Never ==
  /\ server.pc = "accept" /\ main = "join"
  /\ UNCHANGED vars

\* accept4 fails after the shutdown of the listener, once its queue is empty.
ServerStops ==
  /\ server.pc = "accept" /\ main = "join" /\ closing
  /\ server' = [pc |-> "gone", id |-> NoId]
  /\ UNCHANGED <<flagVars, wake, cacheVars, requests>> /\ ServerUnchanged

\* The oldest remembered decision is ten minutes old.
Expire ==
  /\ \E i \in Entries :
       /\ cache[i].id # NoId
       /\ \A j \in Entries : Rank(j) < Rank(i) => cache[j].id = NoId
       /\ cache' = [cache EXCEPT ![i] = NoEntry]
       /\ forgotten' = forgotten \cup {cache[i].id}
  /\ UNCHANGED <<server, flagVars, wake, cache_next, accepts, answers, requests>>
  /\ ServerUnchanged
-----------------------------------------------------------------------------
(* The main thread: run() around IDLE.                                     *)

MainUnchanged == UNCHANGED <<server, cacheVars, requests>>

\* A cycle comes back to IDLE, or ends run() (a reboot, a terminal report, a
\* transition that was not saved).
CycleEnds ==
  /\ main = "cycle"
  /\ main' \in {"loop", "close"}
  /\ UNCHANGED <<stopVars, flagVars, wake, cycles>> /\ MainUnchanged

\* while (!stopping).
LoopTest ==
  /\ main = "loop"
  /\ main' = IF stopping THEN "close" ELSE "enter"
  /\ UNCHANGED <<stopVars, flagVars, wake, cycles>> /\ MainUnchanged

Drain(from, to) ==
  /\ main = from
  /\ main' = to
  /\ wake' = FALSE
  /\ UNCHANGED <<stopVars, flagVars, cycles>> /\ MainUnchanged

DrainFirst == Drain("enter", "arm")

\* Become eligible, and look for a request that is pending already.
Arm ==
  /\ main = "arm"
  /\ idle_eligible' = (~closing /\ ~signal_stopping /\ ~stopping)
  /\ main' = IF pending THEN "leave" ELSE "poll"
  /\ UNCHANGED <<stopVars, pending, asker, wake, cycles>> /\ MainUnchanged

\* poll returns because the pipe is readable.
PollWakes ==
  /\ main = "poll" /\ wake
  /\ main' = "leave"
  /\ UNCHANGED <<stopVars, flagVars, wake, cycles>> /\ MainUnchanged

\* poll returns for its timeout, or because the signal interrupted it.
PollTimesOut ==
  /\ main = "poll"
  /\ main' = "leave"
  /\ UNCHANGED <<stopVars, flagVars, wake, cycles>> /\ MainUnchanged

\* poll itself fails: the wait and run() end, eligibility is left as it is.
PollFails ==
  /\ main = "poll"
  /\ main' = "close"
  /\ UNCHANGED <<stopVars, flagVars, wake, cycles>> /\ MainUnchanged

DrainAgain == Drain("leave", "consume")

\* The last critical section of the wait.
Consume ==
  /\ main = "consume"
  /\ idle_eligible' = FALSE
  /\ pending' = FALSE /\ asker' = NoId
  /\ cycles' = IF pending THEN [cycles EXCEPT ![asker] = @ + 1] ELSE cycles
  /\ main' = "waited"
  /\ UNCHANGED <<stopVars, wake>> /\ MainUnchanged

\* After the wait: stop, or refresh the endpoint and begin a cycle; an invalid
\* immutable endpoint ends run().
AfterWait ==
  /\ main = "waited"
  /\ main' \in IF stopping THEN {"close"} ELSE {"cycle", "close"}
  /\ UNCHANGED <<stopVars, flagVars, wake, cycles>> /\ MainUnchanged

\* ota_control_close: no more decisions, shut the listener, join, release.
Close ==
  /\ main = "close"
  /\ closing' = TRUE /\ idle_eligible' = FALSE
  /\ main' = "join"
  /\ UNCHANGED <<stopping, signal_stopping, handler, pending, asker, wake, cycles>>
  /\ MainUnchanged

Join ==
  /\ main = "join" /\ server.pc = "gone"
  /\ main' = "closed"
  /\ UNCHANGED <<stopVars, flagVars, wake, cycles>> /\ MainUnchanged
-----------------------------------------------------------------------------
(* The signal handler: stop_requested, ota_control_signal_wakeup.  main    *)
(* clears signal_control before it closes the control object.              *)

HandlerUnchanged == UNCHANGED <<main, server, flagVars, cacheVars, requests, cycles, closing>>

SignalArrives ==
  /\ handler = "none" /\ main \notin {"close", "join", "closed"}
  /\ handler' = "entered"
  /\ stopping' = TRUE
  /\ UNCHANGED <<signal_stopping, wake>> /\ HandlerUnchanged

SignalFlag ==
  /\ handler = "entered"
  /\ handler' = "flagged"
  /\ signal_stopping' = TRUE
  /\ UNCHANGED <<stopping, wake>> /\ HandlerUnchanged

SignalWakes ==
  /\ handler = "flagged"
  /\ handler' = "done"
  /\ wake' = TRUE
  /\ UNCHANGED <<stopping, signal_stopping>> /\ HandlerUnchanged
-----------------------------------------------------------------------------
\* The process has ended.
Ended == main = "closed" /\ UNCHANGED vars

Prompt ==
  \/ Decide \/ WakeMain \/ ServerStops
  \/ CycleEnds \/ LoopTest \/ DrainFirst \/ Arm \/ PollWakes \/ DrainAgain
  \/ Consume \/ AfterWait \/ Close \/ Join
  \/ SignalFlag \/ SignalWakes

Next ==
  \/ \E id \in Ids : Accept(id)
  \/ Prompt \/ PollTimesOut \/ PollFails \/ Expire \/ SignalArrives \/ Ended

Spec == Init /\ [][Next]_vars

\* Every step of the three activities is a bounded computation or a call that
\* returns; nothing is assumed of clients, of signals, of the end of a cycle or
\* of the poll timeout, which the configuration may set to weeks.
Fairness ==
  /\ WF_vars(Decide) /\ WF_vars(WakeMain) /\ WF_vars(ServerStops)
  /\ WF_vars(LoopTest) /\ WF_vars(DrainFirst) /\ WF_vars(Arm)
  /\ WF_vars(PollWakes) /\ WF_vars(DrainAgain) /\ WF_vars(Consume)
  /\ WF_vars(AfterWait) /\ WF_vars(Close) /\ WF_vars(Join)
  /\ WF_vars(SignalFlag) /\ WF_vars(SignalWakes)

LiveSpec == Spec /\ Fairness
-----------------------------------------------------------------------------
(* Properties.                                                             *)

\* No accepted request is lost, doubled or queued behind another: each one is
\* consumed by one wait or is the single pending one.
AcceptedIsConsumedOnce ==
  \A id \in Ids : accepts[id] = cycles[id] + (IF pending /\ asker = id THEN 1 ELSE 0)

\* A repeated request id gets the answer of the first time and does not start a
\* second check, as long as the ring of decisions had room and time for it.
RetryIsIdempotent ==
  \A id \in Ids \ forgotten : accepts[id] <= 1 /\ Cardinality(answers[id]) <= 1

\* An accepted request starts a cycle without waiting for the poll timeout,
\* unless the agent is going down.
AcceptedStartsCycle == pending ~> main \in {"cycle", "close", "join", "closed"}

\* Closing the control object ends: the server thread leaves whatever request
\* it is in and is joined.
CloseEnds == main = "close" ~> main = "closed"

\* Once the signal handler is through, the idle wait does not sleep: "the wait
\* implementation should multiplex stop and control wakeups"
\* (docs/R5/08_LOCAL_IPC_SPEC.md).
StopWakesTheWait ==
  main = "poll" /\ handler = "done" => wake
-----------------------------------------------------------------------------
(* The inductive invariant behind the safety properties.                   *)

\* The request in hand has an id, and a pending one has its asker.
RequestInv ==
  /\ server.pc \in {"decide", "wake"} => server.id \in Ids
  /\ pending => asker \in Ids

\* The decisions that are remembered are the youngest ones of the ring, one for
\* an id: a decision overwrites another only when the ring is full.
RingInv ==
  /\ \A i, j \in Entries : cache[i].id # NoId /\ Rank(i) < Rank(j) => cache[j].id # NoId
  /\ \A i, j \in Entries : cache[i].id = cache[j].id /\ cache[i].id # NoId => i = j

\* An id that was not forgotten is new or has its one answer in the ring.
RememberedInv ==
  \A id \in Ids \ forgotten :
    \/ accepts[id] = 0 /\ answers[id] = {}
    \/ \E i \in Cached(id) : accepts[id] <= 1 /\ answers[id] = {cache[i].accepted}

ControlInv ==
  TypeOK /\ RequestInv /\ RingInv /\ RememberedInv /\ AcceptedIsConsumedOnce

=============================================================================
