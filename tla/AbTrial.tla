------------------------------ MODULE AbTrial ------------------------------
(***************************************************************************)
(* What an update promises of the two boot slots, without records, phases, *)
(* faults or priorities: only a slot that was retired is written, a        *)
(* retired slot has a whole and confirmed peer, a written slot is tried    *)
(* before it is trusted, and it is trusted only while it runs and after    *)
(* its own health check passed.                                            *)
(***************************************************************************)
EXTENDS AbSlots

CONSTANTS Images,   \* what a slot may hold: records with the attempt that wrote it
          Partial   \* a half written slot

VARIABLES status,   \* each slot is "good" (confirmed), on "trial" or "bad"
          holds,    \* the image in each slot
          running,  \* the slot that runs, or ran last
          choice,   \* the slot the bootloader boots next
          passed    \* attempts that passed their health check

trialVars == <<status, holds, running, choice, passed>>

Whole(s) == status[s] = "good" /\ holds[s] # Partial

Init ==
  /\ status \in [Slots -> {"good", "trial", "bad"}]
  /\ holds \in [Slots -> Images] /\ \A s \in Slots : holds[s].attempt = 0
  /\ running \in Slots /\ Whole(running)
  /\ choice = running
  /\ passed = {}

\* A slot is taken out of service: before it is written, or when it failed.
Retire(s) ==
  /\ Whole(Other(s))
  /\ status' = [status EXCEPT ![s] = "bad"]
  /\ choice' = Other(s)
  /\ UNCHANGED <<holds, running, passed>>

Write(s, image) ==
  /\ status[s] = "bad" /\ Whole(Other(s)) /\ s # running
  /\ holds' = [holds EXCEPT ![s] = image]
  /\ UNCHANGED <<status, running, choice, passed>>

\* The slot that was written is tried next.
Offer(s) ==
  /\ status[s] = "bad" /\ holds[s] # Partial /\ Whole(Other(s)) /\ s # running
  /\ status' = [status EXCEPT ![s] = "trial"]
  /\ choice' = s
  /\ UNCHANGED <<holds, running, passed>>

\* The bootloader starts its choice.  A slot on trial may crash, its trials may
\* end with this one, and a slot whose trials have ended is bad.
Boot ==
  /\ \/ holds[choice] # Partial /\ running' = choice
     \/ status[choice] = "trial" /\ UNCHANGED running
  /\ \/ UNCHANGED status
     \/ /\ status[Other(choice)] = "trial" /\ Whole(choice)
        /\ status' = [status EXCEPT ![Other(choice)] = "bad"]
  /\ \/ UNCHANGED choice
     \/ status[choice] = "trial" /\ Whole(Other(choice)) /\ choice' = Other(choice)
  /\ UNCHANGED <<holds, passed>>

\* The running slot is judged, and then confirmed.
Pass ==
  /\ status[running] = "trial" /\ Whole(Other(running))
  /\ passed' = passed \cup {holds[running].attempt}
  /\ UNCHANGED <<status, holds, running, choice>>

Confirm ==
  /\ holds[running].attempt \in passed /\ holds[running] # Partial
  /\ status[running] = "trial"
  /\ status' = [status EXCEPT ![running] = "good"]
  /\ choice' = running
  /\ UNCHANGED <<holds, running, passed>>

Next ==
  \/ \E s \in Slots : Retire(s) \/ Offer(s) \/ \E image \in Images : Write(s, image)
  \/ Boot \/ Pass \/ Confirm

Spec == Init /\ [][Next]_trialVars

=============================================================================
