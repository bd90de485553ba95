----------------------------- MODULE ProvBluez -----------------------------
(***************************************************************************)
(* The daemon's registrations with BlueZ (bluez.c): the GATT application,  *)
(* the pairing agent and, while a window is open, the advertisement and    *)
(* the adapter's Pairable property.                                        *)
(*                                                                         *)
(* BlueZ is external.  Its calls and name changes reach the main loop in   *)
(* the order in which they were sent.  A synchronous call of the daemon is *)
(* answered, or it fails: BlueZ may then still have done it, because it    *)
(* reads the exported objects first and the blocked main loop cannot       *)
(* answer.  A call that is not waited for may be lost.  The adapter comes  *)
(* some time after BlueZ and stays as long as BlueZ does.                  *)
(***************************************************************************)
EXTENDS Naturals, Sequences, FiniteSets

CONSTANTS MaxFailures,  \* bound: calls that fail while BlueZ is there
          MaxRestarts,  \* bound: restarts of the daemon
          MaxInbox      \* bound: messages the main loop has not seen

ASSUME ProvBluezAssumption ==
  MaxFailures \in Nat /\ MaxRestarts \in Nat /\ MaxInbox \in Nat \ {0}

VARIABLES
  up, hci,    \* BlueZ runs; its adapter is there
  real,       \* what BlueZ has registered for the daemon
  pairable,   \* Adapter1.Pairable
  inbox,      \* what BlueZ and the bus sent and the main loop has not seen
  present,    \* bluez_present
  adapter,    \* adapter_path is known
  flags,      \* application_registered, agent_registered, advertisement_registered
  retry,      \* retry_source
  win,        \* window_open
  owned,      \* the window has an owner (EgpSecurity)
  unset,      \* history: the last Set of Pairable did not happen
  stray,      \* history: the flag of the advertisement was lost, not the advertisement
  fails, restarts

bluezVars == <<up, hci, real, pairable, inbox>>
daemonVars == <<present, adapter, flags, retry, win, owned>>
vars == <<bluezVars, daemonVars, unset, stray, fails, restarts>>

TypeOK ==
  /\ up \in BOOLEAN /\ hci \in BOOLEAN /\ pairable \in BOOLEAN
  /\ real \subseteq {"app", "agent", "default", "adv"}
  /\ inbox \in Seq({"appeared", "vanished", "release"}) /\ Len(inbox) <= MaxInbox + 1
  /\ present \in BOOLEAN /\ adapter \in BOOLEAN /\ retry \in BOOLEAN
  /\ flags \subseteq {"app", "agent", "adv"}
  /\ win \in BOOLEAN /\ owned \in BOOLEAN
  /\ adapter \/ flags # {} \/ retry => present
  /\ owned => win
  /\ unset \in BOOLEAN /\ stray \in BOOLEAN
  /\ fails \in 0..MaxFailures /\ restarts \in 0..MaxRestarts

\* egp_bluez_new: the objects are exported and the name is watched.
Init ==
  /\ up = FALSE /\ hci = FALSE /\ real = {} /\ pairable = TRUE
  /\ inbox = <<>>
  /\ present = FALSE /\ adapter = FALSE /\ flags = {} /\ retry = FALSE
  /\ win = FALSE /\ owned = FALSE
  /\ unset = FALSE /\ stray = FALSE
  /\ fails = 0 /\ restarts = 0
-----------------------------------------------------------------------------
(* Calls to BlueZ.                                                         *)

\* bluez_call_sync for x, when BlueZ has r: what it has then, and the answer.
\* AlreadyExists is a success.
Outcomes(x, r) ==
  IF up THEN {<<r \cup {x}, TRUE>>, <<r, FALSE>>, <<r \cup {x}, FALSE>>}
  ELSE {<<r, FALSE>>}

\* A call that is not made.
Skip(r) == {<<r, TRUE>>}

\* The failures of a handler; without BlueZ every call fails.
CountFailures(n) ==
  /\ fails' = IF up THEN fails + n ELSE fails
  /\ fails' <= MaxFailures

Failed(ok) == IF ok THEN 0 ELSE 1

\* set_pairable: not waited for.
SetPairable(value, sent) ==
  /\ sent => up
  /\ pairable' = IF sent THEN value ELSE pairable
  /\ unset' = ~sent

\* The daemon loses the flag of an advertisement that is there.
LosesFlag(cause) ==
  stray' = ("adv" \in real' /\ "adv" \notin flags' /\ (stray \/ cause))
-----------------------------------------------------------------------------
(* Registration.                                                           *)

\* Mutant: the agent is not waited for.
Complete_NoAgent(f) == "app" \in f /\ (win => "adv" \in f)

Complete(f) == {"app", "agent"} \subseteq f /\ (win => "adv" \in f)

\* register_bluez without an adapter: tried again in five seconds.
DiscoveryFails ==
  /\ ~adapter
  /\ retry' = TRUE
  /\ CountFailures(IF hci THEN 1 ELSE 0)
  /\ UNCHANGED <<up, hci, real, pairable, adapter, flags, win, owned, unset, stray>>

\* Mutant: every registration makes the adapter pairable.
WindowPairable_Always == TRUE

\* What register_bluez sets Pairable to.
WindowPairable == win

\* register_bluez: what is not registered yet, one call after the other, and
\* Pairable as the window says.
RegisterAll ==
  /\ adapter \/ (up /\ hci)
  /\ adapter' = TRUE
  /\ \E a \in IF "app" \in flags THEN Skip(real) ELSE Outcomes("app", real) :
     \E g \in IF "agent" \in flags THEN Skip(a[1]) ELSE Outcomes("agent", a[1]) :
     \E d \in IF "agent" \in flags \/ ~g[2] THEN {g} ELSE Outcomes("default", g[1]) :
     \E v \in IF ~win \/ "adv" \in flags THEN Skip(d[1]) ELSE Outcomes("adv", d[1]) :
     \E sent \in BOOLEAN :
       /\ SetPairable(WindowPairable, sent)
       /\ real' = v[1]
       /\ flags' = flags \cup (IF a[2] THEN {"app"} ELSE {})
                         \cup (IF d[2] THEN {"agent"} ELSE {})
                         \cup (IF win /\ v[2] THEN {"adv"} ELSE {})
       /\ CountFailures(Failed(a[2]) + Failed(d[2]) + Failed(v[2]) + Failed(sent))
       /\ LosesFlag(~v[2])
  /\ retry' = ~Complete(flags')
  /\ UNCHANGED <<up, hci, win, owned>>

RegisterBluez == DiscoveryFails \/ RegisterAll

\* retry_registration, every five seconds until everything is registered.
RetryRegistration ==
  /\ retry
  /\ RegisterBluez
  /\ UNCHANGED <<inbox, present, restarts>>
-----------------------------------------------------------------------------
(* Messages of BlueZ and the bus.                                          *)

NameAppeared ==
  /\ inbox # <<>> /\ Head(inbox) = "appeared" /\ inbox' = Tail(inbox)
  /\ present' = TRUE
  /\ RegisterBluez
  /\ UNCHANGED restarts

\* Mutant: the retry goes on without BlueZ.
NameVanished_KeepsRetry ==
  /\ inbox # <<>> /\ Head(inbox) = "vanished" /\ inbox' = Tail(inbox)
  /\ present' = FALSE /\ adapter' = FALSE /\ flags' = {} /\ owned' = FALSE
  /\ UNCHANGED <<up, hci, real, pairable, retry, win, unset, fails, restarts>>
  /\ LosesFlag(TRUE)

\* name_vanished and bluez_lost: the window stays open, without an owner.
NameVanished ==
  /\ inbox # <<>> /\ Head(inbox) = "vanished" /\ inbox' = Tail(inbox)
  /\ present' = FALSE /\ adapter' = FALSE /\ flags' = {} /\ retry' = FALSE
  /\ owned' = FALSE
  /\ UNCHANGED <<up, hci, real, pairable, win, unset, fails, restarts>>
  /\ LosesFlag(TRUE)

\* method_call of the advertisement: the flag goes and nothing is retried.
AdvertisementRelease ==
  /\ inbox # <<>> /\ Head(inbox) = "release" /\ inbox' = Tail(inbox)
  /\ flags' = flags \ {"adv"}
  /\ UNCHANGED <<up, hci, real, pairable, present, adapter, retry, win, owned,
                 unset, fails, restarts>>
  /\ LosesFlag(TRUE)
-----------------------------------------------------------------------------
(* The window.                                                             *)

\* egp_bluez_set_window(TRUE), also for a window that is open.
OpenWindow ==
  /\ win' = TRUE /\ owned' = FALSE
  /\ IF ~adapter
     THEN UNCHANGED <<real, pairable, flags, retry, unset, stray, fails>>
     ELSE \E v \in IF "adv" \in flags THEN Skip(real) ELSE Outcomes("adv", real) :
          \E sent \in BOOLEAN :
            /\ SetPairable(TRUE, sent)
            /\ real' = v[1]
            /\ flags' = flags \cup (IF v[2] THEN {"adv"} ELSE {})
            /\ retry' = (retry \/ ~v[2])
            /\ LosesFlag(~v[2])
            /\ CountFailures(Failed(v[2]) + Failed(sent))
  /\ UNCHANGED <<up, hci, inbox, present, adapter, restarts>>

\* egp_bluez_set_window(FALSE): UnregisterAdvertisement is not waited for.
CloseWindow ==
  /\ win /\ win' = FALSE /\ owned' = FALSE
  /\ IF ~adapter
     THEN UNCHANGED <<real, pairable, flags, unset, stray, fails>>
     ELSE \E sent, gone \in BOOLEAN :
            /\ SetPairable(FALSE, sent)
            /\ IF "adv" \in flags THEN gone => up ELSE ~gone
            /\ real' = IF gone THEN real \ {"adv"} ELSE real
            /\ flags' = flags \ {"adv"}
            /\ LosesFlag("adv" \in flags /\ ~gone)
            /\ CountFailures(Failed(sent) + Failed("adv" \in flags => gone))
  /\ UNCHANGED <<up, hci, inbox, present, adapter, retry, restarts>>

\* egp_bluez_disconnect_non_owner, when the first write claims the window.  The
\* write comes through the application, from the BlueZ the daemon knows.
ClaimWindow ==
  /\ win /\ ~owned /\ owned' = TRUE
  /\ up /\ adapter /\ "app" \in real
  /\ \A i \in DOMAIN inbox : inbox[i] # "vanished"
  /\ \E sent \in BOOLEAN : SetPairable(FALSE, sent) /\ CountFailures(Failed(sent))
  /\ UNCHANGED <<up, hci, real, inbox, present, adapter, flags, retry, win, stray,
                 restarts>>

\* The daemon is killed, or it is stopped (egp_bluez_free, whose last calls
\* may still be in its buffer), and started again.  BlueZ drops what a
\* connection that is gone had registered.
Restart ==
  /\ restarts < MaxRestarts /\ restarts' = restarts + 1
  /\ present' = FALSE /\ adapter' = FALSE /\ flags' = {} /\ retry' = FALSE
  /\ win' = FALSE /\ owned' = FALSE
  /\ real' = {} /\ stray' = FALSE
  /\ \E sent \in BOOLEAN : (sent => adapter) /\ SetPairable(FALSE, sent)
  /\ inbox' = IF up THEN <<"appeared">> ELSE <<>>
  /\ UNCHANGED <<up, hci, fails>>
-----------------------------------------------------------------------------
(* BlueZ.                                                                  *)

BluezStarts ==
  /\ ~up /\ up' = TRUE /\ real' = {}
  /\ Len(inbox) < MaxInbox /\ inbox' = Append(inbox, "appeared")
  /\ pairable' \in BOOLEAN
  /\ UNCHANGED <<hci, daemonVars, unset, stray, fails, restarts>>

AdapterAppears ==
  /\ up /\ ~hci /\ hci' = TRUE
  /\ UNCHANGED <<up, real, pairable, inbox, daemonVars, unset, stray, fails, restarts>>

BluezDies ==
  /\ up /\ up' = FALSE /\ hci' = FALSE /\ real' = {} /\ stray' = FALSE
  /\ Len(inbox) < MaxInbox /\ inbox' = Append(inbox, "vanished")
  /\ UNCHANGED <<pairable, daemonVars, unset, fails, restarts>>

\* BlueZ takes the advertisement back.
BluezReleases ==
  /\ "adv" \in real /\ real' = real \ {"adv"} /\ stray' = FALSE
  /\ Len(inbox) < MaxInbox /\ inbox' = Append(inbox, "release")
  /\ UNCHANGED <<up, hci, pairable, daemonVars, unset, fails, restarts>>
-----------------------------------------------------------------------------
DaemonHandles == NameAppeared \/ NameVanished \/ AdvertisementRelease

Next ==
  \/ DaemonHandles \/ RetryRegistration
  \/ OpenWindow \/ CloseWindow \/ ClaimWindow
  \/ Restart
  \/ BluezStarts \/ AdapterAppears \/ BluezDies \/ BluezReleases

Spec == Init /\ [][Next]_vars

\* The main loop dispatches what has arrived, and its timers fire.
LiveSpec == Spec /\ WF_vars(DaemonHandles) /\ WF_vars(RetryRegistration)
-----------------------------------------------------------------------------
(* Properties.                                                             *)

\* Outside a window the adapter is not pairable and nothing is advertised,
\* whatever BlueZ started with and however often either side restarted: unless
\* the daemon does not know the adapter yet, the last Set of Pairable was lost,
\* or the daemon lost the flag of the advertisement (no answer to its
\* registration, a late Release, a lost Unregister).  register_bluez,
\* egp_bluez_set_window, name_vanished.
QuietOutsideWindow ==
  ~win => /\ inbox = <<>> /\ adapter /\ ~unset => ~pairable
          /\ "adv" \in real => stray

\* While BlueZ and its adapter stay, the application and the default agent get
\* registered, and again after every restart (retry_registration, name_vanished).
RegistrationCompletes ==
  []<>(up /\ hci => {"app", "agent"} \subseteq flags
                    /\ {"app", "agent", "default"} \subseteq real)
-----------------------------------------------------------------------------
(* The inductive invariant.                                                *)

\* Nothing is registered without an adapter, and no advertisement outside a
\* window; an advertisement without its flag is one whose flag was lost.
FlagsInv ==
  /\ flags # {} => adapter
  /\ "adv" \in flags => win
  /\ "adv" \in real \ flags => stray

\* A Pairable that a BlueZ started with, and that no Set has replaced yet, has a
\* name change still to be handled.
PairableInv ==
  ~win /\ adapter /\ ~unset /\ pairable =>
    \E i \in DOMAIN inbox : inbox[i] # "release"

BluezInv == TypeOK /\ FlagsInv /\ PairableInv
=============================================================================
