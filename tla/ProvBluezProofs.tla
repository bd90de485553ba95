-------------------------- MODULE ProvBluezProofs --------------------------
(***************************************************************************)
(* The adapter is quiet outside a window, for any number of failures and   *)
(* restarts of either side: BluezInv is inductive.                         *)
(***************************************************************************)
EXTENDS ProvBluez, SequenceTheorems, TLAPS

Msgs == {"appeared", "vanished", "release"}

\* A fresh daemon satisfies the invariant.
LEMMA InitBluez == Init => BluezInv
<1> SUFFICES ASSUME Init PROVE BluezInv
  OBVIOUS
<1>1. inbox \in Seq(Msgs) /\ Len(inbox) <= MaxInbox + 1
  BY ProvBluezAssumption DEF Init
<1>2. fails \in 0..MaxFailures /\ restarts \in 0..MaxRestarts
  BY ProvBluezAssumption DEF Init
<1>3. TypeOK
  BY <1>1, <1>2 DEF Init, TypeOK, Msgs
<1> QED
  BY <1>3 DEF Init, BluezInv, FlagsInv, PairableInv

\* The facts about the inbox that the handlers share.
LEMMA Popped ==
  ASSUME TypeOK, inbox # <<>>, inbox' = Tail(inbox)
  PROVE  /\ inbox' \in Seq(Msgs) /\ Len(inbox') <= MaxInbox + 1
         /\ Head(inbox) = "release" /\ (\E i \in DOMAIN inbox : inbox[i] # "release") =>
              \E i \in DOMAIN inbox' : inbox'[i] # "release"
<1>0. inbox \in Seq(Msgs) /\ Len(inbox) <= MaxInbox + 1 /\ MaxInbox \in Nat
  BY ProvBluezAssumption DEF TypeOK, Msgs
<1>1. /\ inbox' \in Seq(Msgs) /\ Len(inbox') = Len(inbox) - 1 /\ Len(inbox) \in Nat
      /\ DOMAIN inbox = 1..Len(inbox) /\ DOMAIN inbox' = 1..(Len(inbox) - 1)
      /\ Head(inbox) = inbox[1] /\ \A i \in 1..(Len(inbox) - 1) : inbox'[i] = inbox[i + 1]
  BY <1>0
<1>2. ASSUME Head(inbox) = "release", NEW i \in DOMAIN inbox, inbox[i] # "release"
      PROVE  \E j \in DOMAIN inbox' : inbox'[j] # "release"
  <2>1. i - 1 \in DOMAIN inbox' /\ (i - 1) + 1 = i
    BY <1>1, <1>2
  <2> QED
    BY <1>1, <1>2, <2>1
<1>3. Len(inbox') <= MaxInbox + 1
  BY <1>0, <1>1
<1> QED
  BY <1>1, <1>2, <1>3

\* A message that enters the inbox leaves those before it in their places.
LEMMA Pushed ==
  ASSUME TypeOK, NEW m \in Msgs, Len(inbox) < MaxInbox, inbox' = Append(inbox, m)
  PROVE  /\ inbox' \in Seq(Msgs) /\ Len(inbox') <= MaxInbox + 1
         /\ m # "release" => \E i \in DOMAIN inbox' : inbox'[i] # "release"
         /\ (\E i \in DOMAIN inbox : inbox[i] # "release") =>
              \E i \in DOMAIN inbox' : inbox'[i] # "release"
<1>0. inbox \in Seq(Msgs) /\ MaxInbox \in Nat
  BY ProvBluezAssumption DEF TypeOK, Msgs
<1>1. /\ inbox' \in Seq(Msgs) /\ Len(inbox') = Len(inbox) + 1 /\ Len(inbox) \in Nat
      /\ DOMAIN inbox = 1..Len(inbox) /\ DOMAIN inbox' = 1..(Len(inbox) + 1)
      /\ inbox'[Len(inbox) + 1] = m /\ \A i \in 1..Len(inbox) : inbox'[i] = inbox[i]
  BY <1>0
<1>2. Len(inbox) + 1 \in DOMAIN inbox' /\ DOMAIN inbox \subseteq DOMAIN inbox'
  BY <1>1
<1>3. Len(inbox') <= MaxInbox + 1
  BY <1>0, <1>1
<1> QED
  BY <1>1, <1>2, <1>3

\* The parts of an outcome.
LEMMA Parts ==
  ASSUME NEW o, NEW r, NEW ok \in BOOLEAN, o = <<r, ok>>
  PROVE  o[1] = r /\ o[2] = ok /\ o[2] \in BOOLEAN
OBVIOUS

\* What a call may leave behind.
LEMMA OutcomeShape ==
  ASSUME TypeOK, NEW x \in {"app", "agent", "default", "adv"},
         NEW r \in SUBSET {"app", "agent", "default", "adv"},
         NEW o \in Outcomes(x, r) \cup Skip(r)
  PROVE  /\ o[1] \in SUBSET {"app", "agent", "default", "adv"} /\ o[2] \in BOOLEAN
         /\ r \subseteq o[1] /\ o[1] \subseteq r \cup {x}
<1>1. PICK s \in {r, r \cup {x}}, ok \in BOOLEAN : o = <<s, ok>>
  <2>1. o \in {<<r, TRUE>>, <<r, FALSE>>, <<r \cup {x}, TRUE>>, <<r \cup {x}, FALSE>>}
    BY DEF Outcomes, Skip
  <2> QED
    BY <2>1, Zenon
<1>2. o[1] = s /\ o[2] \in BOOLEAN
  BY <1>1, Parts
<1> QED
  BY <1>2

\* The number of failures stays in its bound.
LEMMA FailuresTyped ==
  ASSUME TypeOK, NEW n \in Nat, CountFailures(n)
  PROVE  fails' \in 0..MaxFailures
BY ProvBluezAssumption DEF TypeOK, CountFailures

\* register_bluez, whoever calls it: afterwards the daemon knows an adapter
\* only if it has told it what the window says, or could not.
LEMMA RegisterKeeps ==
  ASSUME BluezInv, RegisterBluez, present' = TRUE
  PROVE  /\ up' \in BOOLEAN /\ hci' \in BOOLEAN /\ pairable' \in BOOLEAN
         /\ real' \subseteq {"app", "agent", "default", "adv"}
         /\ adapter' \in BOOLEAN /\ retry' \in BOOLEAN
         /\ flags' \subseteq {"app", "agent", "adv"}
         /\ UNCHANGED <<win, owned>>
         /\ unset' \in BOOLEAN /\ stray' \in BOOLEAN /\ fails' \in 0..MaxFailures
         /\ FlagsInv'
         /\ ~(~win' /\ adapter' /\ ~unset' /\ pairable')
<1>0. TypeOK /\ FlagsInv
  BY DEF BluezInv
<1>1. CASE DiscoveryFails
  <2>1. (IF hci THEN 1 ELSE 0) \in Nat /\ CountFailures(IF hci THEN 1 ELSE 0)
    BY <1>1 DEF DiscoveryFails
  <2>2. fails' \in 0..MaxFailures
    BY <1>0, <2>1, FailuresTyped
  <2> QED
    BY <1>0, <1>1, <2>2 DEF DiscoveryFails, TypeOK, FlagsInv
<1>2. CASE RegisterAll
  <2> DEFINE all == SUBSET {"app", "agent", "default", "adv"}
  <2> DEFINE A == IF "app" \in flags THEN Skip(real) ELSE Outcomes("app", real)
             G(a) == IF "agent" \in flags THEN Skip(a[1]) ELSE Outcomes("agent", a[1])
             D(g) == IF "agent" \in flags \/ ~g[2] THEN {g} ELSE Outcomes("default", g[1])
             V(d) == IF ~win \/ "adv" \in flags THEN Skip(d[1]) ELSE Outcomes("adv", d[1])
             Ends(a, d, v, sent) ==
               /\ SetPairable(WindowPairable, sent)
               /\ real' = v[1]
               /\ flags' = flags \cup (IF a[2] THEN {"app"} ELSE {})
                                 \cup (IF d[2] THEN {"agent"} ELSE {})
                                 \cup (IF win /\ v[2] THEN {"adv"} ELSE {})
               /\ CountFailures(Failed(a[2]) + Failed(d[2]) + Failed(v[2]) + Failed(sent))
               /\ LosesFlag(~v[2])
  <2>1. PICK a \in A : \E g \in G(a) : \E d \in D(g) : \E v \in V(d) : \E sent \in BOOLEAN :
          Ends(a, d, v, sent)
    BY <1>2 DEF RegisterAll
  <2>2. PICK g \in G(a) : \E d \in D(g) : \E v \in V(d) : \E sent \in BOOLEAN :
          Ends(a, d, v, sent)
    BY <2>1
  <2>3. PICK d \in D(g) : \E v \in V(d) : \E sent \in BOOLEAN : Ends(a, d, v, sent)
    BY <2>2
  <2>4. PICK v \in V(d), sent \in BOOLEAN : Ends(a, d, v, sent)
    BY <2>3
  <2>5. a[1] \in all /\ a[1] \subseteq real \cup {"app"}
    BY <1>0, <2>1, OutcomeShape DEF TypeOK
  <2>6. g[1] \in all /\ g[1] \subseteq a[1] \cup {"agent"}
    BY <1>0, <2>2, <2>5, OutcomeShape
  <2>7. d[1] \in all /\ d[1] \subseteq g[1] \cup {"default"}
    BY <1>0, <2>3, <2>6, OutcomeShape
  <2>8. v[1] \in all /\ v[2] \in BOOLEAN
    BY <1>0, <2>4, <2>7, OutcomeShape
  <2>9. ASSUME ~win \/ "adv" \in flags PROVE v[1] = d[1] /\ v[2] = TRUE
    <3> DEFINE yes == TRUE
    <3>1. v = <<d[1], yes>> /\ yes \in BOOLEAN
      BY <2>4, <2>9 DEF Skip
    <3> HIDE DEF yes
    <3>2. v[1] = d[1] /\ v[2] = yes
      BY <3>1, Parts
    <3> QED
      BY <3>2 DEF yes
  <2>10. adapter' = TRUE /\ UNCHANGED <<up, hci, win, owned>> /\ retry' \in BOOLEAN
    BY <1>2 DEF RegisterAll
  <2>11. fails' \in 0..MaxFailures
    <3>1. Failed(a[2]) + Failed(d[2]) + Failed(v[2]) + Failed(sent) \in Nat
      BY DEF Failed
    <3> QED
      BY <1>0, <2>4, <3>1, FailuresTyped
  <2>12. /\ pairable' \in BOOLEAN /\ unset' \in BOOLEAN
         /\ unset' \/ (pairable' <=> win)
    BY <1>0, <2>4 DEF SetPairable, WindowPairable, TypeOK
  <2>13. stray' \in BOOLEAN /\ flags' \subseteq {"app", "agent", "adv"}
    BY <1>0, <2>4 DEF LosesFlag, TypeOK
  <2>14. FlagsInv'
    <3>1. "adv" \in flags' => win'
      BY <1>0, <2>4, <2>10 DEF FlagsInv
    <3>2. "adv" \in real' \ flags' => stray'
      <4> SUFFICES ASSUME "adv" \in real', "adv" \notin flags' PROVE stray'
        OBVIOUS
      <4>1. "adv" \notin flags
        BY <2>4
      <4>2. CASE ~win
        <5>1. "adv" \in real
          BY <2>4, <2>5, <2>6, <2>7, <2>9, <4>2
        <5> QED
          BY <1>0, <2>4, <4>1, <5>1 DEF FlagsInv, LosesFlag
      <4>3. CASE win
        BY <2>4, <2>8, <4>3 DEF LosesFlag
      <4> QED
        BY <1>0, <4>2, <4>3 DEF TypeOK
    <3> QED
      BY <2>10, <3>1, <3>2 DEF FlagsInv
  <2> QED
    BY <1>0, <2>4, <2>8, <2>10, <2>11, <2>12, <2>13, <2>14 DEF TypeOK
<1> QED
  BY <1>1, <1>2 DEF RegisterBluez
-----------------------------------------------------------------------------
(* The handlers.                                                           *)

\* Messages that call register_bluez, and the retry.
LEMMA RegistrationSteps ==
  ASSUME BluezInv, NameAppeared \/ RetryRegistration
  PROVE  BluezInv'
<1>0. TypeOK /\ FlagsInv
  BY DEF BluezInv
<1>1. RegisterBluez /\ present' = TRUE /\ restarts' = restarts
  BY <1>0 DEF NameAppeared, RetryRegistration, TypeOK
<1>2. inbox' \in Seq(Msgs) /\ Len(inbox') <= MaxInbox + 1
  BY <1>0, Popped DEF NameAppeared, RetryRegistration, TypeOK, Msgs
<1>3. /\ up' \in BOOLEAN /\ hci' \in BOOLEAN /\ pairable' \in BOOLEAN
      /\ real' \subseteq {"app", "agent", "default", "adv"}
      /\ adapter' \in BOOLEAN /\ retry' \in BOOLEAN
      /\ flags' \subseteq {"app", "agent", "adv"}
      /\ UNCHANGED <<win, owned>>
      /\ unset' \in BOOLEAN /\ stray' \in BOOLEAN /\ fails' \in 0..MaxFailures
      /\ FlagsInv'
      /\ ~(~win' /\ adapter' /\ ~unset' /\ pairable')
  BY <1>1, RegisterKeeps
<1>4. TypeOK'
  BY <1>0, <1>1, <1>2, <1>3 DEF TypeOK, Msgs
<1> QED
  BY <1>3, <1>4 DEF BluezInv, PairableInv

\* on_name_vanished forgets the adapter and every registration.
LEMMA NameVanishedKeeps ==
  ASSUME BluezInv, NameVanished
  PROVE  BluezInv'
<1>0. TypeOK /\ FlagsInv
  BY DEF BluezInv
<1>1. inbox' \in Seq(Msgs) /\ Len(inbox') <= MaxInbox + 1
  BY <1>0, Popped DEF NameVanished
<1>2. TypeOK'
  BY <1>0, <1>1 DEF NameVanished, LosesFlag, TypeOK, Msgs
<1>3. FlagsInv' /\ PairableInv'
  BY <1>0 DEF NameVanished, LosesFlag, FlagsInv, PairableInv
<1> QED
  BY <1>2, <1>3 DEF BluezInv

\* Release from BlueZ takes the advertisement flag only.
LEMMA AdvertisementReleaseKeeps ==
  ASSUME BluezInv, AdvertisementRelease
  PROVE  BluezInv'
<1>0. TypeOK /\ FlagsInv /\ PairableInv
  BY DEF BluezInv
<1>1. /\ inbox' \in Seq(Msgs) /\ Len(inbox') <= MaxInbox + 1
      /\ (\E i \in DOMAIN inbox : inbox[i] # "release") =>
           \E i \in DOMAIN inbox' : inbox'[i] # "release"
  BY <1>0, Popped DEF AdvertisementRelease
<1>2. TypeOK'
  BY <1>0, <1>1 DEF AdvertisementRelease, LosesFlag, TypeOK, Msgs
<1>3. FlagsInv'
  BY <1>0 DEF AdvertisementRelease, LosesFlag, FlagsInv
<1>4. PairableInv'
  BY <1>0, <1>1 DEF AdvertisementRelease, PairableInv
<1> QED
  BY <1>2, <1>3, <1>4 DEF BluezInv

\* Opening the window advertises and sets Pairable, or fails in between.
LEMMA OpenWindowKeeps ==
  ASSUME BluezInv, OpenWindow
  PROVE  BluezInv'
<1>0. TypeOK /\ FlagsInv
  BY DEF BluezInv
<1>1. win' = TRUE /\ owned' = FALSE /\ UNCHANGED <<up, hci, inbox, present, adapter, restarts>>
  BY DEF OpenWindow
<1>2. PairableInv'
  BY <1>1 DEF PairableInv
<1>3. CASE ~adapter
  <2>1. UNCHANGED <<real, pairable, flags, retry, unset, stray, fails>>
    BY <1>3 DEF OpenWindow
  <2> QED
    BY <1>0, <1>1, <1>2, <2>1 DEF BluezInv, TypeOK, FlagsInv
<1>4. CASE adapter
  <2>1. PICK v \in IF "adv" \in flags THEN Skip(real) ELSE Outcomes("adv", real),
             sent \in BOOLEAN :
          /\ SetPairable(TRUE, sent)
          /\ real' = v[1]
          /\ flags' = flags \cup (IF v[2] THEN {"adv"} ELSE {})
          /\ retry' = (retry \/ ~v[2])
          /\ LosesFlag(~v[2])
          /\ CountFailures(Failed(v[2]) + Failed(sent))
    BY <1>4 DEF OpenWindow
  <2>2. v[1] \in SUBSET {"app", "agent", "default", "adv"} /\ v[2] \in BOOLEAN
    BY <1>0, <2>1, OutcomeShape DEF TypeOK
  <2>3. fails' \in 0..MaxFailures
    <3>1. Failed(v[2]) + Failed(sent) \in Nat
      BY DEF Failed
    <3> QED
      BY <1>0, <2>1, <3>1, FailuresTyped
  <2>4. pairable' \in BOOLEAN /\ unset' \in BOOLEAN /\ stray' \in BOOLEAN /\ retry' \in BOOLEAN
    BY <1>0, <2>1, <2>2 DEF SetPairable, LosesFlag, TypeOK
  <2>5. flags' \subseteq {"app", "agent", "adv"} /\ present
    BY <1>0, <1>4, <2>1 DEF TypeOK
  <2>6. TypeOK'
    BY <1>0, <1>1, <2>1, <2>2, <2>3, <2>4, <2>5 DEF TypeOK
  <2>7. FlagsInv'
    BY <1>1, <1>4, <2>1, <2>2 DEF FlagsInv, LosesFlag
  <2> QED
    BY <1>2, <2>6, <2>7 DEF BluezInv
<1> QED
  BY <1>3, <1>4

\* Closing the window unregisters the advertisement and clears Pairable.
LEMMA CloseWindowKeeps ==
  ASSUME BluezInv, CloseWindow
  PROVE  BluezInv'
<1>0. TypeOK /\ FlagsInv
  BY DEF BluezInv
<1>1. /\ win' = FALSE /\ owned' = FALSE
      /\ UNCHANGED <<up, hci, inbox, present, adapter, retry, restarts>>
  BY DEF CloseWindow
<1>3. CASE ~adapter
  <2>1. UNCHANGED <<real, pairable, flags, unset, stray, fails>> /\ flags = {}
    BY <1>0, <1>3 DEF CloseWindow, FlagsInv
  <2> QED
    BY <1>0, <1>1, <1>3, <2>1 DEF BluezInv, TypeOK, FlagsInv, PairableInv
<1>4. CASE adapter
  <2>1. PICK sent, gone \in BOOLEAN :
          /\ SetPairable(FALSE, sent)
          /\ IF "adv" \in flags THEN gone => up ELSE ~gone
          /\ real' = IF gone THEN real \ {"adv"} ELSE real
          /\ flags' = flags \ {"adv"}
          /\ LosesFlag("adv" \in flags /\ ~gone)
          /\ CountFailures(Failed(sent) + Failed("adv" \in flags => gone))
    BY <1>4 DEF CloseWindow
  <2>2. fails' \in 0..MaxFailures
    <3>1. Failed(sent) + Failed("adv" \in flags => gone) \in Nat
      BY DEF Failed
    <3> QED
      BY <1>0, <2>1, <3>1, FailuresTyped
  <2>3. pairable' \in BOOLEAN /\ unset' \in BOOLEAN /\ stray' \in BOOLEAN
    BY <1>0, <2>1 DEF SetPairable, LosesFlag, TypeOK
  <2>4. /\ flags' \subseteq {"app", "agent", "adv"} /\ present
        /\ real' \subseteq {"app", "agent", "default", "adv"}
    BY <1>0, <1>4, <2>1 DEF TypeOK
  <2>5. TypeOK'
    BY <1>0, <1>1, <2>2, <2>3, <2>4 DEF TypeOK
  <2>6. FlagsInv'
    BY <1>0, <1>1, <1>4, <2>1 DEF FlagsInv, LosesFlag
  <2>7. PairableInv'
    BY <2>1 DEF PairableInv, SetPairable
  <2> QED
    BY <2>5, <2>6, <2>7 DEF BluezInv
<1> QED
  BY <1>3, <1>4

\* The owner of the window clears Pairable for everyone else.
LEMMA ClaimWindowKeeps ==
  ASSUME BluezInv, ClaimWindow
  PROVE  BluezInv'
<1>0. TypeOK /\ FlagsInv
  BY DEF BluezInv
<1>1. PICK sent \in BOOLEAN : SetPairable(FALSE, sent) /\ CountFailures(Failed(sent))
  BY DEF ClaimWindow
<1>2. fails' \in 0..MaxFailures
  <2>1. Failed(sent) \in Nat
    BY DEF Failed
  <2> QED
    BY <1>0, <1>1, <2>1, FailuresTyped
<1>3. TypeOK'
  BY <1>0, <1>1, <1>2 DEF ClaimWindow, SetPairable, TypeOK
<1> QED
  BY <1>0, <1>3 DEF BluezInv, ClaimWindow, FlagsInv, PairableInv

\* A new process knows nothing, and its bus name took all objects along.
LEMMA RestartKeeps ==
  ASSUME BluezInv, Restart
  PROVE  BluezInv'
<1>0. TypeOK /\ MaxRestarts \in Nat /\ MaxInbox \in Nat
  BY ProvBluezAssumption DEF BluezInv
<1>1. inbox' \in Seq(Msgs) /\ Len(inbox') <= MaxInbox + 1
  <2>1. inbox' = <<"appeared">> \/ inbox' = <<>>
    BY DEF Restart
  <2>2. CASE inbox' = <<"appeared">>
    <3>1. inbox' \in Seq(Msgs) /\ Len(inbox') = 1
      BY <2>2 DEF Msgs
    <3> QED
      BY <1>0, <3>1
  <2>3. CASE inbox' = <<>>
    BY <1>0, <2>3
  <2> QED
    BY <2>1, <2>2, <2>3
<1>2. restarts' \in 0..MaxRestarts
  BY <1>0 DEF Restart, TypeOK
<1>3. pairable' \in BOOLEAN /\ unset' \in BOOLEAN
  BY <1>0 DEF Restart, SetPairable, TypeOK
<1>4. TypeOK'
  BY <1>0, <1>1, <1>2, <1>3 DEF Restart, TypeOK, Msgs
<1> QED
  BY <1>4 DEF BluezInv, Restart, FlagsInv, PairableInv

\* What BlueZ does by itself.
LEMMA BluezSteps ==
  ASSUME BluezInv, BluezStarts \/ AdapterAppears \/ BluezDies \/ BluezReleases
  PROVE  BluezInv'
<1>0. TypeOK /\ FlagsInv /\ PairableInv
  BY DEF BluezInv
<1>1. CASE BluezStarts
  <2>1. /\ inbox' \in Seq(Msgs) /\ Len(inbox') <= MaxInbox + 1
        /\ \E i \in DOMAIN inbox' : inbox'[i] # "release"
    BY <1>0, <1>1, Pushed DEF BluezStarts, Msgs
  <2> QED
    BY <1>0, <1>1, <2>1
       DEF BluezStarts, daemonVars, BluezInv, TypeOK, Msgs, FlagsInv, PairableInv
<1>2. CASE AdapterAppears
  BY <1>0, <1>2 DEF AdapterAppears, daemonVars, BluezInv, TypeOK, FlagsInv, PairableInv
<1>3. CASE BluezDies
  <2>1. /\ inbox' \in Seq(Msgs) /\ Len(inbox') <= MaxInbox + 1
        /\ \E i \in DOMAIN inbox' : inbox'[i] # "release"
    BY <1>0, <1>3, Pushed DEF BluezDies, Msgs
  <2> QED
    BY <1>0, <1>3, <2>1
       DEF BluezDies, daemonVars, BluezInv, TypeOK, Msgs, FlagsInv, PairableInv
<1>4. CASE BluezReleases
  <2>1. /\ inbox' \in Seq(Msgs) /\ Len(inbox') <= MaxInbox + 1
        /\ (\E i \in DOMAIN inbox : inbox[i] # "release") =>
             \E i \in DOMAIN inbox' : inbox'[i] # "release"
    BY <1>0, <1>4, Pushed DEF BluezReleases, Msgs
  <2> QED
    BY <1>0, <1>4, <2>1
       DEF BluezReleases, daemonVars, BluezInv, TypeOK, Msgs, FlagsInv, PairableInv
<1> QED
  BY <1>1, <1>2, <1>3, <1>4
-----------------------------------------------------------------------------
(* The theorems.                                                           *)

\* Every step keeps the invariant.
LEMMA NextKeeps == BluezInv /\ [Next]_vars => BluezInv'
<1> SUFFICES ASSUME BluezInv, [Next]_vars PROVE BluezInv'
  OBVIOUS
<1>1. CASE UNCHANGED vars
  BY <1>1 DEF vars, bluezVars, daemonVars, BluezInv, TypeOK, FlagsInv, PairableInv
<1> QED
  BY <1>1, RegistrationSteps, NameVanishedKeeps, AdvertisementReleaseKeeps, OpenWindowKeeps,
     CloseWindowKeeps, ClaimWindowKeeps, RestartKeeps, BluezSteps DEF Next, DaemonHandles

\* The inductive invariant of the registrations holds throughout.
THEOREM BluezInvariant == Spec => []BluezInv
BY InitBluez, NextKeeps, PTL DEF Spec

\* Outside a window nothing is advertised and the adapter is not pairable, but
\* for the exceptions QuietOutsideWindow names (register_bluez,
\* egp_bluez_set_window, name_vanished).
THEOREM AdapterIsQuiet == Spec => []QuietOutsideWindow
<1>1. BluezInv => QuietOutsideWindow
  <2> SUFFICES ASSUME BluezInv, ~win
               PROVE  /\ inbox = <<>> /\ adapter /\ ~unset => ~pairable
                      /\ "adv" \in real => stray
    BY DEF QuietOutsideWindow
  <2>1. inbox = <<>> => ~\E i \in DOMAIN inbox : inbox[i] # "release"
    OBVIOUS
  <2> QED
    BY <2>1 DEF BluezInv, PairableInv, FlagsInv
<1> QED
  BY <1>1, BluezInvariant, PTL
=============================================================================
