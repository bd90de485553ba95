---------------------------- MODULE OtaDownload ----------------------------
(***************************************************************************)
(* The bundle download of one attempt (download.c, and the phases PRECHECK *)
(* to RAUC_VERIFY of services.c that use it): a partial file that grows    *)
(* over retries, restarts and power losses, HTTP range resume, and the     *)
(* publication of the verified bundle.                                     *)
(*                                                                         *)
(* State file, partial and bundle share one directory (config.c requires   *)
(* it).  dirs is that directory as a journalling file system sees it: the  *)
(* versions since the last directory fsync, the current one last.  A power *)
(* loss keeps any of them.  file maps an inode to its content: data is     *)
(* what is read, safe what an fsync made durable.  After a power loss the  *)
(* rest may be there, missing or garbage.                                  *)
(*                                                                         *)
(* A byte is the artifact it came from and its offset there; the checksum  *)
(* matches exactly when every byte is right.                               *)
(***************************************************************************)
EXTENDS Naturals, Sequences

CONSTANTS Artifacts,   \* contents a server may hold
          Stale,       \* what an abandoned attempt had downloaded
          Garbage,     \* a byte that was never written
          Size,        \* length of an artifact
          Inodes,      \* bound: files that exist at a time
          MaxFaults    \* bound: kills, power losses, failing calls

NoInode == 0

ASSUME OtaDownloadAssumption ==
  /\ Size \in Nat \ {0}
  /\ Stale \notin Artifacts
  /\ Garbage \notin (Artifacts \cup {Stale}) \X Nat
  /\ Inodes \subseteq Nat \ {NoInode}
  /\ MaxFaults \in Nat

Byte(artifact, offset) == <<artifact, offset>>
Image(artifact) == [n \in 1..Size |-> Byte(artifact, n)]
Bytes == (Artifacts \X (1..Size)) \cup ({Stale} \X (1..Size + 1)) \cup {Garbage}

States == {"PRECHECK", "DOWNLOADING", "VERIFY_DOWNLOAD", "RAUC_VERIFY", "ERROR"}

VARIABLES pc,      \* control point of the agent
          next,    \* the state about to be saved
          t,       \* Transfer: partial, received, limit, attempt, served artifact
          dirs, file,
          target,  \* the artifact of the attempt's manifest
          faults

vars == <<pc, next, t, dirs, file, target, faults>>

PCs == {"down", "phase", "open", "request", "body", "verify", "fsync", "rename",
        "dirsync", "save"}
NoTransfer == [partial |-> 0, received |-> 0, limit |-> 0, attempt |-> 0,
               serves |-> target]

Directory == [part : Inodes \cup {NoInode}, bundle : Inodes \cup {NoInode},
              state : States]

\* Types, and the shape of a file: a byte that was received stands at its own
\* offset, over retries, 200 answers to a range request and restarts.
TypeOK ==
  /\ pc \in PCs /\ next \in States
  /\ t \in [partial : 0..Size, received : 0..Size, limit : 0..Size,
            attempt : 0..1, serves : Artifacts]
  /\ dirs \in Seq(Directory) /\ dirs # <<>>
  /\ file \in [Inodes -> [data : Seq(Bytes), safe : Seq(Bytes)]]
  /\ \A i \in Inodes : \A n \in DOMAIN file[i].data :
       file[i].data[n] # Garbage => file[i].data[n][2] = n
  /\ target \in Artifacts
  /\ faults \in 0..MaxFaults

Here == dirs[Len(dirs)]
part == Here.part
bundle == Here.bundle
Content(data) == [data |-> data, safe |-> data]

\* A new attempt stands in PRECHECK.  An earlier one may have left a bundle, an
\* abandoned one a partial file, even one that is too long.
Init ==
  /\ target \in Artifacts
  /\ \E p, b \in Inodes \cup {NoInode}, a \in Artifacts, n \in 0..(Size + 1) :
       /\ p = b => p = NoInode
       /\ dirs = <<[part |-> p, bundle |-> b, state |-> "PRECHECK"]>>
       /\ file = [i \in Inodes |->
            CASE i = p -> Content([k \in 1..n |-> Byte(Stale, k)])
              [] i = b -> Content(Image(a))
              [] OTHER -> Content(<<>>)]
  /\ pc = "phase" /\ next = "PRECHECK"
  /\ t = NoTransfer
  /\ faults = 0
-----------------------------------------------------------------------------
(* Building blocks.                                                        *)

Fault == faults < MaxFaults /\ faults' = faults + 1

Unlinked == [Here EXCEPT !.part = NoInode]
Change(d) == dirs' = Append(dirs, d)
SyncedAs(d) == dirs' = <<d>>

\* reset_file truncates and syncs.
Reset(i) == file' = [file EXCEPT ![i] = Content(<<>>)]
Fsync(i) == file' = [file EXCEPT ![i].safe = file[i].data]

GoTo(label) == pc' = label /\ UNCHANGED <<next, t>>
Save(state) == pc' = "save" /\ next' = state /\ t' = NoTransfer

\* A hard failure of the phase: ERROR is recorded.
HardFailure == Save("ERROR")

\* Mutant: a bundle of the right length is taken for the attempt's.
BundleValid_SizeOnly == bundle # NoInode /\ Len(file[bundle].data) = Size

\* validate_bundle_path: exact size and checksum of the attempt.
BundleValid == bundle # NoInode /\ file[bundle].data = Image(target)

Phase(state) == pc = "phase" /\ Here.state = state

\* The file that the call has open.
Held == part
-----------------------------------------------------------------------------
(* The phases.                                                             *)

\* ota_download_discard_partial: unlink and sync the directory, if it is there.
DiscardPartial == IF part = NoInode THEN UNCHANGED dirs ELSE SyncedAs(Unlinked)

\* Mutant: an earlier attempt's partial stays.
PrecheckPhase_KeepsPartial ==
  /\ Phase("PRECHECK")
  /\ Save("DOWNLOADING")
  /\ UNCHANGED <<dirs, file, target, faults>>

PrecheckPhase ==
  /\ Phase("PRECHECK")
  /\ DiscardPartial
  /\ Save("DOWNLOADING")
  /\ UNCHANGED <<file, target, faults>>

\* ota_download_bundle returns at once when the bundle is there already.
BundleThere ==
  /\ Phase("DOWNLOADING") /\ BundleValid
  /\ DiscardPartial
  /\ Save("VERIFY_DOWNLOAD")
  /\ UNCHANGED <<file, target, faults>>

\* Otherwise the partial file is opened, or created.
OpenPart ==
  /\ Phase("DOWNLOADING") /\ ~BundleValid
  /\ IF part # NoInode
     THEN UNCHANGED <<dirs, file>>
     ELSE \E i \in Inodes :
            /\ \A k \in DOMAIN dirs : i \notin {dirs[k].part, dirs[k].bundle}
            /\ Change([Here EXCEPT !.part = i])
            /\ Reset(i)
  /\ GoTo("open")
  /\ UNCHANGED <<target, faults>>

\* Its length decides: too long starts over, complete is verified, anything
\* else is resumed if there is space.
Resume ==
  LET length == Len(file[Held].data) IN
  /\ pc = "open"
  /\ IF length > Size THEN Reset(Held) ELSE UNCHANGED file
  /\ IF length = Size
     THEN GoTo("verify")
     ELSE /\ pc' = "request"
          /\ t' = [NoTransfer EXCEPT !.partial = IF length > Size THEN 0 ELSE length]
          /\ UNCHANGED next
  /\ UNCHANGED <<dirs, target, faults>>

NoSpace ==
  /\ pc = "open" /\ Len(file[Held].data) # Size
  /\ HardFailure
  /\ UNCHANGED <<dirs, file, target, faults>>

\* ota_download_response and the header gate, answer by answer.
Receive(from, limit) ==
  /\ pc' = "body"
  /\ \E a \in Artifacts :
       t' = [t EXCEPT !.partial = from, !.received = 0, !.limit = limit, !.serves = a]
  /\ UNCHANGED next

\* Mutant: a full response is appended to the partial.
RespondFull_Appends ==
  /\ pc = "request"
  /\ Receive(0, Size)
  /\ UNCHANGED <<dirs, file, target, faults>>

\* 200: the whole artifact, written from byte zero.
RespondFull ==
  /\ pc = "request"
  /\ Reset(Held)
  /\ Receive(0, Size)
  /\ UNCHANGED <<dirs, target, faults>>

\* 206 with exactly the requested tail.
RespondTail ==
  /\ pc = "request" /\ t.partial > 0
  /\ Receive(t.partial, Size - t.partial)
  /\ UNCHANGED <<dirs, file, target, faults>>

\* 416: one restart from an empty file.
RespondUnsatisfiable ==
  /\ pc = "request"
  /\ Reset(Held)
  /\ IF t.attempt = 1 THEN HardFailure
     ELSE pc' = "request" /\ t' = [NoTransfer EXCEPT !.attempt = 1] /\ UNCHANGED next
  /\ UNCHANGED <<dirs, target, faults>>

\* Another range, length, encoding or status: rejected before any write.
RespondRejected ==
  /\ pc = "request"
  /\ HardFailure
  /\ UNCHANGED <<dirs, file, target, faults>>

\* No answer, or a retryable status: the phase is tried again.
RespondRetry ==
  /\ pc = "request"
  /\ pc' = "phase" /\ t' = NoTransfer /\ UNCHANGED next
  /\ UNCHANGED <<dirs, file, target, faults>>

\* body: the next byte of the response.
Body ==
  /\ pc = "body" /\ t.received < t.limit
  /\ file' = [file EXCEPT ![Held].data = Append(@, Byte(t.serves, t.partial + t.received + 1))]
  /\ t' = [t EXCEPT !.received = @ + 1]
  /\ UNCHANGED <<pc, next, dirs, target, faults>>

BodyEnds ==
  /\ pc = "body" /\ t.received = t.limit
  /\ GoTo("verify")
  /\ UNCHANGED <<dirs, file, target, faults>>

\* The transfer breaks off: what arrived is synced and kept.
BodyBreaks ==
  /\ pc = "body" /\ t.received < t.limit
  /\ IF t.received > 0 THEN Fsync(Held) ELSE UNCHANGED file
  /\ \/ pc' = "phase" /\ t' = NoTransfer /\ UNCHANGED next
     \/ HardFailure
  /\ UNCHANGED <<dirs, target, faults>>

\* verify: a complete file with the wrong checksum is emptied.
Verify ==
  /\ pc = "verify"
  /\ IF file[Held].data = Image(target) THEN GoTo("fsync") /\ UNCHANGED file
     ELSE Reset(Held) /\ HardFailure
  /\ UNCHANGED <<dirs, target, faults>>

\* Mutant: the bundle is renamed before its content is safe.
PublishFsync_Skipped ==
  /\ pc = "fsync"
  /\ GoTo("rename")
  /\ UNCHANGED <<dirs, file, target, faults>>

\* publish, call by call.
PublishFsync ==
  /\ pc = "fsync"
  /\ Fsync(Held)
  /\ GoTo("rename")
  /\ UNCHANGED <<dirs, target, faults>>

PublishRename ==
  /\ pc = "rename"
  /\ Change([Here EXCEPT !.bundle = part, !.part = NoInode])
  /\ GoTo("dirsync")
  /\ UNCHANGED <<file, target, faults>>

PublishDirSync ==
  /\ pc = "dirsync"
  /\ SyncedAs(Here)
  /\ Save("VERIFY_DOWNLOAD")
  /\ UNCHANGED <<file, target, faults>>

\* ota_download_validate_bundle, after any restart.
VerifyDownload ==
  /\ Phase("VERIFY_DOWNLOAD")
  /\ IF BundleValid THEN Save("RAUC_VERIFY") ELSE HardFailure
  /\ UNCHANGED <<dirs, file, target, faults>>

\* The transition: the state file is replaced and the directory synced, or the
\* save fails, perhaps after its rename, and the process ends.
SaveState ==
  /\ pc = "save"
  /\ SyncedAs([Here EXCEPT !.state = next])
  /\ GoTo("phase")
  /\ UNCHANGED <<file, target, faults>>

SaveFails ==
  /\ pc = "save"
  /\ Fault
  /\ Change([Here EXCEPT !.state = next]) \/ UNCHANGED dirs
  /\ pc' = "down" /\ t' = NoTransfer /\ UNCHANGED next
  /\ UNCHANGED <<file, target>>

\* A file operation of the phase fails; a received part of the transfer may
\* have been synced before.
IoFails ==
  /\ pc \in {"open", "body", "verify", "fsync", "rename", "dirsync"}
  /\ Fault
  /\ HardFailure
  /\ IF part # NoInode /\ t.received > 0
     THEN Fsync(Held) \/ UNCHANGED file ELSE UNCHANGED file
  /\ UNCHANGED <<dirs, target>>

\* discard_partial fails before or after the unlink.
DiscardFails ==
  /\ Phase("PRECHECK") \/ (Phase("DOWNLOADING") /\ BundleValid)
  /\ part # NoInode
  /\ Fault
  /\ Change(Unlinked) \/ UNCHANGED dirs
  /\ HardFailure
  /\ UNCHANGED <<file, target>>
-----------------------------------------------------------------------------
Kill ==
  /\ pc # "down"
  /\ Fault
  /\ pc' = "down" /\ t' = NoTransfer
  /\ UNCHANGED <<next, dirs, file, target>>

\* What a power loss may leave of a file.
Survivors(f) ==
  { Content(f.safe), Content(f.data),
    Content([n \in 1..Len(f.data) |-> IF n <= Len(f.safe) THEN f.data[n] ELSE Garbage]) }

PowerLoss ==
  /\ Fault
  /\ \E k \in DOMAIN dirs :
       /\ SyncedAs(dirs[k])
       /\ file' \in { f \in [Inodes -> UNION { Survivors(file[i]) : i \in Inodes }] :
                        \A i \in Inodes : f[i] \in Survivors(file[i]) }
  /\ pc' = "down" /\ t' = NoTransfer
  /\ UNCHANGED <<next, target>>

\* The agent starts: ota_storage_prepare syncs the directory, and the durable phase
\* is resumed (all of them are replay-safe).
Restart ==
  /\ pc = "down"
  /\ SyncedAs(Here)
  /\ pc' = "phase"
  /\ UNCHANGED <<next, t, file, target, faults>>

\* The download is over: RAUC takes the bundle, or ERROR is reported.
Finished ==
  /\ Phase("RAUC_VERIFY") \/ Phase("ERROR")
  /\ UNCHANGED vars

Next ==
  \/ PrecheckPhase \/ BundleThere \/ OpenPart \/ Resume \/ NoSpace
  \/ RespondFull \/ RespondTail \/ RespondUnsatisfiable \/ RespondRejected \/ RespondRetry
  \/ Body \/ BodyEnds \/ BodyBreaks
  \/ Verify \/ PublishFsync \/ PublishRename \/ PublishDirSync
  \/ VerifyDownload \/ SaveState
  \/ SaveFails \/ IoFails \/ DiscardFails \/ Kill \/ PowerLoss \/ Restart \/ Finished

Spec == Init /\ [][Next]_vars
-----------------------------------------------------------------------------
(* Properties.                                                             *)

\* The state RAUC_VERIFY promises the bundle of this attempt, complete and
\* safe: RAUC never meets another file, even when the power fails right after
\* the state was saved or the process died between rename and directory sync.
BundleReadyForRauc ==
  \A k \in DOMAIN dirs : dirs[k].state = "RAUC_VERIFY" =>
    /\ dirs[k].bundle # NoInode
    /\ file[dirs[k].bundle] = Content(Image(target))

\* Under the bundle's name there is never anything but a whole, durable
\* artifact: no partial, mixed or lost data, whatever a power loss undoes.
PublishedIsWhole ==
  \A k \in DOMAIN dirs : dirs[k].bundle # NoInode =>
    \E a \in Artifacts : file[dirs[k].bundle] = Content(Image(a))

\* What an abandoned attempt left in the partial file is gone before this
\* attempt downloads and does not come back: a resume never builds on it.
StalePartialIsGone ==
  Here.state \notin {"PRECHECK", "ERROR"} /\ part # NoInode =>
    \A n \in DOMAIN file[part].data : file[part].data[n] # Byte(Stale, n)
-----------------------------------------------------------------------------
(* The inductive invariant behind these properties.                        *)

\* Every received byte stands at its own offset; none is of another attempt.
Placed(data) == \A n \in DOMAIN data : data[n] # Garbage => data[n][2] = n
Fresh(data) == \A n \in DOMAIN data : data[n] # Byte(Stale, n)

\* What was made durable is as well placed as what is read.
SafeInv == \A i \in Inodes : Placed(file[i].safe)

\* A partial file never has the inode of a bundle that an earlier version names:
\* what the agent truncates or writes is no published artifact.
InodeInv ==
  \A k \in DOMAIN dirs : \A l \in 1..k :
    dirs[k].part # NoInode => dirs[k].part # dirs[l].bundle

\* StalePartialIsGone, of every version that a power loss may bring back.
FreshInv ==
  \A k \in DOMAIN dirs :
    dirs[k].state \notin {"PRECHECK", "ERROR"} /\ dirs[k].part # NoInode =>
      Fresh(file[dirs[k].part].data) /\ Fresh(file[dirs[k].part].safe)

\* The call has its file: as long as it counts, and whole before it is renamed.
HeldInv ==
  /\ pc \in {"open", "request", "body", "verify", "fsync", "rename"} => part # NoInode
  /\ pc = "request" => Len(file[Held].data) = t.partial
  /\ pc = "body" => /\ Len(file[Held].data) = t.partial + t.received
                    /\ t.partial + t.limit = Size /\ t.received <= t.limit
  /\ pc = "fsync" => file[Held].data = Image(target)
  /\ pc = "rename" => file[Held] = Content(Image(target))
  /\ pc = "dirsync" => part = NoInode

\* What the state to be saved will promise is so already.
SaveInv == pc = "save" =>
  /\ next = "RAUC_VERIFY" => bundle # NoInode /\ file[bundle] = Content(Image(target))
  /\ next \notin {"PRECHECK", "ERROR"} /\ part # NoInode =>
       Fresh(file[part].data) /\ Fresh(file[part].safe)

DownloadInv ==
  /\ TypeOK /\ SafeInv /\ InodeInv /\ FreshInv /\ HeldInv /\ SaveInv
  /\ BundleReadyForRauc /\ PublishedIsWhole

=============================================================================
