------------------------- MODULE OtaDownloadProofs -------------------------
(***************************************************************************)
(* What stands under the bundle's name, for artifacts of any size and any  *)
(* number of retries, kills and power losses: DownloadInv is inductive.    *)
(***************************************************************************)
EXTENDS OtaDownload, TLAPS

\* The parts of DownloadInv: the medium, and the agent's variables.
FileSet == [data : Seq(Bytes), safe : Seq(Bytes)]
Good(f) == f \in FileSet /\ Placed(f.data) /\ Placed(f.safe)
FilesInv == file \in [Inodes -> FileSet] /\ \A i \in Inodes : Good(file[i])
StoreInv ==
  /\ dirs \in Seq(Directory) /\ dirs # <<>> /\ target \in Artifacts
  /\ FilesInv /\ InodeInv /\ FreshInv /\ BundleReadyForRauc /\ PublishedIsWhole
Transfers == [partial : 0..Size, received : 0..Size, limit : 0..Size,
              attempt : 0..1, serves : Artifacts]
AgentTyped == pc \in PCs /\ next \in States /\ t \in Transfers /\ faults \in 0..MaxFaults

\* The parts make up the invariant.
LEMMA InvParts == DownloadInv <=> StoreInv /\ AgentTyped /\ HeldInv /\ SaveInv
<1>1. (TypeOK /\ SafeInv) <=>
        /\ dirs \in Seq(Directory) /\ dirs # <<>> /\ target \in Artifacts
        /\ FilesInv /\ AgentTyped
  BY DEF TypeOK, SafeInv, FilesInv, Good, Placed, FileSet, AgentTyped, Transfers
<1> QED
  BY <1>1 DEF DownloadInv, StoreInv

\* The same of the next state.
LEMMA InvPartsNext == DownloadInv' <=> StoreInv' /\ AgentTyped' /\ HeldInv' /\ SaveInv'
<1>1. (TypeOK /\ SafeInv)' <=>
        (/\ dirs \in Seq(Directory) /\ dirs # <<>> /\ target \in Artifacts
         /\ FilesInv /\ AgentTyped)'
  BY DEF TypeOK, SafeInv, FilesInv, Good, Placed, FileSet, AgentTyped, Transfers
<1> QED
  BY <1>1 DEF DownloadInv, StoreInv

\* The current version of the directory.
LEMMA HereTyped ==
  ASSUME StoreInv
  PROVE  /\ Here \in Directory /\ Len(dirs) \in Nat \ {0} /\ DOMAIN dirs = 1..Len(dirs)
         /\ Len(dirs) \in DOMAIN dirs
         /\ part = Here.part /\ bundle = Here.bundle
         /\ part \in Inodes \cup {NoInode} /\ bundle \in Inodes \cup {NoInode}
         /\ Here.state \in States
         /\ \A k \in DOMAIN dirs : dirs[k] \in Directory
<1>1. dirs \in Seq(Directory) /\ dirs # <<>>
  BY DEF StoreInv
<1>2. /\ Len(dirs) \in Nat \ {0} /\ DOMAIN dirs = 1..Len(dirs)
      /\ \A k \in 1..Len(dirs) : dirs[k] \in Directory
  BY <1>1
<1>3. Here \in Directory /\ Len(dirs) \in DOMAIN dirs
  BY <1>1, <1>2 DEF Here
<1> QED
  BY <1>2, <1>3 DEF Directory, part, bundle

\* What the invariant says of the current version.
LEMMA HereFacts ==
  ASSUME StoreInv
  PROVE  /\ part # NoInode => \A k \in DOMAIN dirs : part # dirs[k].bundle
         /\ Here.state \notin {"PRECHECK", "ERROR"} /\ part # NoInode =>
              Fresh(file[part].data) /\ Fresh(file[part].safe)
         /\ Here.state = "RAUC_VERIFY" =>
              bundle # NoInode /\ file[bundle] = Content(Image(target))
         /\ bundle # NoInode => \E a \in Artifacts : file[bundle] = Content(Image(a))
<1>1. /\ Len(dirs) \in DOMAIN dirs /\ DOMAIN dirs = 1..Len(dirs)
      /\ part = dirs[Len(dirs)].part /\ bundle = dirs[Len(dirs)].bundle /\ Here = dirs[Len(dirs)]
  BY HereTyped DEF part, bundle, Here
<1>2. InodeInv /\ FreshInv /\ BundleReadyForRauc /\ PublishedIsWhole
  BY DEF StoreInv
<1>3. part # NoInode => \A k \in DOMAIN dirs : part # dirs[k].bundle
  BY <1>1, <1>2 DEF InodeInv
<1>4. Here.state \notin {"PRECHECK", "ERROR"} /\ part # NoInode =>
        Fresh(file[part].data) /\ Fresh(file[part].safe)
  BY <1>1, <1>2 DEF FreshInv
<1>5. Here.state = "RAUC_VERIFY" => bundle # NoInode /\ file[bundle] = Content(Image(target))
  BY <1>1, <1>2 DEF BundleReadyForRauc
<1>6. bundle # NoInode => \E a \in Artifacts : file[bundle] = Content(Image(a))
  BY <1>1, <1>2 DEF PublishedIsWhole
<1> QED
  BY <1>3, <1>4, <1>5, <1>6

\* What the invariant asks of a version of the directory.
FitsNext(d) ==
  /\ d.part # NoInode => d.part # d.bundle
  /\ d.state \notin {"PRECHECK", "ERROR"} /\ d.part # NoInode =>
       Fresh(file'[d.part].data) /\ Fresh(file'[d.part].safe)
  /\ d.state = "RAUC_VERIFY" => d.bundle # NoInode /\ file'[d.bundle] = Content(Image(target'))
  /\ d.bundle # NoInode => \E a \in Artifacts : file'[d.bundle] = Content(Image(a))

\* A new version is added: files that a version names are as they were.
LEMMA VersionAdded ==
  ASSUME StoreInv, NEW d \in Directory, dirs' = Append(dirs, d), target' = target,
         FilesInv', FitsNext(d),
         d.part # NoInode => \A k \in DOMAIN dirs : d.part # dirs[k].bundle,
         \A k \in DOMAIN dirs :
           /\ dirs[k].part # NoInode => file'[dirs[k].part] = file[dirs[k].part]
           /\ dirs[k].bundle # NoInode => file'[dirs[k].bundle] = file[dirs[k].bundle]
  PROVE  StoreInv' /\ Here' = d
<1>1. dirs \in Seq(Directory) /\ Len(dirs) \in Nat /\ DOMAIN dirs = 1..Len(dirs)
  BY HereTyped DEF StoreInv
<1>2. /\ dirs' \in Seq(Directory) /\ dirs' # <<>> /\ Len(dirs') = Len(dirs) + 1
      /\ DOMAIN dirs' = 1..(Len(dirs) + 1) /\ dirs'[Len(dirs) + 1] = d
      /\ \A k \in 1..Len(dirs) : dirs'[k] = dirs[k]
  BY <1>1
<1>3. Here' = d
  BY <1>2 DEF Here
<1>4. InodeInv'
  <2> SUFFICES ASSUME NEW k \in DOMAIN dirs', NEW l \in 1..k, dirs'[k].part # NoInode
               PROVE  dirs'[k].part # dirs'[l].bundle
    BY DEF InodeInv
  <2>1. CASE k \in 1..Len(dirs)
    <3>1. l \in 1..Len(dirs) /\ dirs'[k] = dirs[k] /\ dirs'[l] = dirs[l]
      BY <1>1, <1>2, <2>1
    <3> QED
      BY <1>1, <2>1, <3>1 DEF StoreInv, InodeInv
  <2>2. CASE k = Len(dirs) + 1
    <3>1. CASE l \in 1..Len(dirs)
      BY <1>1, <1>2, <2>2, <3>1
    <3>2. CASE l = Len(dirs) + 1
      BY <1>2, <2>2, <3>2 DEF FitsNext
    <3> QED
      BY <1>1, <2>2, <3>1, <3>2
  <2> QED
    BY <1>1, <1>2, <2>1, <2>2
<1>5. FreshInv' /\ BundleReadyForRauc' /\ PublishedIsWhole'
  <2>1. \A k \in DOMAIN dirs' : k = Len(dirs) + 1 \/ (k \in DOMAIN dirs /\ dirs'[k] = dirs[k])
    BY <1>1, <1>2
  <2>2. FreshInv'
    BY <1>2, <2>1 DEF StoreInv, FreshInv, FitsNext
  <2>3. BundleReadyForRauc'
    BY <1>2, <2>1 DEF StoreInv, BundleReadyForRauc, FitsNext
  <2>4. PublishedIsWhole'
    BY <1>2, <2>1 DEF StoreInv, PublishedIsWhole, FitsNext
  <2> QED
    BY <2>2, <2>3, <2>4
<1> QED
  BY <1>2, <1>3, <1>4, <1>5 DEF StoreInv

\* A synced directory has one version.
LEMMA VersionSynced ==
  ASSUME NEW d \in Directory, dirs' = <<d>>, target' \in Artifacts, FilesInv', FitsNext(d)
  PROVE  StoreInv' /\ Here' = d
<1>1. /\ dirs' \in Seq(Directory) /\ dirs' # <<>> /\ Len(dirs') = 1
      /\ DOMAIN dirs' = {1} /\ dirs'[1] = d
  OBVIOUS
<1>2. Here' = d
  BY <1>1 DEF Here
<1>3. \A k \in DOMAIN dirs' : dirs'[k] = d /\ \A l \in 1..k : dirs'[l] = d
  BY <1>1
<1>4. InodeInv'
  BY <1>3 DEF InodeInv, FitsNext
<1>5. FreshInv' /\ BundleReadyForRauc' /\ PublishedIsWhole'
  BY <1>3 DEF FreshInv, BundleReadyForRauc, PublishedIsWhole, FitsNext
<1> QED
  BY <1>1, <1>2, <1>4, <1>5 DEF StoreInv

\* A write to the partial file: no version names it as its bundle.
LEMMA PartWritten ==
  ASSUME StoreInv, part # NoInode, NEW g, Good(g), file' = [file EXCEPT ![part] = g],
         Fresh(file[part].data) /\ Fresh(file[part].safe) => Fresh(g.data) /\ Fresh(g.safe),
         UNCHANGED <<dirs, target>>
  PROVE  StoreInv' /\ file'[part] = g /\ Here' = Here /\ part' = part
<1>1. part \in Inodes /\ file \in [Inodes -> FileSet]
  BY HereTyped DEF StoreInv, FilesInv
<1>2. /\ file' \in [Inodes -> FileSet] /\ file'[part] = g
      /\ \A i \in Inodes \ {part} : file'[i] = file[i]
  BY <1>1 DEF Good
<1>3. FilesInv'
  <2>1. \A i \in Inodes : Good(file'[i])
    BY <1>2 DEF StoreInv, FilesInv
  <2> QED
    BY <1>2, <2>1 DEF FilesInv, Good
<1>4. Here' = Here /\ part' = part
  BY DEF Here, part
<1>5. \A k \in DOMAIN dirs : dirs[k].bundle # NoInode => file'[dirs[k].bundle] = file[dirs[k].bundle]
  <2>1. \A k \in DOMAIN dirs : dirs[k].bundle # part /\ dirs[k].bundle \in Inodes \cup {NoInode}
    BY HereFacts, HereTyped DEF Directory
  <2> QED
    BY <1>2, <2>1
<1>6. FreshInv'
  <2> SUFFICES ASSUME NEW k \in DOMAIN dirs, dirs[k].state \notin {"PRECHECK", "ERROR"},
                      dirs[k].part # NoInode
               PROVE  Fresh(file'[dirs[k].part].data) /\ Fresh(file'[dirs[k].part].safe)
    BY DEF FreshInv
  <2>1. dirs[k].part \in Inodes
    BY HereTyped DEF Directory
  <2>2. Fresh(file[dirs[k].part].data) /\ Fresh(file[dirs[k].part].safe)
    BY DEF StoreInv, FreshInv
  <2> QED
    BY <1>2, <2>1, <2>2
<1>7. InodeInv'
  BY DEF StoreInv, InodeInv
<1>8. BundleReadyForRauc'
  BY <1>5 DEF StoreInv, BundleReadyForRauc
<1>9. PublishedIsWhole'
  BY <1>5 DEF StoreInv, PublishedIsWhole
<1> QED
  BY <1>2, <1>3, <1>4, <1>6, <1>7, <1>8, <1>9 DEF StoreInv

\* An empty file, and a file of its own fsynced content.
LEMMA EmptyGood == Good(Content(<<>>)) /\ Fresh(Content(<<>>).data) /\ Fresh(Content(<<>>).safe)
BY DEF Good, Content, FileSet, Placed, Fresh

\* A file whose content is durable as it stands.
LEMMA ContentGood ==
  ASSUME NEW data \in Seq(Bytes), Placed(data)
  PROVE  Good(Content(data)) /\ Content(data).data = data /\ Content(data).safe = data
BY DEF Good, Content, FileSet

\* An fsync makes durable what is read.
LEMMA FsyncedGood ==
  ASSUME StoreInv, NEW i \in Inodes
  PROVE  /\ [file[i] EXCEPT !.safe = file[i].data] = Content(file[i].data)
         /\ Good(Content(file[i].data))
         /\ [file EXCEPT ![i].safe = file[i].data] = [file EXCEPT ![i] = Content(file[i].data)]
         /\ Content(file[i].data).data = file[i].data /\ Content(file[i].data).safe = file[i].data
<1>1. file[i] \in FileSet /\ Good(file[i]) /\ file \in [Inodes -> FileSet]
  BY DEF StoreInv, FilesInv
<1>2. [file[i] EXCEPT !.safe = file[i].data] = Content(file[i].data)
  BY <1>1 DEF FileSet, Content
<1>3. file[i].data \in Seq(Bytes) /\ Placed(file[i].data)
  BY <1>1 DEF FileSet, Good
<1> QED
  BY <1>1, <1>2, <1>3, ContentGood

\* A power loss keeps good files good, fresh ones fresh and synced ones whole.
LEMMA SurvivorGood ==
  ASSUME NEW f, Good(f), NEW g \in Survivors(f)
  PROVE  /\ Good(g)
         /\ Fresh(f.data) /\ Fresh(f.safe) => Fresh(g.data) /\ Fresh(g.safe)
         /\ f.data = f.safe => g = f
<1>1. f \in FileSet /\ f.data \in Seq(Bytes) /\ f.safe \in Seq(Bytes) /\ Placed(f.data) /\ Placed(f.safe)
  BY DEF Good, FileSet
<1>2. CASE g = Content(f.safe) \/ g = Content(f.data)
  <2>1. Good(g)
    BY <1>1, <1>2, ContentGood
  <2>2. Fresh(f.data) /\ Fresh(f.safe) => Fresh(g.data) /\ Fresh(g.safe)
    BY <1>1, <1>2, ContentGood
  <2>3. f.data = f.safe => g = f
    BY <1>1, <1>2 DEF Content, FileSet
  <2> QED
    BY <2>1, <2>2, <2>3
<1>3. CASE g \notin {Content(f.safe), Content(f.data)}
  <2> PICK mixed : mixed = [n \in 1..Len(f.data) |-> IF n <= Len(f.safe) THEN f.data[n] ELSE Garbage]
    OBVIOUS
  <2>1. g = Content(mixed)
    BY <1>3 DEF Survivors
  <2>2. /\ Len(f.data) \in Nat /\ DOMAIN f.data = 1..Len(f.data)
        /\ \A n \in 1..Len(f.data) : f.data[n] \in Bytes
    BY <1>1
  <2>3. Garbage \in Bytes
    BY DEF Bytes
  <2>4. mixed \in Seq(Bytes) /\ DOMAIN mixed = 1..Len(f.data)
    BY <2>2, <2>3
  <2>5. Placed(mixed)
    BY <1>1, <2>2, <2>4 DEF Placed
  <2>6. Good(g) /\ g.data = mixed /\ g.safe = mixed
    BY <2>1, <2>4, <2>5, ContentGood
  <2>7. ASSUME Fresh(f.data) PROVE Fresh(mixed)
    <3> SUFFICES ASSUME NEW n \in DOMAIN mixed PROVE mixed[n] # Byte(Stale, n)
      BY DEF Fresh
    <3>1. mixed[n] = f.data[n] \/ mixed[n] = Garbage
      BY <2>4
    <3>2. f.data[n] # Byte(Stale, n)
      BY <2>2, <2>4, <2>7 DEF Fresh
    <3>3. Garbage # Byte(Stale, n)
      BY <2>2, <2>4, OtaDownloadAssumption DEF Byte
    <3> QED
      BY <3>1, <3>2, <3>3
  <2>8. ASSUME f.data = f.safe PROVE g = f
    <3>1. mixed = f.data
      BY <1>1, <2>2, <2>4, <2>8
    <3>2. g = [data |-> f.data, safe |-> f.safe]
      BY <2>1, <2>8, <3>1 DEF Content
    <3> QED
      BY <1>1, <3>2 DEF FileSet
  <2> QED
    BY <2>6, <2>7, <2>8
<1> QED
  BY <1>2, <1>3

\* The count of faults stays in its bound.
LEMMA FaultTyped ==
  ASSUME faults \in 0..MaxFaults, Fault \/ UNCHANGED faults
  PROVE  faults' \in 0..MaxFaults
BY OtaDownloadAssumption DEF Fault

\* No transfer is under way: its record has its type.
LEMMA NoTransferTyped ==
  ASSUME target \in Artifacts
  PROVE  NoTransfer \in Transfers /\ NoTransfer.partial = 0 /\ NoTransfer.received = 0
BY OtaDownloadAssumption DEF NoTransfer, Transfers

\* A hard failure promises nothing.
LEMMA HardFailureKeeps ==
  ASSUME DownloadInv, HardFailure, StoreInv', UNCHANGED target, Fault \/ UNCHANGED faults
  PROVE  DownloadInv'
<1>1. pc' = "save" /\ next' = "ERROR" /\ t' = NoTransfer
  BY DEF HardFailure, Save
<1>2. StoreInv /\ AgentTyped /\ target \in Artifacts
  BY InvParts DEF StoreInv
<1>3. AgentTyped'
  BY <1>1, <1>2, FaultTyped, NoTransferTyped DEF AgentTyped, PCs, States
<1>4. HeldInv' /\ SaveInv'
  BY <1>1 DEF HeldInv, SaveInv
<1> QED
  BY <1>3, <1>4, InvPartsNext

\* Neither does a process that is down or at the start of its phase.
LEMMA PhaseKeeps ==
  ASSUME DownloadInv, StoreInv', UNCHANGED <<next, target>>, Fault \/ UNCHANGED faults,
         pc' \in {"phase", "down"}, t' = NoTransfer \/ t' = t
  PROVE  DownloadInv'
<1>1. StoreInv /\ AgentTyped /\ target \in Artifacts
  BY InvParts DEF StoreInv
<1>2. AgentTyped'
  BY <1>1, FaultTyped, NoTransferTyped DEF AgentTyped, PCs
<1>3. HeldInv' /\ SaveInv'
  BY DEF HeldInv, SaveInv
<1> QED
  BY <1>2, <1>3, InvPartsNext

\* Steps that leave the medium alone.
LEMMA StoreStays ==
  ASSUME StoreInv, UNCHANGED <<dirs, file, target>>
  PROVE  StoreInv' /\ Here' = Here /\ part' = part /\ bundle' = bundle /\ Held' = Held
<1>1. Here' = Here /\ part' = part /\ bundle' = bundle /\ Held' = Held
  BY DEF Here, part, bundle, Held
<1>2. FilesInv'
  BY DEF StoreInv, FilesInv, Good
<1>3. InodeInv' /\ FreshInv' /\ BundleReadyForRauc' /\ PublishedIsWhole'
  BY DEF StoreInv, InodeInv, FreshInv, BundleReadyForRauc, PublishedIsWhole
<1> QED
  BY <1>1, <1>2, <1>3 DEF StoreInv

\* A whole artifact, and what an abandoned attempt left, are good files.
LEMMA ImageGood ==
  ASSUME NEW a \in Artifacts
  PROVE  Image(a) \in Seq(Bytes) /\ Placed(Image(a)) /\ Len(Image(a)) = Size
<1>1. Size \in Nat /\ \A n \in 1..Size : Byte(a, n) \in Bytes
  BY OtaDownloadAssumption DEF Bytes, Byte
<1>2. Image(a) \in Seq(Bytes) /\ DOMAIN Image(a) = 1..Size /\ Len(Image(a)) = Size
  BY <1>1 DEF Image
<1>3. Placed(Image(a))
  BY <1>2 DEF Placed, Image, Byte
<1> QED
  BY <1>2, <1>3

\* The same for what an abandoned attempt left.
LEMMA StaleGood ==
  ASSUME NEW n \in 0..(Size + 1)
  PROVE  [k \in 1..n |-> Byte(Stale, k)] \in Seq(Bytes) /\ Placed([k \in 1..n |-> Byte(Stale, k)])
<1> PICK s : s = [k \in 1..n |-> Byte(Stale, k)]
  OBVIOUS
<1>1. Size \in Nat /\ n \in Nat /\ \A k \in 1..n : Byte(Stale, k) \in Bytes
  BY OtaDownloadAssumption DEF Bytes, Byte
<1>2. s \in Seq(Bytes) /\ DOMAIN s = 1..n
  BY <1>1
<1>3. Placed(s)
  BY <1>2 DEF Placed, Byte
<1> QED
  BY <1>2, <1>3

\* A board with an earlier bundle and an abandoned partial satisfies the
\* invariant.
LEMMA InitDownload == Init => DownloadInv
<1> SUFFICES ASSUME Init PROVE DownloadInv
  OBVIOUS
<1>1. PICK p \in Inodes \cup {NoInode}, b \in Inodes \cup {NoInode}, a \in Artifacts,
           n \in 0..(Size + 1) :
        /\ p = b => p = NoInode
        /\ dirs = <<[part |-> p, bundle |-> b, state |-> "PRECHECK"]>>
        /\ file = [i \in Inodes |->
             CASE i = p -> Content([k \in 1..n |-> Byte(Stale, k)])
               [] i = b -> Content(Image(a))
               [] OTHER -> Content(<<>>)]
  BY DEF Init
<1> PICK d : d = [part |-> p, bundle |-> b, state |-> "PRECHECK"]
  OBVIOUS
<1>2. d \in Directory /\ d.part = p /\ d.bundle = b /\ d.state = "PRECHECK"
  BY DEF Directory, States
<1>3. /\ dirs \in Seq(Directory) /\ dirs # <<>> /\ Len(dirs) = 1 /\ DOMAIN dirs = {1}
      /\ dirs[1] = d
  <2>1. dirs = <<d>>
    BY <1>1
  <2> QED
    BY <1>2, <2>1
<1>4. FilesInv
  <2>1. \A i \in Inodes : Good(file[i])
    <3> SUFFICES ASSUME NEW i \in Inodes PROVE Good(file[i])
      OBVIOUS
    <3>1. \/ file[i] = Content([k \in 1..n |-> Byte(Stale, k)])
          \/ file[i] = Content(Image(a)) \/ file[i] = Content(<<>>)
      BY <1>1
    <3> QED
      BY <3>1, EmptyGood, ImageGood, StaleGood, ContentGood
  <2> QED
    BY <1>1, <2>1 DEF FilesInv, Good
<1>5. b # NoInode => file[b] = Content(Image(a))
  BY <1>1
<1>6. InodeInv
  BY <1>1, <1>2, <1>3 DEF InodeInv
<1>7. FreshInv /\ BundleReadyForRauc /\ PublishedIsWhole
  BY <1>2, <1>3, <1>5 DEF FreshInv, BundleReadyForRauc, PublishedIsWhole
<1>8. target \in Artifacts /\ pc = "phase" /\ next = "PRECHECK" /\ t = NoTransfer /\ faults = 0
  BY DEF Init
<1>9. StoreInv
  BY <1>3, <1>4, <1>6, <1>7, <1>8 DEF StoreInv
<1>10. AgentTyped
  <2>1. 0 \in 0..MaxFaults
    BY OtaDownloadAssumption
  <2> QED
    BY <1>8, <2>1, NoTransferTyped DEF AgentTyped, PCs, States
<1>11. HeldInv /\ SaveInv
  BY <1>8 DEF HeldInv, SaveInv
<1> QED
  BY <1>9, <1>10, <1>11, InvParts

\* An unchanged set of files is good again.
LEMMA FilesStay ==
  ASSUME StoreInv, UNCHANGED file
  PROVE  FilesInv'
BY DEF StoreInv, FilesInv, Good

\* A copy of the current version with another state, without its partial, or
\* as it is, fits what the invariant asks.
LEMMA CopyFits ==
  ASSUME StoreInv, UNCHANGED <<file, target>>, NEW d \in Directory,
         d.bundle = Here.bundle, d.part \in {NoInode, Here.part},
         \/ d.state \in {Here.state, "PRECHECK", "ERROR"}
         \/ /\ d.state = "RAUC_VERIFY" => bundle # NoInode /\ file[bundle] = Content(Image(target))
            /\ d.part # NoInode => Fresh(file[part].data) /\ Fresh(file[part].safe)
  PROVE  FitsNext(d) /\ (d.part # NoInode => \A k \in DOMAIN dirs : d.part # dirs[k].bundle)
<1>1. part = Here.part /\ bundle = Here.bundle /\ Here = dirs[Len(dirs)] /\ Len(dirs) \in DOMAIN dirs
  BY HereTyped DEF Here
<1>2. /\ part # NoInode => \A k \in DOMAIN dirs : part # dirs[k].bundle
      /\ Here.state \notin {"PRECHECK", "ERROR"} /\ part # NoInode =>
           Fresh(file[part].data) /\ Fresh(file[part].safe)
      /\ Here.state = "RAUC_VERIFY" =>
           bundle # NoInode /\ file[bundle] = Content(Image(target))
      /\ bundle # NoInode => \E a \in Artifacts : file[bundle] = Content(Image(a))
  BY HereFacts
<1>3. d.part # NoInode => d.part = part /\ \A k \in DOMAIN dirs : d.part # dirs[k].bundle
  BY <1>1, <1>2
<1>4. d.part # NoInode => d.part # d.bundle
  BY <1>1, <1>3
<1>5. d.state \notin {"PRECHECK", "ERROR"} /\ d.part # NoInode =>
        Fresh(file[d.part].data) /\ Fresh(file[d.part].safe)
  BY <1>1, <1>2
<1>6. d.state = "RAUC_VERIFY" => d.bundle # NoInode /\ file[d.bundle] = Content(Image(target))
  BY <1>1, <1>2
<1>7. d.bundle # NoInode => \E a \in Artifacts : file[d.bundle] = Content(Image(a))
  BY <1>1, <1>2
<1> QED
  BY <1>3, <1>4, <1>5, <1>6, <1>7 DEF FitsNext

\* So the medium is in order after such a copy, synced or not.
LEMMA CopyKeeps ==
  ASSUME StoreInv, UNCHANGED <<file, target>>, NEW d \in Directory,
         d.bundle = Here.bundle, d.part \in {NoInode, Here.part},
         \/ d.state \in {Here.state, "PRECHECK", "ERROR"}
         \/ /\ d.state = "RAUC_VERIFY" => bundle # NoInode /\ file[bundle] = Content(Image(target))
            /\ d.part # NoInode => Fresh(file[part].data) /\ Fresh(file[part].safe),
         dirs' = <<d>> \/ dirs' = Append(dirs, d)
  PROVE  StoreInv' /\ Here' = d
<1>1. FitsNext(d) /\ (d.part # NoInode => \A k \in DOMAIN dirs : d.part # dirs[k].bundle)
  BY CopyFits
<1>2. FilesInv' /\ target' \in Artifacts
  BY FilesStay DEF StoreInv
<1>3. CASE dirs' = <<d>>
  BY <1>1, <1>2, <1>3, VersionSynced
<1>4. CASE dirs' = Append(dirs, d)
  BY <1>1, <1>2, <1>4, VersionAdded
<1> QED
  BY <1>3, <1>4

\* ota_download_discard_partial: the partial is not named any more.
LEMMA DiscardKeeps ==
  ASSUME StoreInv, DiscardPartial, UNCHANGED <<file, target>>
  PROVE  StoreInv' /\ part' = NoInode /\ bundle' = bundle /\ Here'.state = Here.state
<1>0. Here \in Directory /\ part = Here.part /\ bundle = Here.bundle
  BY HereTyped
<1>1. CASE part = NoInode
  <2>1. UNCHANGED dirs
    BY <1>1 DEF DiscardPartial
  <2> QED
    BY <1>1, <2>1, StoreStays
<1>2. CASE part # NoInode
  <2> PICK d : d = Unlinked
    OBVIOUS
  <2>1. dirs' = <<d>>
    BY <1>2 DEF DiscardPartial, SyncedAs
  <2>2. d \in Directory /\ d.bundle = Here.bundle /\ d.part = NoInode /\ d.state = Here.state
    BY <1>0 DEF Unlinked, Directory
  <2>3. StoreInv' /\ Here' = d
    BY <2>1, <2>2, CopyKeeps
  <2> QED
    BY <1>0, <2>2, <2>3 DEF part, bundle
<1> QED
  BY <1>1, <1>2

\* The state that is saved next promises what there is.
LEMMA SaveKeeps ==
  ASSUME DownloadInv, StoreInv', NEW state \in States, Save(state),
         UNCHANGED <<target, faults>>,
         state = "RAUC_VERIFY" => bundle' # NoInode /\ file'[bundle'] = Content(Image(target)),
         part' # NoInode => Fresh(file'[part'].data) /\ Fresh(file'[part'].safe)
  PROVE  DownloadInv'
<1>1. pc' = "save" /\ next' = state /\ t' = NoTransfer
  BY DEF Save
<1>2. StoreInv /\ AgentTyped /\ target \in Artifacts
  BY InvParts DEF StoreInv
<1>3. AgentTyped'
  BY <1>1, <1>2, NoTransferTyped DEF AgentTyped, PCs
<1>4. HeldInv' /\ SaveInv'
  BY <1>1 DEF HeldInv, SaveInv
<1> QED
  BY <1>3, <1>4, InvPartsNext

\* PRECHECK, and DOWNLOADING with the bundle there already.
LEMMA DiscardPhasesKeep ==
  ASSUME DownloadInv, PrecheckPhase \/ BundleThere
  PROVE  DownloadInv'
<1>1. StoreInv /\ DiscardPartial /\ UNCHANGED <<file, target, faults>>
  BY InvParts DEF PrecheckPhase, BundleThere
<1>2. PICK state \in {"DOWNLOADING", "VERIFY_DOWNLOAD"} : Save(state)
  BY DEF PrecheckPhase, BundleThere
<1>3. StoreInv' /\ part' = NoInode
  BY <1>1, DiscardKeeps
<1> QED
  BY <1>1, <1>2, <1>3, SaveKeeps DEF States

\* discard_partial fails before or after the unlink.
LEMMA DiscardFailsKeeps ==
  ASSUME DownloadInv, DiscardFails
  PROVE  DownloadInv'
<1>1. StoreInv /\ Fault /\ HardFailure /\ UNCHANGED <<file, target>>
  BY InvParts DEF DiscardFails
<1>2. StoreInv'
  <2>1. CASE UNCHANGED dirs
    BY <1>1, <2>1, StoreStays
  <2>2. CASE Change(Unlinked)
    <3> PICK d : d = Unlinked
      OBVIOUS
    <3>1. d \in Directory /\ d.bundle = Here.bundle /\ d.part = NoInode /\ d.state = Here.state
      BY <1>1, HereTyped DEF Unlinked, Directory
    <3> QED
      BY <1>1, <2>2, <3>1, CopyKeeps DEF Change
  <2> QED
    BY <2>1, <2>2 DEF DiscardFails
<1> QED
  BY <1>1, <1>2, HardFailureKeeps

\* The partial file is opened, or created under an inode no version names.
LEMMA OpenPartKeeps ==
  ASSUME DownloadInv, OpenPart
  PROVE  DownloadInv'
<1>1. StoreInv /\ AgentTyped /\ Here \in Directory /\ part = Here.part /\ bundle = Here.bundle
  BY InvParts, HereTyped
<1>2. /\ Here.state = "DOWNLOADING" /\ pc' = "open" /\ UNCHANGED <<next, t, target, faults>>
  BY DEF OpenPart, Phase, GoTo
<1>3. StoreInv' /\ part' # NoInode
  <2>1. CASE part # NoInode
    <3>1. UNCHANGED <<dirs, file>>
      BY <2>1 DEF OpenPart
    <3> QED
      BY <1>1, <1>2, <2>1, <3>1, StoreStays
  <2>2. CASE part = NoInode
    <3>1. PICK i \in Inodes :
            /\ \A k \in DOMAIN dirs : i \notin {dirs[k].part, dirs[k].bundle}
            /\ Change([Here EXCEPT !.part = i])
            /\ Reset(i)
      BY <2>2 DEF OpenPart
    <3> PICK d : d = [Here EXCEPT !.part = i]
      OBVIOUS
    <3>2. /\ d \in Directory /\ d.bundle = Here.bundle /\ d.part = i /\ d.state = Here.state
          /\ i # NoInode
      BY <1>1, OtaDownloadAssumption DEF Directory
    <3>3. dirs' = Append(dirs, d) /\ file' = [file EXCEPT ![i] = Content(<<>>)]
      BY <3>1 DEF Change, Reset
    <3>4. /\ file \in [Inodes -> FileSet] /\ Content(<<>>) \in FileSet /\ Good(Content(<<>>))
          /\ \A j \in Inodes : Good(file[j])
      BY <1>1, EmptyGood DEF StoreInv, FilesInv, Good
    <3>5. /\ file' \in [Inodes -> FileSet] /\ file'[i] = Content(<<>>)
          /\ \A j \in Inodes \ {i} : file'[j] = file[j]
      BY <3>3, <3>4
    <3>6. FilesInv'
      <4>1. \A j \in Inodes : Good(file'[j])
        BY <3>4, <3>5
      <4> QED
        BY <3>5, <4>1 DEF FilesInv, Good
    <3>7. \A k \in DOMAIN dirs :
            /\ dirs[k].part # NoInode => file'[dirs[k].part] = file[dirs[k].part]
            /\ dirs[k].bundle # NoInode => file'[dirs[k].bundle] = file[dirs[k].bundle]
      BY <1>1, <3>1, <3>5, HereTyped DEF Directory
    <3>8. bundle # NoInode => file'[bundle] = file[bundle] /\ bundle # i
      BY <1>1, <3>1, <3>7, HereTyped DEF Here
    <3>9. FitsNext(d)
      <4>1. bundle # NoInode => \E a \in Artifacts : file[bundle] = Content(Image(a))
        BY <1>1, HereFacts
      <4>2. d.part # d.bundle
        BY <1>1, <3>2, <3>8
      <4>3. Fresh(file'[d.part].data) /\ Fresh(file'[d.part].safe)
        BY <3>2, <3>5, EmptyGood
      <4> QED
        BY <1>1, <1>2, <3>2, <3>8, <4>1, <4>2, <4>3 DEF FitsNext
    <3>10. StoreInv' /\ Here' = d
      BY <1>1, <1>2, <3>1, <3>2, <3>3, <3>6, <3>7, <3>9, VersionAdded
    <3> QED
      BY <3>2, <3>10 DEF part
  <2> QED
    BY <2>1, <2>2
<1>4. AgentTyped'
  BY <1>1, <1>2 DEF AgentTyped, PCs
<1>5. HeldInv' /\ SaveInv'
  BY <1>2, <1>3 DEF HeldInv, SaveInv
<1> QED
  BY <1>3, <1>4, <1>5, InvPartsNext

\* reset_file on the partial.
LEMMA ResetKeeps ==
  ASSUME StoreInv, part # NoInode, Reset(Held), UNCHANGED <<dirs, target>>
  PROVE  StoreInv' /\ part' = part /\ Held' = Held /\ Len(file'[Held].data) = 0
<1>1. file' = [file EXCEPT ![part] = Content(<<>>)]
  BY DEF Reset, Held
<1>2. StoreInv' /\ file'[part] = Content(<<>>) /\ part' = part
  BY <1>1, EmptyGood, PartWritten
<1>3. Content(<<>>).data = <<>>
  BY DEF Content
<1> QED
  BY <1>2, <1>3 DEF Held

\* fsync of the partial.
LEMMA FsyncKeeps ==
  ASSUME StoreInv, part # NoInode, Fsync(Held), UNCHANGED <<dirs, target>>
  PROVE  StoreInv' /\ part' = part /\ Held' = Held /\ file'[Held] = Content(file[Held].data)
<1>1. part \in Inodes
  BY HereTyped
<1> PICK g : g = Content(file[part].data)
  OBVIOUS
<1>2. /\ Good(g) /\ g.data = file[part].data /\ g.safe = file[part].data
      /\ file' = [file EXCEPT ![part] = g]
  BY <1>1, FsyncedGood DEF Fsync, Held
<1>3. StoreInv' /\ file'[part] = g /\ part' = part
  BY <1>2, PartWritten
<1> QED
  BY <1>3 DEF Held

\* The length of the partial decides how the transfer begins.
LEMMA ResumeKeeps ==
  ASSUME DownloadInv, Resume
  PROVE  DownloadInv'
<1>0. StoreInv /\ AgentTyped /\ HeldInv /\ target \in Artifacts
  BY InvParts DEF StoreInv
<1>1. pc = "open" /\ UNCHANGED <<next, dirs, target, faults>>
  BY DEF Resume, GoTo
<1>2. part # NoInode /\ part \in Inodes /\ Size \in Nat
  BY <1>0, <1>1, HereTyped, OtaDownloadAssumption DEF HeldInv
<1> PICK length : length = Len(file[Held].data)
  OBVIOUS
<1>3. length \in Nat
  BY <1>0, <1>2 DEF StoreInv, FilesInv, FileSet, Held
<1>4. CASE length = Size
  <2>1. UNCHANGED file /\ pc' = "verify" /\ UNCHANGED t
    BY <1>2, <1>3, <1>4 DEF Resume, GoTo
  <2>2. StoreInv' /\ part' = part
    BY <1>0, <1>1, <2>1, StoreStays
  <2>3. AgentTyped' /\ HeldInv' /\ SaveInv'
    BY <1>0, <1>1, <1>2, <2>1, <2>2 DEF AgentTyped, PCs, HeldInv, SaveInv
  <2> QED
    BY <2>2, <2>3, InvPartsNext
<1>5. CASE length # Size
  <2>1. /\ pc' = "request"
        /\ t' = [NoTransfer EXCEPT !.partial = IF length > Size THEN 0 ELSE length]
        /\ IF length > Size THEN Reset(Held) ELSE UNCHANGED file
    BY <1>5 DEF Resume
  <2>2. t' \in Transfers /\ t'.partial = IF length > Size THEN 0 ELSE length
    <3>1. (IF length > Size THEN 0 ELSE length) \in 0..Size
      BY <1>2, <1>3
    <3> QED
      BY <1>0, <2>1, <3>1, NoTransferTyped DEF Transfers
  <2>3. StoreInv' /\ part' = part /\ Len(file'[Held'].data) = t'.partial
    <3>1. CASE length > Size
      BY <1>0, <1>1, <1>2, <2>1, <2>2, <3>1, ResetKeeps
    <3>2. CASE ~(length > Size)
      <4>1. UNCHANGED file
        BY <2>1, <3>2
      <4> QED
        BY <1>0, <1>1, <2>2, <3>2, <4>1, StoreStays
    <3> QED
      BY <3>1, <3>2
  <2>4. AgentTyped' /\ HeldInv' /\ SaveInv'
    BY <1>0, <1>1, <1>2, <2>1, <2>2, <2>3 DEF AgentTyped, PCs, HeldInv, SaveInv
  <2> QED
    BY <2>3, <2>4, InvPartsNext
<1> QED
  BY <1>4, <1>5

\* A response is accepted: the bytes to come follow the ones there are.
LEMMA ReceiveKeeps ==
  ASSUME DownloadInv, NEW from \in 0..Size, NEW limit \in 0..Size, from + limit = Size,
         Receive(from, limit), UNCHANGED <<target, faults>>,
         StoreInv', part' # NoInode, Len(file'[Held'].data) = from
  PROVE  DownloadInv'
<1>0. AgentTyped /\ Size \in Nat
  BY InvParts, OtaDownloadAssumption
<1>1. PICK a \in Artifacts :
        t' = [t EXCEPT !.partial = from, !.received = 0, !.limit = limit, !.serves = a]
  BY DEF Receive
<1>2. t' \in Transfers /\ t'.partial = from /\ t'.received = 0 /\ t'.limit = limit
  <2>1. 0 \in 0..Size
    BY <1>0
  <2> QED
    BY <1>0, <1>1, <2>1 DEF AgentTyped, Transfers
<1>3. pc' = "body" /\ next' = next
  BY DEF Receive
<1>4. AgentTyped'
  BY <1>0, <1>2, <1>3 DEF AgentTyped, PCs
<1>5. HeldInv' /\ SaveInv'
  BY <1>0, <1>2, <1>3 DEF HeldInv, SaveInv
<1> QED
  BY <1>4, <1>5, InvPartsNext

\* The answers of the server.
LEMMA RespondKeeps ==
  ASSUME DownloadInv, \/ RespondFull \/ RespondTail \/ RespondUnsatisfiable
                      \/ RespondRejected \/ RespondRetry
  PROVE  DownloadInv'
<1>0. /\ StoreInv /\ AgentTyped /\ target \in Artifacts /\ Size \in Nat /\ t.partial \in 0..Size
      /\ HeldInv
  BY InvParts, OtaDownloadAssumption DEF StoreInv, AgentTyped, Transfers
<1>1. pc = "request" /\ UNCHANGED <<dirs, target, faults>>
  BY DEF RespondFull, RespondTail, RespondUnsatisfiable, RespondRejected, RespondRetry
<1>2. part # NoInode /\ Len(file[Held].data) = t.partial
  BY <1>0, <1>1 DEF HeldInv
<1>3. CASE RespondFull
  <2>1. Reset(Held) /\ Receive(0, Size)
    BY <1>3 DEF RespondFull
  <2>2. StoreInv' /\ part' = part /\ Len(file'[Held'].data) = 0
    BY <1>0, <1>1, <1>2, <2>1, ResetKeeps
  <2> QED
    BY <1>0, <1>1, <1>2, <2>1, <2>2, ReceiveKeeps
<1>4. CASE RespondTail
  <2>1. Receive(t.partial, Size - t.partial) /\ UNCHANGED file
    BY <1>4 DEF RespondTail
  <2>2. StoreInv' /\ part' = part /\ Held' = Held
    BY <1>0, <1>1, <2>1, StoreStays
  <2>3. Size - t.partial \in 0..Size /\ t.partial + (Size - t.partial) = Size
    BY <1>0
  <2> QED
    BY <1>0, <1>1, <1>2, <2>1, <2>2, <2>3, ReceiveKeeps
<1>5. CASE RespondUnsatisfiable
  <2>1. StoreInv' /\ part' = part /\ Len(file'[Held'].data) = 0
    BY <1>0, <1>1, <1>2, <1>5, ResetKeeps DEF RespondUnsatisfiable
  <2>2. CASE HardFailure
    BY <1>1, <2>1, <2>2, HardFailureKeeps
  <2>3. CASE pc' = "request" /\ t' = [NoTransfer EXCEPT !.attempt = 1] /\ UNCHANGED next
    <3>1. t' \in Transfers /\ t'.partial = 0
      BY <1>0, <2>3, NoTransferTyped DEF Transfers
    <3>2. AgentTyped' /\ HeldInv' /\ SaveInv'
      BY <1>0, <1>1, <1>2, <2>1, <2>3, <3>1 DEF AgentTyped, PCs, HeldInv, SaveInv
    <3> QED
      BY <2>1, <3>2, InvPartsNext
  <2> QED
    BY <1>5, <2>2, <2>3 DEF RespondUnsatisfiable
<1>6. CASE RespondRejected
  BY <1>0, <1>1, <1>6, StoreStays, HardFailureKeeps DEF RespondRejected
<1>7. CASE RespondRetry
  BY <1>0, <1>1, <1>7, StoreStays, PhaseKeeps DEF RespondRetry
<1> QED
  BY <1>3, <1>4, <1>5, <1>6, <1>7

\* body: a byte of the response goes to its own offset.
LEMMA BodyKeeps ==
  ASSUME DownloadInv, Body
  PROVE  DownloadInv'
<1>0. /\ StoreInv /\ AgentTyped /\ HeldInv /\ Size \in Nat /\ t \in Transfers
      /\ t.partial \in 0..Size /\ t.received \in 0..Size /\ t.limit \in 0..Size
      /\ t.serves \in Artifacts
  BY InvParts, OtaDownloadAssumption DEF AgentTyped, Transfers
<1>1. /\ pc = "body" /\ t.received < t.limit /\ t' = [t EXCEPT !.received = @ + 1]
      /\ UNCHANGED <<pc, next, dirs, target, faults>>
  BY DEF Body
<1>2. /\ part # NoInode /\ part \in Inodes
      /\ Len(file[part].data) = t.partial + t.received /\ t.partial + t.limit = Size
  BY <1>0, <1>1, HereTyped DEF HeldInv, Held
<1> PICK b : b = Byte(t.serves, t.partial + t.received + 1)
  OBVIOUS
<1> PICK data : data = file[part].data
  OBVIOUS
<1> PICK g : g = [file[part] EXCEPT !.data = Append(data, b)]
  OBVIOUS
<1>3. /\ file[part] \in FileSet /\ data \in Seq(Bytes) /\ Placed(data) /\ Placed(file[part].safe)
      /\ file[part].safe \in Seq(Bytes) /\ file \in [Inodes -> FileSet]
  BY <1>0, <1>2 DEF StoreInv, FilesInv, Good, FileSet
<1>4. file' = [file EXCEPT ![part] = g]
  BY <1>2, <1>3 DEF Body, Held
<1>5. b \in Bytes /\ b[2] = Len(data) + 1 /\ \A n \in Nat : b # Byte(Stale, n)
  <2>1. t.partial + t.received + 1 \in 1..Size /\ t.partial + t.received + 1 = Len(data) + 1
    BY <1>0, <1>1, <1>2
  <2>2. t.serves # Stale
    BY <1>0, OtaDownloadAssumption
  <2> QED
    BY <1>0, <2>1, <2>2 DEF Bytes, Byte
<1>6. /\ Append(data, b) \in Seq(Bytes) /\ Len(Append(data, b)) = Len(data) + 1
      /\ Len(data) \in Nat /\ DOMAIN Append(data, b) = 1..(Len(data) + 1) /\ DOMAIN data = 1..Len(data)
      /\ Append(data, b)[Len(data) + 1] = b
      /\ \A n \in 1..Len(data) : Append(data, b)[n] = data[n]
  BY <1>3, <1>5
<1>7. Placed(Append(data, b))
  <2> SUFFICES ASSUME NEW n \in 1..(Len(data) + 1), Append(data, b)[n] # Garbage
               PROVE  Append(data, b)[n][2] = n
    BY <1>6 DEF Placed
  <2>1. CASE n = Len(data) + 1
    BY <1>5, <1>6, <2>1
  <2>2. CASE n \in 1..Len(data)
    BY <1>3, <1>6, <2>2 DEF Placed
  <2> QED
    BY <1>6, <2>1, <2>2
<1>8. g \in FileSet /\ g.data = Append(data, b) /\ g.safe = file[part].safe
  BY <1>3, <1>6 DEF FileSet
<1>9. Good(g)
  BY <1>3, <1>7, <1>8 DEF Good
<1>10. ASSUME Fresh(data) PROVE Fresh(Append(data, b))
  <2> SUFFICES ASSUME NEW n \in 1..(Len(data) + 1) PROVE Append(data, b)[n] # Byte(Stale, n)
    BY <1>6 DEF Fresh
  <2>1. CASE n = Len(data) + 1
    BY <1>5, <1>6, <2>1
  <2>2. CASE n \in 1..Len(data)
    BY <1>6, <1>10, <2>2 DEF Fresh
  <2> QED
    BY <1>6, <2>1, <2>2
<1>11. StoreInv' /\ file'[part] = g /\ part' = part
  BY <1>0, <1>1, <1>2, <1>4, <1>8, <1>9, <1>10, PartWritten
<1>12. /\ t' \in Transfers /\ t'.received = t.received + 1 /\ t'.partial = t.partial
       /\ t'.limit = t.limit
  <2>1. t.received + 1 \in 0..Size
    BY <1>0, <1>1
  <2> QED
    BY <1>0, <1>1, <2>1 DEF Transfers
<1>13. AgentTyped'
  BY <1>0, <1>1, <1>12 DEF AgentTyped
<1>14. HeldInv' /\ SaveInv'
  <2>1. Len(file'[Held'].data) = t'.partial + t'.received /\ t'.received <= t'.limit
    <3>1. file'[Held'].data = Append(data, b)
      BY <1>8, <1>11 DEF Held
    <3>2. Len(data) = t.partial + t.received
      BY <1>2
    <3> QED
      BY <1>0, <1>1, <1>6, <1>12, <3>1, <3>2
  <2> QED
    BY <1>1, <1>2, <1>11, <1>12, <2>1 DEF HeldInv, SaveInv
<1> QED
  BY <1>11, <1>13, <1>14, InvPartsNext

\* The transfer is complete, breaks off, or there is no space for it.
LEMMA TransferEndsKeep ==
  ASSUME DownloadInv, BodyEnds \/ BodyBreaks \/ NoSpace
  PROVE  DownloadInv'
<1>0. StoreInv /\ AgentTyped /\ HeldInv
  BY InvParts
<1>1. CASE BodyEnds
  <2>1. pc = "body" /\ pc' = "verify" /\ UNCHANGED <<next, t, dirs, file, target, faults>>
    BY <1>1 DEF BodyEnds, GoTo
  <2>2. StoreInv' /\ part' = part
    BY <1>0, <2>1, StoreStays
  <2>3. AgentTyped' /\ HeldInv' /\ SaveInv'
    BY <1>0, <2>1, <2>2 DEF AgentTyped, PCs, HeldInv, SaveInv
  <2> QED
    BY <2>2, <2>3, InvPartsNext
<1>2. CASE BodyBreaks
  <2>1. pc = "body" /\ UNCHANGED <<dirs, target, faults>> /\ (Fsync(Held) \/ UNCHANGED file)
    BY <1>2 DEF BodyBreaks
  <2>2. StoreInv'
    <3>1. part # NoInode
      BY <1>0, <2>1 DEF HeldInv
    <3> QED
      BY <1>0, <2>1, <3>1, FsyncKeeps, StoreStays
  <2>3. CASE HardFailure
    BY <2>1, <2>2, <2>3, HardFailureKeeps
  <2>4. CASE pc' = "phase" /\ t' = NoTransfer /\ UNCHANGED next
    BY <2>1, <2>2, <2>4, PhaseKeeps
  <2> QED
    BY <1>2, <2>3, <2>4 DEF BodyBreaks
<1>3. CASE NoSpace
  BY <1>0, <1>3, StoreStays, HardFailureKeeps DEF NoSpace
<1> QED
  BY <1>1, <1>2, <1>3

\* verify and publish: only a whole, durable file gets the bundle's name.
LEMMA VerifyKeeps ==
  ASSUME DownloadInv, Verify
  PROVE  DownloadInv'
<1>0. StoreInv /\ AgentTyped /\ HeldInv
  BY InvParts
<1>1. pc = "verify" /\ part # NoInode /\ UNCHANGED <<dirs, target, faults>>
  BY <1>0 DEF Verify, HeldInv
<1>2. CASE file[Held].data = Image(target)
  <2>1. pc' = "fsync" /\ UNCHANGED <<next, t, file>>
    BY <1>2 DEF Verify, GoTo
  <2>2. StoreInv' /\ part' = part /\ Held' = Held
    BY <1>0, <1>1, <2>1, StoreStays
  <2>3. Image(target)' = Image(target)
    BY <1>1 DEF Image, Byte
  <2>4. AgentTyped' /\ HeldInv' /\ SaveInv'
    BY <1>0, <1>1, <1>2, <2>1, <2>2, <2>3 DEF AgentTyped, PCs, HeldInv, SaveInv
  <2> QED
    BY <2>2, <2>4, InvPartsNext
<1>3. CASE file[Held].data # Image(target)
  <2>1. Reset(Held) /\ HardFailure
    BY <1>3 DEF Verify
  <2> QED
    BY <1>0, <1>1, <2>1, ResetKeeps, HardFailureKeeps
<1> QED
  BY <1>2, <1>3

\* The content is made durable before the rename.
LEMMA PublishFsyncKeeps ==
  ASSUME DownloadInv, PublishFsync
  PROVE  DownloadInv'
<1>0. StoreInv /\ AgentTyped /\ HeldInv
  BY InvParts
<1>1. /\ pc = "fsync" /\ pc' = "rename" /\ Fsync(Held)
      /\ UNCHANGED <<next, t, dirs, target, faults>>
  BY DEF PublishFsync, GoTo
<1>2. part # NoInode /\ file[Held].data = Image(target)
  BY <1>0, <1>1 DEF HeldInv
<1>3. StoreInv' /\ part' = part /\ Held' = Held /\ file'[Held] = Content(file[Held].data)
  BY <1>0, <1>1, <1>2, FsyncKeeps
<1>4. file'[Held'] = Content(Image(target'))
  BY <1>1, <1>2, <1>3
<1>5. AgentTyped' /\ HeldInv' /\ SaveInv'
  BY <1>0, <1>1, <1>2, <1>3, <1>4 DEF AgentTyped, PCs, HeldInv, SaveInv
<1> QED
  BY <1>3, <1>5, InvPartsNext

\* The rename names a whole artifact.
LEMMA PublishRenameKeeps ==
  ASSUME DownloadInv, PublishRename
  PROVE  DownloadInv'
<1>0. StoreInv /\ AgentTyped /\ HeldInv /\ target \in Artifacts
  BY InvParts DEF StoreInv
<1>1. pc = "rename" /\ pc' = "dirsync" /\ UNCHANGED <<next, t, file, target, faults>>
  BY DEF PublishRename, GoTo
<1>2. part # NoInode /\ file[part] = Content(Image(target)) /\ Here \in Directory /\ part \in Inodes
  BY <1>0, <1>1, HereTyped DEF HeldInv, Held
<1> PICK d : d = [Here EXCEPT !.bundle = part, !.part = NoInode]
  OBVIOUS
<1>3. d \in Directory /\ d.bundle = part /\ d.part = NoInode /\ d.state = Here.state
  BY <1>2 DEF Directory
<1>4. dirs' = Append(dirs, d)
  BY DEF PublishRename, Change
<1>5. file'[d.bundle] = Content(Image(target')) /\ file'[d.bundle] = Content(Image(target))
  BY <1>1, <1>2, <1>3
<1>6. FitsNext(d)
  BY <1>0, <1>2, <1>3, <1>5 DEF FitsNext
<1>7. StoreInv' /\ Here' = d
  BY <1>0, <1>1, <1>3, <1>4, <1>6, FilesStay, VersionAdded
<1>8. AgentTyped' /\ HeldInv' /\ SaveInv'
  BY <1>0, <1>1, <1>3, <1>7 DEF AgentTyped, PCs, HeldInv, SaveInv, part
<1> QED
  BY <1>7, <1>8, InvPartsNext

\* The directory sync of the publication.
LEMMA PublishDirSyncKeeps ==
  ASSUME DownloadInv, PublishDirSync
  PROVE  DownloadInv'
<1>0. StoreInv /\ HeldInv /\ Here \in Directory /\ part = Here.part
  BY InvParts, HereTyped
<1>1. /\ pc = "dirsync" /\ dirs' = <<Here>> /\ Save("VERIFY_DOWNLOAD")
      /\ UNCHANGED <<file, target, faults>>
  BY DEF PublishDirSync, SyncedAs
<1>2. StoreInv' /\ Here' = Here
  BY <1>0, <1>1, CopyKeeps
<1>3. part' = NoInode
  BY <1>0, <1>1, <1>2 DEF HeldInv, part
<1> QED
  BY <1>1, <1>2, <1>3, SaveKeeps DEF States

\* ota_download_validate_bundle: the right content is durable content.
LEMMA VerifyDownloadKeeps ==
  ASSUME DownloadInv, VerifyDownload
  PROVE  DownloadInv'
<1>0. StoreInv /\ UNCHANGED <<dirs, file, target, faults>> /\ Here.state = "VERIFY_DOWNLOAD"
  BY InvParts DEF VerifyDownload, Phase
<1>1. StoreInv' /\ part' = part /\ bundle' = bundle
  BY <1>0, StoreStays
<1>2. CASE BundleValid
  <2>1. Save("RAUC_VERIFY") /\ bundle # NoInode /\ file[bundle].data = Image(target)
    BY <1>2 DEF VerifyDownload, BundleValid
  <2>2. PICK a \in Artifacts : file[bundle] = Content(Image(a))
    BY <1>0, <2>1, HereFacts
  <2>3. Image(a) = Image(target)
    <3>1. Content(Image(a)).data = Image(a)
      BY DEF Content
    <3> QED
      BY <2>1, <2>2, <3>1
  <2>4. file[bundle] = Content(Image(target))
    BY <2>2, <2>3
  <2>5. part # NoInode => Fresh(file[part].data) /\ Fresh(file[part].safe)
    BY <1>0, HereFacts
  <2> QED
    BY <1>0, <1>1, <2>1, <2>4, <2>5, SaveKeeps DEF States
<1>3. CASE ~BundleValid
  BY <1>0, <1>1, <1>3, HardFailureKeeps DEF VerifyDownload
<1> QED
  BY <1>2, <1>3

\* ota_transition: the state is saved, or the save fails with or without it.
LEMMA SavesKeep ==
  ASSUME DownloadInv, SaveState \/ SaveFails
  PROVE  DownloadInv'
<1>0. StoreInv /\ AgentTyped /\ SaveInv /\ Here \in Directory /\ part = Here.part
  BY InvParts, HereTyped
<1>1. /\ pc = "save" /\ UNCHANGED <<next, file, target>> /\ pc' \in {"phase", "down"}
      /\ Fault \/ UNCHANGED faults
      /\ t' = NoTransfer \/ t' = t
  BY DEF SaveState, SaveFails, GoTo
<1> PICK d : d = [Here EXCEPT !.state = next]
  OBVIOUS
<1>2. d \in Directory /\ d.part = Here.part /\ d.bundle = Here.bundle /\ d.state = next
  BY <1>0 DEF Directory, AgentTyped
<1>3. dirs' = <<d>> \/ dirs' = Append(dirs, d) \/ UNCHANGED dirs
  BY DEF SaveState, SaveFails, SyncedAs, Change
<1>4. /\ next = "RAUC_VERIFY" => bundle # NoInode /\ file[bundle] = Content(Image(target))
      /\ next \notin {"PRECHECK", "ERROR"} /\ part # NoInode =>
           Fresh(file[part].data) /\ Fresh(file[part].safe)
  BY <1>0, <1>1 DEF SaveInv
<1>5. StoreInv'
  <2>1. CASE UNCHANGED dirs
    BY <1>0, <1>1, <2>1, StoreStays
  <2>2. CASE dirs' = <<d>> \/ dirs' = Append(dirs, d)
    BY <1>0, <1>1, <1>2, <1>4, <2>2, CopyKeeps
  <2> QED
    BY <1>3, <2>1, <2>2
<1> QED
  BY <1>1, <1>5, PhaseKeeps

\* A file operation of the phase fails.
LEMMA IoFailsKeeps ==
  ASSUME DownloadInv, IoFails
  PROVE  DownloadInv'
<1>0. StoreInv /\ Fault /\ HardFailure /\ UNCHANGED <<dirs, target>>
  BY InvParts DEF IoFails
<1>1. UNCHANGED file \/ (part # NoInode /\ Fsync(Held))
  BY DEF IoFails
<1>2. StoreInv'
  BY <1>0, <1>1, FsyncKeeps, StoreStays
<1> QED
  BY <1>0, <1>2, HardFailureKeeps

\* A power loss brings back some version of the directory, and of every file
\* what was durable: published artifacts stay whole.
LEMMA PowerLossKeeps ==
  ASSUME DownloadInv, PowerLoss
  PROVE  DownloadInv'
<1>0. StoreInv /\ target \in Artifacts /\ \A i \in Inodes : Good(file[i])
  BY InvParts DEF StoreInv, FilesInv
<1>1. Fault /\ pc' = "down" /\ t' = NoTransfer /\ UNCHANGED <<next, target>>
  BY DEF PowerLoss
<1>2. PICK k \in DOMAIN dirs :
        /\ dirs' = <<dirs[k]>>
        /\ file' \in { f \in [Inodes -> UNION { Survivors(file[i]) : i \in Inodes }] :
                          \A i \in Inodes : f[i] \in Survivors(file[i]) }
  BY DEF PowerLoss, SyncedAs
<1> PICK d : d = dirs[k]
  OBVIOUS
<1>3. /\ d \in Directory /\ d.part \in Inodes \cup {NoInode} /\ d.bundle \in Inodes \cup {NoInode}
      /\ k \in 1..k
  BY <1>0, HereTyped DEF Directory
<1>4. /\ file' \in [Inodes -> UNION { Survivors(file[i]) : i \in Inodes }]
      /\ \A i \in Inodes : file'[i] \in Survivors(file[i])
  BY <1>2
<1>5. \A i \in Inodes :
        /\ Good(file'[i])
        /\ Fresh(file[i].data) /\ Fresh(file[i].safe) => Fresh(file'[i].data) /\ Fresh(file'[i].safe)
        /\ file[i].data = file[i].safe => file'[i] = file[i]
  BY <1>0, <1>4, SurvivorGood
<1>6. FilesInv'
  <2>1. file' \in [Inodes -> FileSet]
    <3>1. \A i \in Inodes : file'[i] \in FileSet
      BY <1>5 DEF Good
    <3> QED
      BY <1>4, <3>1
  <2> QED
    BY <1>5, <2>1 DEF FilesInv, Good
<1>7. \A a : Content(Image(a)).data = Content(Image(a)).safe
  BY DEF Content
<1>8. d.bundle # NoInode => file'[d.bundle] = file[d.bundle]
  <2>1. d.bundle # NoInode => \E a \in Artifacts : file[d.bundle] = Content(Image(a))
    BY <1>0 DEF StoreInv, PublishedIsWhole
  <2> QED
    BY <1>3, <1>5, <1>7, <2>1
<1>9. FitsNext(d)
  <2>1. d.part # NoInode => d.part # d.bundle
    BY <1>0, <1>3 DEF StoreInv, InodeInv
  <2>2. d.state \notin {"PRECHECK", "ERROR"} /\ d.part # NoInode =>
          Fresh(file'[d.part].data) /\ Fresh(file'[d.part].safe)
    BY <1>0, <1>3, <1>5 DEF StoreInv, FreshInv
  <2>3. d.state = "RAUC_VERIFY" => d.bundle # NoInode /\ file'[d.bundle] = Content(Image(target'))
    BY <1>0, <1>1, <1>8 DEF StoreInv, BundleReadyForRauc
  <2>4. d.bundle # NoInode => \E a \in Artifacts : file'[d.bundle] = Content(Image(a))
    BY <1>0, <1>8 DEF StoreInv, PublishedIsWhole
  <2> QED
    BY <2>1, <2>2, <2>3, <2>4 DEF FitsNext
<1>10. StoreInv'
  BY <1>0, <1>1, <1>2, <1>3, <1>6, <1>9, VersionSynced
<1> QED
  BY <1>1, <1>10, PhaseKeeps

\* Every step keeps the invariant.
LEMMA NextKeeps ==
  ASSUME DownloadInv, [Next]_vars
  PROVE  DownloadInv'
<1>0. StoreInv /\ AgentTyped /\ HeldInv /\ SaveInv
  BY InvParts
<1>1. CASE Kill \/ Restart
  <2>1. /\ UNCHANGED <<next, file, target>> /\ (Fault \/ UNCHANGED faults)
        /\ pc' \in {"phase", "down"} /\ (t' = NoTransfer \/ t' = t)
        /\ UNCHANGED dirs \/ dirs' = <<Here>>
    BY <1>1 DEF Kill, Restart, SyncedAs
  <2>2. StoreInv'
    BY <1>0, <2>1, StoreStays, HereTyped, CopyKeeps
  <2> QED
    BY <1>0, <2>1, <2>2, PhaseKeeps
<1>2. CASE UNCHANGED vars
  <2>1. StoreInv' /\ part' = part /\ bundle' = bundle /\ Held' = Held
    BY <1>0, <1>2, StoreStays DEF vars
  <2>2. UNCHANGED <<pc, next, t, file, target, faults>>
    BY <1>2 DEF vars
  <2>3. AgentTyped'
    BY <1>0, <2>2 DEF AgentTyped
  <2>4. HeldInv'
    BY <1>0, <2>1, <2>2 DEF HeldInv
  <2>5. SaveInv'
    BY <1>0, <2>1, <2>2 DEF SaveInv
  <2> QED
    BY <2>1, <2>3, <2>4, <2>5, InvPartsNext
<1>3. CASE Next
  BY <1>1, <1>2, <1>3, DiscardPhasesKeep, DiscardFailsKeeps, OpenPartKeeps, ResumeKeeps,
     RespondKeeps, BodyKeeps, TransferEndsKeep, VerifyKeeps, PublishFsyncKeeps,
     PublishRenameKeeps, PublishDirSyncKeeps, VerifyDownloadKeeps, SavesKeep, IoFailsKeeps,
     PowerLossKeeps DEF Next, Finished
<1> QED
  BY <1>2, <1>3
-----------------------------------------------------------------------------
(* The theorems.                                                           *)

\* DownloadInv holds in every reachable state of an attempt's download.
THEOREM DownloadInvariant == Spec => []DownloadInv
<1>1. DownloadInv /\ [Next]_vars => DownloadInv'
  BY NextKeeps
<1> QED
  BY InitDownload, <1>1, PTL DEF Spec

\* The state RAUC_VERIFY promises the attempt's own bundle, complete and safe
\* (download.c, services.c): no power loss takes it back.
THEOREM RaucMeetsItsBundle == Spec => []BundleReadyForRauc
<1>1. DownloadInv => BundleReadyForRauc
  BY DEF DownloadInv
<1> QED
  BY <1>1, DownloadInvariant, PTL

\* publish in download.c: under the bundle's name there is a whole, durable
\* artifact or nothing.
THEOREM BundleIsAlwaysWhole == Spec => []PublishedIsWhole
<1>1. DownloadInv => PublishedIsWhole
  BY DEF DownloadInv
<1> QED
  BY <1>1, DownloadInvariant, PTL

\* ota_download_discard_partial in PRECHECK: no resume builds on the partial
\* file of an abandoned attempt.
THEOREM ResumeIsOfThisAttempt == Spec => []StalePartialIsGone
<1>1. DownloadInv => StalePartialIsGone
  <2> SUFFICES ASSUME DownloadInv PROVE StalePartialIsGone
    OBVIOUS
  <2>1. Here.state \notin {"PRECHECK", "ERROR"} /\ part # NoInode => Fresh(file[part].data)
    BY InvParts, HereFacts
  <2> QED
    BY <2>1 DEF StalePartialIsGone, Fresh
<1> QED
  BY <1>1, DownloadInvariant, PTL
=============================================================================
