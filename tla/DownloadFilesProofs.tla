------------------------- MODULE DownloadFilesProofs --------------------------
(***************************************************************************)
(* What the sidecar tells is true, for any number of sessions, requests,   *)
(* workers and versions: the jobs share one partial file and one local     *)
(* file, resume what others have left and are killed between any two       *)
(* changes of the disk.                                                    *)
(***************************************************************************)
EXTENDS DownloadQueueProofs, SequenceTheorems

BeforeGet == {"none", "queued", "stat", "look", "migrate", "migrateMeta", "partial",
              "unmeta", "meta", "get"}

FileTypes ==
  /\ remote \in Versions
  /\ blocks \in [Inodes -> Seq(Versions)]
  /\ part \in Requests \cup {None}
  /\ local \in Inodes \cup {None}
  /\ old \in {Legacy, None}
  /\ partMeta \in Versions \cup {None}
  /\ sidecar \in Versions \cup {None}
  /\ oldSidecar \in {1, None}
  /\ seen \in [Requests -> Versions \cup {None}]
  /\ sftp \in [Requests -> [file : Inodes, from : Versions, at : Nat] \cup {None}]
  /\ opened \subseteq Requests \cap Opens
  /\ part # None => part # local

(* An sftp process writes no further than the end of its file. *)
Writers(f) == {r \in Requests : sftp[r] # None /\ sftp[r].file = f}

SftpOK(r) ==
  /\ pc[r] \in {"copy", "orphan"} => sftp[r] # None
  /\ sftp[r] # None => sftp[r].at <= Len(blocks[sftp[r].file])

(* The inode of a job that has not come to its transfer is unused.         *)
FreshOK(r) ==
  pc[r] \in BeforeGet =>
    blocks[r] = <<>> /\ r # part /\ r # local /\ Writers(r) = {}

(* Nothing tells of, holds or reads a version that is still to come.       *)
Past(v) == v # None => v <= remote

PastOK ==
  /\ Past(partMeta)
  /\ Past(sidecar)
  /\ \A r \in Requests : Past(seen[r])
  /\ \A r \in Requests : sftp[r] # None => sftp[r].from <= remote
  /\ \A f \in Inodes : \A i \in 1..Len(blocks[f]) : blocks[f][i] <= remote

(* A file of which every block is of the version the remote file has, and  *)
(* will be until it changes.                                               *)
Clean(f) ==
  /\ \A i \in 1..Len(blocks[f]) : blocks[f][i] = remote
  /\ \A r \in Requests : sftp[r] # None /\ sftp[r].file = f => sftp[r].from = remote

(* What tells of the local file that it is of that version: the sidecar,   *)
(* or a job that is about to write it.                                     *)
LocalClaimed ==
  \/ sidecar = remote
  \/ \E r \in Requests : pc[r] \in {"published", "sidecar"} /\ seen[r] = remote

(* The partial file may become the local one while such a claim stands, so *)
(* it has to be clean for those, too.                                      *)
PartClaimed ==
  \/ partMeta = remote
  \/ sidecar = remote
  \/ \E r \in Requests :
       /\ pc[r] \in {"unmeta", "meta", "get", "copy", "check", "publish", "published",
                     "sidecar"}
       /\ seen[r] = remote

FilesOK ==
  /\ LocalClaimed => local \in {None, Legacy} \/ Clean(local)
  /\ PartClaimed => part = None \/ Clean(part)

FInv ==
  /\ FileTypes
  /\ \A r \in Requests : SftpOK(r) /\ FreshOK(r)
  /\ PastOK
  /\ FilesOK

-----------------------------------------------------------------------------
(* A step that leaves the disk, the remote file and what is written to it  *)
(* alone (an sftp process may end): what the jobs claim then, they or      *)
(* another claimed before.                                                 *)
LEMMA DiskStays ==
  ASSUME FInv, UNCHANGED <<remote, blocks, disk>>,
         opened' \subseteq Requests \cap Opens,
         seen' \in [Requests -> Versions \cup {None}],
         sftp' \in [Requests -> [file : Inodes, from : Versions, at : Nat] \cup {None}],
         \A r \in Requests :
           /\ Past(seen'[r])
           /\ sftp'[r] \in {sftp[r], None}
           /\ pc'[r] \in {"copy", "orphan"} =>
                pc[r] \in {"copy", "orphan"} /\ sftp'[r] = sftp[r]
           /\ pc'[r] \in BeforeGet => pc[r] \in BeforeGet
           /\ pc'[r] \in {"published", "sidecar"} /\ seen'[r] = remote => LocalClaimed
           /\ /\ pc'[r] \in {"unmeta", "meta", "get", "copy", "check", "publish",
                             "published", "sidecar"}
              /\ seen'[r] = remote
              => PartClaimed
  PROVE  FInv'
<1>1. FileTypes'
  BY DEF FInv, FileTypes, disk
<1>2. ASSUME NEW r \in Requests PROVE SftpOK(r)' /\ FreshOK(r)'
  BY <1>2 DEF FInv, FileTypes, SftpOK, FreshOK, Writers, disk
<1>3. PastOK'
  BY DEF FInv, PastOK, Past, disk
<1>4. \A f : Clean(f) => Clean(f)'
  BY DEF Clean
<1>5. FilesOK'
  <2>1. LocalClaimed' => LocalClaimed
    BY DEF LocalClaimed, disk
  <2>2. PartClaimed' => PartClaimed
    BY DEF PartClaimed, disk
  <2>3. QED
    BY <1>4, <2>1, <2>2 DEF FInv, FilesOK, disk
<1>6. QED
  BY <1>1, <1>2, <1>3, <1>5 DEF FInv

-----------------------------------------------------------------------------
(* Helpers, sessions and statements of _run that do not change the disk.   *)
LEMMA BridgeStays ==
  ASSUME IInv, FInv,
         \/ \E r \in Requests : Complete(r) \/ \E s \in Sessions : Submit(r, s)
         \/ \E s \in Sessions : StopBridge(s) \/ StopForward(s) \/ Shutdown(s) \/ Killed(s)
  PROVE  FInv'
<1>1. /\ UNCHANGED <<remote, blocks, disk, sftp, opened>>
      /\ \A r \in Requests : seen'[r] \in {seen[r], None}
      /\ seen' \in [Requests -> Versions \cup {None}]
  BY DEF Complete, Submit, StopBridge, StopForward, Shutdown, Killed, FInv, FileTypes
<1>2. \A r \in Requests :
        \/ pc'[r] = pc[r]
        \/ pc[r] = "none" /\ pc'[r] = "queued"
        \/ pc'[r] \in {"cancelled", "over"}
        \/ pc[r] = "copy" /\ pc'[r] = "orphan"
  BY DEF Complete, Submit, StopBridge, StopForward, Shutdown, Killed, IInv, Types, RequestOK
<1>3. \A r \in Requests : Past(seen'[r])
  BY <1>1 DEF FInv, PastOK, Past
<1>4. \A r \in Requests : seen'[r] = remote => seen[r] = remote
  BY <1>1, NoneAssumption DEF FInv, FileTypes
<1>5. QED
  BY <1>1, <1>2, <1>3, <1>4, DiskStays
     DEF FInv, FileTypes, BeforeGet, LocalClaimed, PartClaimed

LEMMA JobStays ==
  ASSUME IInv, FInv, NEW r \in Requests,
         \/ Start(r) \/ Stat(r) \/ Look(r) \/ Check(r) \/ Open(r) \/ Last(r)
         \/ TransportFails(r)
  PROVE  FInv'
<1>1. /\ UNCHANGED <<remote, blocks, disk>>
      /\ opened' \in {opened, opened \cup ({r} \cap Opens)}
      /\ sftp' \in {sftp, [sftp EXCEPT ![r] = None]}
      /\ seen' \in {seen, [seen EXCEPT ![r] = None], [seen EXCEPT ![r] = remote]}
  BY DEF Start, Stat, Look, Check, Open, Last, TransportFails
<1>2. /\ pc' \in [Requests -> Labels]
      /\ \A q \in Requests \ {r} : pc'[q] = pc[q]
      /\ \/ pc'[r] \in {"stat", "look", "migrate", "partial"} /\ pc[r] \in BeforeGet
         \/ pc'[r] \in {"last", "over", "tidy", "open"}
         \/ pc[r] = "check" /\ pc'[r] = "publish" /\ UNCHANGED seen
      /\ pc'[r] \in {"copy", "orphan"} => FALSE
  BY DEF Start, Stat, Look, Check, Open, Last, TransportFails, At, Goto, Fail, BeforeGet,
         IInv, Types, Labels
<1>3. opened' \subseteq Requests \cap Opens
  BY <1>1 DEF FInv, FileTypes
<1>4. /\ seen' \in [Requests -> Versions \cup {None}]
      /\ \A q \in Requests \ {r} : seen'[q] = seen[q]
      /\ seen'[r] \in {seen[r], None, remote}
  BY <1>1 DEF FInv, FileTypes
<1>5. /\ sftp' \in [Requests -> [file : Inodes, from : Versions, at : Nat] \cup {None}]
      /\ \A q \in Requests \ {r} : sftp'[q] = sftp[q]
      /\ sftp'[r] \in {sftp[r], None}
  BY <1>1 DEF FInv, FileTypes
<1>6. \A q \in Requests : Past(seen'[q])
  BY <1>4 DEF FInv, FileTypes, PastOK, Past, Versions
<1>7. QED
  BY <1>1, <1>2, <1>3, <1>4, <1>5, <1>6, DiskStays DEF BeforeGet, LocalClaimed, PartClaimed

(* Of an artifact of an older release it is version 1 that is told: where  *)
(* that is the version of the remote file, it is the only one there was.   *)
LEMMA FirstVersion ==
  ASSUME FInv, remote = 1
  PROVE  \A f \in Inodes : Clean(f)
<1>1. ASSUME NEW f \in Inodes, NEW i \in 1..Len(blocks[f]) PROVE blocks[f][i] = remote
  <2>1. blocks[f][i] \in Versions
    BY ElementOfSeq DEF FInv, FileTypes
  <2>2. blocks[f][i] <= 1
    BY DEF FInv, PastOK
  <2>3. QED
    BY <2>1, <2>2, DownloadAssumption DEF Versions
<1>2. ASSUME NEW r \in Requests, sftp[r] # None PROVE sftp[r].from = remote
  <2>1. sftp[r].from \in Versions
    BY <1>2 DEF FInv, FileTypes
  <2>2. sftp[r].from <= 1
    BY <1>2 DEF FInv, PastOK
  <2>3. QED
    BY <2>1, <2>2, DownloadAssumption DEF Versions
<1>3. QED
  BY <1>1, <1>2 DEF Clean

(* Names, and the metadata beside them, change; what the files hold, and   *)
(* who writes to them, does not.                                           *)
LEMMA NamesMove ==
  ASSUME FInv, UNCHANGED <<remote, blocks, seen, sftp, opened>>,
         NEW r \in Requests, \A q \in Requests \ {r} : pc'[q] = pc[q],
         pc'[r] \notin {"copy", "orphan"},
         pc'[r] \in BeforeGet => pc[r] \in BeforeGet,
         part' \in {part, None},
         local' \in {local, old, part}, part' # None => part' # local',
         old' \in {old, None},
         partMeta' \in {partMeta, seen[r], None},
         sidecar' \in {sidecar, seen[r], oldSidecar}, oldSidecar' \in {oldSidecar, None},
         part = None => local' \in {local, old},
         old = None => local' \in {local, part},
         oldSidecar = None => sidecar' \in {sidecar, seen[r]},
         FilesOK'
  PROVE  FInv'
<1>1. 1 \in Versions
  BY DownloadAssumption DEF Versions
<1>2. FileTypes'
  BY <1>1, NoneAssumption, DownloadAssumption DEF FInv, FileTypes, Inodes
<1>3. ASSUME NEW q \in Requests PROVE SftpOK(q)' /\ FreshOK(q)'
  <2>1. pc'[q] \in BeforeGet => pc[q] \in BeforeGet
    BY DEF BeforeGet
  <2>2. pc'[q] \in {"copy", "orphan"} => pc[q] \in {"copy", "orphan"}
    OBVIOUS
  <2>3. SftpOK(q)'
    BY <2>2 DEF FInv, SftpOK
  <2>4. q # None /\ q # Legacy
    BY NoneAssumption, DownloadAssumption
  <2>5. FreshOK(q)'
    BY <2>1, <2>4 DEF FInv, FileTypes, FreshOK, Writers
  <2>6. QED
    BY <2>3, <2>5
<1>4. PastOK'
  <2>1. 1 <= remote
    BY DownloadAssumption DEF FInv, FileTypes, Versions
  <2>2. Past(seen[r]) /\ Past(partMeta) /\ Past(sidecar) /\ Past(oldSidecar)
    BY <2>1 DEF FInv, FileTypes, PastOK, Past
  <2>3. Past(partMeta)' /\ Past(sidecar)'
    BY <2>2 DEF Past
  <2>4. QED
    BY <2>3 DEF FInv, PastOK, Past
<1>5. QED
  BY <1>2, <1>3, <1>4 DEF FInv

LEMMA MigrateKeeps ==
  ASSUME IInv, FInv, NEW r \in Requests, Migrate(r) \/ MigrateMeta(r)
  PROVE  FInv'
<1>1. /\ UNCHANGED <<remote, blocks, seen, sftp, opened, part, partMeta>>
      /\ pc[r] \in {"migrate", "migrateMeta"}
      /\ \A q \in Requests \ {r} : pc'[q] = pc[q]
      /\ pc'[r] \in {"last", "migrateMeta", "look"}
      /\ local' \in {local, old} /\ old' \in {old, None}
      /\ sidecar' \in {sidecar, oldSidecar} /\ oldSidecar' \in {oldSidecar, None}
      /\ old = None => local' = local
      /\ oldSidecar = None => sidecar' = sidecar
      /\ local' \in {local, Legacy}
  BY DEF Migrate, MigrateMeta, At, Goto, Fail, IInv, Types, FInv, FileTypes
<1>2. \A f \in Inodes : Clean(f) => Clean(f)'
  BY <1>1 DEF Clean
<1>3. part' # None => part' # local'
  BY <1>1, DownloadAssumption DEF FInv, FileTypes
<1>4. FilesOK'
  <2>1. CASE sidecar' = sidecar \/ sidecar' # remote
    <3>1. (LocalClaimed' => LocalClaimed) /\ (PartClaimed' => PartClaimed)
      BY <1>1, <2>1 DEF LocalClaimed, PartClaimed
    <3>2. QED
      BY <1>1, <1>2, <3>1 DEF FInv, FileTypes, FilesOK, Inodes
  <2>2. CASE sidecar' # sidecar /\ sidecar' = remote
    <3>1. remote = 1
      BY <1>1, <2>2 DEF FInv, FileTypes
    <3>2. QED
      BY <1>1, <1>2, <3>1, FirstVersion DEF FInv, FileTypes, FilesOK, Inodes
  <2>3. QED
    BY <2>1, <2>2
<1>5. QED
  BY <1>1, <1>3, <1>4, NamesMove DEF BeforeGet

(* A partial file is resumed only for the version its metadata tells of;   *)
(* the metadata is written for the version the job will resume it for.     *)
LEMMA PartialKeeps ==
  ASSUME IInv, FInv, NEW r \in Requests, Partial(r) \/ Meta(r) \/ Tidy(r)
  PROVE  FInv'
<1>1. /\ UNCHANGED <<remote, blocks, seen, sftp, opened, local, old, sidecar, oldSidecar>>
      /\ \A q \in Requests \ {r} : pc'[q] = pc[q]
      /\ pc'[r] \in {"unmeta", "meta", "get", "tidyMeta", "last"}
      /\ pc'[r] \in BeforeGet => pc[r] \in BeforeGet
      /\ part' \in {part, None}
      /\ partMeta' \in {partMeta, seen[r], None}
      /\ partMeta' = seen[r] => partMeta' \in {partMeta, None} \/ pc[r] = "meta"
      /\ \/ pc[r] \in {"unmeta", "meta"}
         \/ pc[r] = "partial" /\ (part' = None \/ partMeta = seen[r])
         \/ pc'[r] \in {"tidyMeta", "last"}
  BY DEF Partial, Meta, Tidy, Usable, At, Goto, IInv, Types, BeforeGet
<1>2. \A f \in Inodes : Clean(f) => Clean(f)'
  BY <1>1 DEF Clean
<1>3. LocalClaimed' => LocalClaimed
  BY <1>1 DEF LocalClaimed
<1>4. PartClaimed' => PartClaimed \/ part' = None
  BY <1>1, NoneAssumption DEF PartClaimed, FInv, FileTypes
<1>5. FilesOK'
  BY <1>1, <1>2, <1>3, <1>4 DEF FInv, FileTypes, FilesOK, Inodes
<1>6. part' # None => part' # local'
  BY <1>1 DEF FInv, FileTypes
<1>7. QED
  BY <1>1, <1>5, <1>6, NamesMove

(* What becomes the local file is what has the name of the partial file,   *)
(* whichever job has put it there.                                         *)
LEMMA PublishKeeps ==
  ASSUME IInv, FInv, NEW r \in Requests, Publish(r) \/ Record(r)
  PROVE  FInv'
<1>1. /\ UNCHANGED <<remote, blocks, seen, sftp, opened, old, oldSidecar>>
      /\ \A q \in Requests \ {r} : pc'[q] = pc[q]
      /\ pc[r] \in {"publish", "published", "sidecar"}
      /\ pc'[r] \in {"last", "published", "sidecar", "open"}
      /\ pc'[r] \in {"published", "sidecar"} /\ pc[r] \notin {"published", "sidecar"}
           => local' = part
      /\ \/ UNCHANGED <<part, local>>
         \/ part # None /\ part' = None /\ local' = part
      /\ partMeta' \in {partMeta, None}
      /\ sidecar' = sidecar \/ (pc[r] = "sidecar" /\ sidecar' = seen[r])
  BY DEF Publish, Record, At, Goto, Fail, IInv, Types
<1>2. \A f \in Inodes : Clean(f) => Clean(f)'
  BY <1>1 DEF Clean
<1>3. PartClaimed' => PartClaimed
  BY <1>1, NoneAssumption DEF PartClaimed, FInv, FileTypes
<1>4. LocalClaimed' => LocalClaimed \/ (local' = part /\ PartClaimed)
  BY <1>1 DEF LocalClaimed, PartClaimed
<1>5. LocalClaimed => PartClaimed
  BY DEF LocalClaimed, PartClaimed
<1>6. FilesOK'
  BY <1>1, <1>2, <1>3, <1>4, <1>5 DEF FInv, FileTypes, FilesOK, Inodes
<1>7. part' # None => part' # local'
  BY <1>1 DEF FInv, FileTypes
<1>8. QED
  BY <1>1, <1>6, <1>7, NamesMove DEF BeforeGet

(* A transfer starts at the end of the partial file, or of a new one, and  *)
(* reads the version there is at that moment: whether the file was of that *)
(* version is what the claims tell.                                        *)
LEMMA GetKeeps ==
  ASSUME IInv, FInv, NEW r \in Requests, Get(r)
  PROVE  FInv'
<1>1. /\ UNCHANGED <<remote, blocks, local, old, partMeta, sidecar, oldSidecar, seen, opened>>
      /\ pc[r] = "get"
  BY DEF Get, At
<1>2. blocks[r] = <<>> /\ r # local /\ \A q \in Requests : sftp[q] # None => sftp[q].file # r
  BY <1>1 DEF FInv, FreshOK, Writers, BeforeGet
<1>3. CASE Fail(r) /\ UNCHANGED <<part, sftp>>
  <2>1. pc'[r] = "last" /\ \A q \in Requests \ {r} : pc'[q] = pc[q]
    BY <1>3 DEF Fail, Goto, IInv, Types
  <2>2. QED
    BY <1>1, <1>3, <2>1, DiskStays
       DEF FInv, FileTypes, PastOK, disk, BeforeGet, LocalClaimed, PartClaimed
<1>4. ASSUME NEW file \in Requests, file = IF part = None THEN r ELSE part,
             part' = file, Goto(r, "copy"),
             sftp' = [sftp EXCEPT ![r] =
                        [file |-> file, from |-> remote, at |-> Len(blocks[file])]]
      PROVE  FInv'
  <2>1. /\ pc'[r] = "copy" /\ \A q \in Requests \ {r} : pc'[q] = pc[q]
    BY <1>4 DEF Goto, IInv, Types
  <2>2. file \in Inodes /\ blocks[file] \in Seq(Versions) /\ Len(blocks[file]) \in Nat
    BY LenProperties DEF FInv, FileTypes, Inodes
  <2>3. PICK process \in [file : Inodes, from : Versions, at : Nat] :
          process = [file |-> file, from |-> remote, at |-> Len(blocks[file])]
    BY <2>2 DEF FInv, FileTypes
  <2>4. /\ sftp' \in [Requests -> [file : Inodes, from : Versions, at : Nat] \cup {None}]
        /\ sftp'[r] = process /\ process # None
        /\ \A q \in Requests \ {r} : sftp'[q] = sftp[q]
    BY <1>4, <2>3, NoneAssumption DEF FInv, FileTypes
  <2>5. process.file = file /\ process.from = remote /\ process.at = Len(blocks[file])
    BY <2>3
  <2>6. FileTypes'
    BY <1>1, <1>2, <1>4, <2>4 DEF FInv, FileTypes
  <2>7. ASSUME NEW q \in Requests PROVE SftpOK(q)' /\ FreshOK(q)'
    <3>1. CASE q = r
      BY <1>1, <2>1, <2>2, <2>4, <2>5, <3>1 DEF SftpOK, FreshOK, BeforeGet
    <3>2. CASE q # r
      <4>1. SftpOK(q)'
        BY <1>1, <2>1, <2>4, <3>2 DEF FInv, SftpOK
      <4>2. pc[q] \in BeforeGet => q # file
        BY <1>4, <3>2 DEF FInv, FreshOK
      <4>3. FreshOK(q)'
        BY <1>1, <1>4, <2>1, <2>4, <2>5, <3>2, <4>2 DEF FInv, FreshOK, Writers
      <4>4. QED
        BY <4>1, <4>3
    <3>3. QED
      BY <3>1, <3>2
  <2>8. PastOK'
    BY <1>1, <2>4, <2>5 DEF FInv, FileTypes, PastOK, Past, Versions
  <2>9. \A f \in Inodes : Clean(f) => Clean(f)'
    BY <1>1, <2>4, <2>5 DEF Clean
  <2>10. part = None => Clean(file)'
    BY <1>1, <1>2, <1>4, <2>4, <2>5 DEF Clean
  <2>11. (LocalClaimed' => LocalClaimed) /\ (PartClaimed' => PartClaimed)
    BY <1>1, <2>1 DEF LocalClaimed, PartClaimed
  <2>12. FilesOK'
    BY <1>1, <1>4, <2>9, <2>10, <2>11 DEF FInv, FileTypes, FilesOK, Inodes
  <2>13. QED
    BY <2>6, <2>7, <2>8, <2>12 DEF FInv
<1>5. (IF part = None THEN r ELSE part) \in Requests
  BY DEF FInv, FileTypes
<1>6. QED
  BY <1>3, <1>4, <1>5 DEF Get

(* A block is written: of the version that was opened, or of the one that  *)
(* overwrote it.  A clean file gets a block of that version.               *)
LEMMA CopyKeepsFiles ==
  ASSUME IInv, FInv, NEW r \in Requests, Copy(r)
  PROVE  FInv'
<1>1. /\ UNCHANGED <<remote, disk, seen, opened>>
      /\ pc[r] \in {"copy", "orphan"}
      /\ sftp[r] # None
      /\ sftp[r] \in [file : Inodes, from : Versions, at : Nat]
      /\ sftp[r].at <= Len(blocks[sftp[r].file])
  BY DEF Copy, FInv, FileTypes, SftpOK
<1>2. CASE /\ pc' = [pc EXCEPT ![r] = IF At(r, "copy") THEN "check" ELSE "over"]
           /\ sftp' = [sftp EXCEPT ![r] = None]
           /\ UNCHANGED blocks
  <2>1. /\ pc'[r] = "over" \/ (pc[r] = "copy" /\ pc'[r] = "check")
        /\ \A q \in Requests \ {r} : pc'[q] = pc[q] /\ sftp'[q] = sftp[q]
        /\ sftp'[r] = None
        /\ sftp' \in [Requests -> [file : Inodes, from : Versions, at : Nat] \cup {None}]
    BY <1>1, <1>2 DEF IInv, Types, At, FInv, FileTypes
  <2>2. QED
    BY <1>1, <1>2, <2>1, DiskStays
       DEF FInv, FileTypes, PastOK, BeforeGet, LocalClaimed, PartClaimed
<1>3. ASSUME NEW v \in {sftp[r].from, remote},
             NEW i \in Nat \ {0}, i = sftp[r].at + 1,
             NEW f \in Inodes, f = sftp[r].file,
             blocks' = [blocks EXCEPT ![f] =
                          [j \in 1..(IF Len(blocks[f]) < i THEN i ELSE Len(blocks[f])) |->
                             IF j = i THEN v ELSE blocks[f][j]]],
             sftp' = [sftp EXCEPT ![r].at = i],
             UNCHANGED pc
      PROVE  FInv'
  <2>1. blocks[f] \in Seq(Versions) /\ v \in Versions /\ i <= Len(blocks[f]) + 1
    BY <1>1, <1>3, LenProperties DEF FInv, FileTypes
  <2>2. PICK w : w = [j \in 1..(IF Len(blocks[f]) < i THEN i ELSE Len(blocks[f])) |->
                        IF j = i THEN v ELSE blocks[f][j]]
    OBVIOUS
  <2>3. /\ w \in Seq(Versions)
        /\ Len(w) >= Len(blocks[f]) /\ Len(w) >= i
        /\ \A j \in 1..Len(w) : w[j] = v \/ (j \in 1..Len(blocks[f]) /\ w[j] = blocks[f][j])
    <3>1. Len(blocks[f]) \in Nat /\ \A j \in 1..Len(blocks[f]) : blocks[f][j] \in Versions
      BY <2>1, LenProperties, ElementOfSeq
    <3>2. PICK n \in Nat : n = IF Len(blocks[f]) < i THEN i ELSE Len(blocks[f])
      BY <3>1
    <3>3. \A j \in 1..n : (IF j = i THEN v ELSE blocks[f][j]) \in Versions
      BY <2>1, <3>1, <3>2
    <3>4. /\ w \in [1..n -> Versions]
          /\ \A j \in 1..n : w[j] = IF j = i THEN v ELSE blocks[f][j]
      BY <2>2, <3>2, <3>3
    <3>5. w \in Seq(Versions)
      BY ONLY <3>2, <3>4, SeqDef
    <3>6. Len(w) = n
      BY ONLY <3>2, <3>4, <3>5, LenProperties
    <3>7. i <= n /\ Len(blocks[f]) <= n
      BY ONLY <3>1, <3>2, <1>3
    <3>8. \A j \in 1..n : w[j] = v \/ (j \in 1..Len(blocks[f]) /\ w[j] = blocks[f][j])
      <4>1. ASSUME NEW j \in 1..n, j # i PROVE j \in 1..Len(blocks[f])
        BY ONLY <2>1, <3>1, <3>2, <1>3, <4>1
      <4>2. QED
        BY ONLY <3>4, <4>1
    <3>9. QED
      BY <3>5, <3>6, <3>7, <3>8
  <2>4. /\ blocks' = [blocks EXCEPT ![f] = w]
        /\ blocks' \in [Inodes -> Seq(Versions)]
        /\ blocks'[f] = w
        /\ \A g \in Inodes \ {f} : blocks'[g] = blocks[g]
    BY <1>3, <2>2, <2>3 DEF FInv, FileTypes
  <2>5. PICK process \in [file : Inodes, from : Versions, at : Nat] :
          process = [sftp[r] EXCEPT !.at = i]
    BY <1>1
  <2>6. process.file = f /\ process.from = sftp[r].from /\ process.at = i
    BY <1>1, <1>3, <2>5
  <2>7. /\ sftp' \in [Requests -> [file : Inodes, from : Versions, at : Nat] \cup {None}]
        /\ sftp'[r] = process /\ process # None
        /\ \A q \in Requests \ {r} : sftp'[q] = sftp[q]
    BY <1>3, <2>5, NoneAssumption DEF FInv, FileTypes
  <2>8. FileTypes'
    BY <1>1, <2>4, <2>7 DEF FInv, FileTypes, disk
  <2>9. ASSUME NEW q \in Requests PROVE SftpOK(q)' /\ FreshOK(q)'
    <3>1. SftpOK(q)'
      <4>1. CASE q = r
        BY <2>3, <2>4, <2>6, <2>7, <4>1 DEF SftpOK
      <4>2. CASE q # r
        <5>1. sftp[q] # None =>
                /\ sftp[q] \in [file : Inodes, from : Versions, at : Nat]
                /\ sftp[q].at <= Len(blocks[sftp[q].file])
                /\ Len(blocks[sftp[q].file]) \in Nat
          BY LenProperties DEF FInv, FileTypes, SftpOK
        <5>2. Len(w) \in Nat /\ Len(blocks[f]) \in Nat
          BY <2>1, <2>3, LenProperties
        <5>3. QED
          BY <1>3, <2>3, <2>4, <2>7, <4>2, <5>1, <5>2 DEF FInv, SftpOK
      <4>3. QED
        BY <4>1, <4>2
    <3>2. q \in Inodes
      BY DEF Inodes
    <3>3. pc[q] \in BeforeGet => q # f
      BY <1>1, <1>3 DEF FInv, FreshOK, Writers
    <3>4. FreshOK(q)'
      BY <1>1, <1>3, <2>4, <2>6, <2>7, <3>2, <3>3 DEF FInv, FreshOK, Writers, disk
    <3>5. QED
      BY <3>1, <3>4
  <2>10. PastOK'
    <3>1. v <= remote
      BY <1>1 DEF FInv, FileTypes, PastOK, Versions
    <3>2. ASSUME NEW g \in Inodes, NEW j \in 1..Len(blocks'[g]) PROVE blocks'[g][j] <= remote
      BY <2>3, <2>4, <3>1 DEF FInv, PastOK
    <3>3. \A q \in Requests : sftp'[q] # None => sftp'[q].from <= remote
      BY <1>1, <2>6, <2>7 DEF FInv, PastOK
    <3>4. QED
      BY <1>1, <3>2, <3>3 DEF FInv, PastOK, Past, disk
  <2>11. ASSUME NEW g \in Inodes, Clean(g) PROVE Clean(g)'
    <3>1. \A q \in Requests : sftp'[q] # None /\ sftp'[q].file = g => sftp'[q].from = remote
      BY <1>1, <1>3, <2>6, <2>7, <2>11 DEF Clean
    <3>2. g = f => v = remote
      BY <1>1, <1>3, <2>11 DEF Clean
    <3>3. ASSUME NEW j \in 1..Len(blocks'[g]) PROVE blocks'[g][j] = remote
      BY <2>3, <2>4, <2>11, <3>2 DEF Clean
    <3>4. QED
      BY <1>1, <3>1, <3>3 DEF Clean
  <2>12. (LocalClaimed' => LocalClaimed) /\ (PartClaimed' => PartClaimed)
    BY <1>1, <1>3 DEF LocalClaimed, PartClaimed, disk
  <2>13. FilesOK'
    BY <1>1, <2>11, <2>12 DEF FInv, FileTypes, FilesOK, Inodes, disk
  <2>14. QED
    BY <2>8, <2>9, <2>10, <2>13 DEF FInv
<1>4. sftp[r].at + 1 \in Nat \ {0} /\ sftp[r].file \in Inodes
  BY <1>1
<1>5. QED
  BY <1>2, <1>3, <1>4 DEF Copy, Goto

-----------------------------------------------------------------------------
(* When the remote file changes nothing tells of its new version yet.      *)
LEMMA RemoteKeepsFiles ==
  ASSUME IInv, FInv, RemoteChanges
  PROVE  FInv'
<1>1. /\ remote' = remote + 1 /\ remote' \in Versions /\ remote \in Nat
      /\ UNCHANGED <<blocks, disk, pc, seen, sftp, opened>>
  BY DownloadAssumption DEF RemoteChanges, FInv, FileTypes, Versions
<1>2. FileTypes'
  BY <1>1 DEF FInv, FileTypes, disk
<1>3. ASSUME NEW r \in Requests PROVE SftpOK(r)' /\ FreshOK(r)'
  BY <1>1 DEF FInv, SftpOK, FreshOK, Writers, disk
<1>4. /\ \A v \in Versions \cup {None} : Past(v) => Past(v)' /\ v # remote'
  BY <1>1, NoneAssumption DEF Past, Versions
<1>5. PastOK'
  <2>1. Past(partMeta)' /\ Past(sidecar)' /\ \A r \in Requests : Past(seen[r])'
    BY <1>1, <1>4 DEF FInv, FileTypes, PastOK, Past, disk
  <2>2. ASSUME NEW r \in Requests, sftp'[r] # None PROVE sftp'[r].from <= remote'
    <3>1. sftp[r].from \in Nat /\ sftp[r].from <= remote
      BY <1>1, <2>2 DEF FInv, FileTypes, PastOK, Versions
    <3>2. QED
      BY <1>1, <3>1
  <2>3. ASSUME NEW f \in Inodes, NEW i \in 1..Len(blocks'[f]) PROVE blocks'[f][i] <= remote'
    <3>1. blocks[f][i] \in Versions /\ blocks[f][i] <= remote
      BY <1>1, ElementOfSeq DEF FInv, FileTypes, PastOK
    <3>2. QED
      BY <1>1, <3>1 DEF Versions
  <2>4. QED
    BY <1>1, <2>1, <2>2, <2>3 DEF PastOK, Past, disk
<1>6. ~LocalClaimed' /\ ~PartClaimed'
  BY <1>1, <1>4 DEF FInv, FileTypes, PastOK, LocalClaimed, PartClaimed, disk
<1>7. QED
  BY <1>2, <1>3, <1>5, <1>6 DEF FInv, FilesOK

LEMMA FilesInit == Init => FInv
<1> SUFFICES ASSUME Init PROVE FInv
  OBVIOUS
<1>1. 1 \in Versions /\ None # Legacy
  BY DownloadAssumption, NoneAssumption DEF Versions
<1>2. Whole(1) \in Seq(Versions) /\ Len(Whole(1)) = Size[1]
      /\ \A i \in 1..Len(Whole(1)) : Whole(1)[i] = 1
  <2>1. Size[1] \in Nat
    BY <1>1, DownloadAssumption
  <2>2. Whole(1) \in [1..Size[1] -> Versions] /\ DOMAIN Whole(1) = 1..Size[1]
    BY <1>1 DEF Whole
  <2>3. Whole(1) \in Seq(Versions)
    BY <2>1, <2>2, SeqDef
  <2>4. Len(Whole(1)) = Size[1]
    BY <2>1, <2>2, <2>3, LenProperties
  <2>5. QED
    BY <2>3, <2>4 DEF Whole
<1>3. \A f \in Inodes : blocks[f] \in {Whole(1), <<>>}
  BY DEF Init
<1>4. FileTypes
  BY <1>1, <1>2, EmptySeq DEF Init, FileTypes
<1>5. ASSUME NEW r \in Requests PROVE SftpOK(r) /\ FreshOK(r)
  BY DownloadAssumption, NoneAssumption DEF Init, SftpOK, FreshOK, Writers, Inodes
<1>6. PastOK
  <2>1. ASSUME NEW f \in Inodes, NEW i \in 1..Len(blocks[f]) PROVE blocks[f][i] <= remote
    BY <1>2, <1>3, EmptySeq DEF Init
  <2>2. QED
    BY <2>1 DEF Init, PastOK, Past
<1>7. FilesOK
  BY DEF Init, FilesOK
<1>8. QED
  BY <1>4, <1>5, <1>6, <1>7 DEF FInv

LEMMA FilesNext == IInv /\ FInv /\ [Next]_vars => FInv'
<1> SUFFICES ASSUME IInv, FInv, [Next]_vars PROVE FInv'
  OBVIOUS
<1>1. ASSUME NEW r \in Requests, JobStep(r) \/ TransportFails(r) PROVE FInv'
  BY <1>1, JobStays, MigrateKeeps, PartialKeeps, PublishKeeps, GetKeeps, CopyKeepsFiles
     DEF JobStep
<1>2. CASE UNCHANGED vars
  BY <1>2 DEF vars, disk, bridge, FInv, FileTypes, SftpOK, FreshOK, Writers, PastOK, Past,
              FilesOK, LocalClaimed, PartClaimed, Clean
<1>3. QED
  BY <1>1, <1>2, BridgeStays, RemoteKeepsFiles DEF Next

(* With the claim of the sidecar and the size of the local file, every     *)
(* block of it is of the version of the remote file.                       *)
LEMMA CleanIsWhole ==
  ASSUME FInv
  PROVE  SidecarIsTrue
<1> SUFFICES ASSUME Matches(local, sidecar, remote), local # Legacy
             PROVE  blocks[local] = Whole(remote)
  BY DEF SidecarIsTrue
<1>1. local \in Inodes /\ local # None /\ Len(blocks[local]) = Size[remote]
  BY DEF Matches, FInv, FileTypes
<1>2. \A i \in 1..Len(blocks[local]) : blocks[local][i] = remote
  BY <1>1 DEF Matches, FInv, FilesOK, LocalClaimed, Clean
<1>3. blocks[local] \in [1..Size[remote] -> Versions]
  BY <1>1, LenProperties DEF FInv, FileTypes
<1>4. QED
  BY <1>1, <1>2, <1>3 DEF Whole

LEMMA FilesInvariance == Spec => [](IInv /\ FInv)
BY InitInv, NextInv, FilesInit, FilesNext, PTL DEF Spec

(* Every variable keeps its type: an sftp process, above all, never writes *)
(* beyond the end of its file, whatever others do with it.                 *)
THEOREM TypeCorrect == Spec => []TypeOK
<1>1. IInv /\ FInv => TypeOK
  <2> SUFFICES ASSUME IInv, FInv PROVE TypeOK
    OBVIOUS
  <2>1. 1 \in Versions
    BY DownloadAssumption DEF Versions
  <2>2. /\ {part, local, old} \subseteq Inodes \cup {None}
        /\ {partMeta, sidecar, oldSidecar} \subseteq Versions \cup {None}
    BY <2>1 DEF FInv, FileTypes, Inodes
  <2>3. /\ remote \in Versions
        /\ blocks \in [Inodes -> Seq(Versions)]
        /\ seen \in [Requests -> Versions \cup {None}]
        /\ sftp \in [Requests -> [file : Inodes, from : Versions, at : Nat] \cup {None}]
        /\ opened \subseteq Requests \cap Opens
        /\ part # None => part # local
    BY DEF FInv, FileTypes
  <2>4. QED
    BY <2>2, <2>3 DEF IInv, Types, Labels, States, TypeOK
<1>2. QED
  BY <1>1, FilesInvariance, PTL

(* A cache hit opens what the remote file is: a local file whose sidecar   *)
(* tells of that version, and that has its size, holds that version and    *)
(* nothing else, whatever transfers it was put together by.                *)
THEOREM SidecarIsAlwaysTrue == Spec => []SidecarIsTrue
BY FilesInvariance, CleanIsWhole, PTL
=============================================================================
