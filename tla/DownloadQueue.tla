---------------------------- MODULE DownloadQueue ----------------------------
(***************************************************************************)
(* rget and rdo: the helper on the remote host, the preview bridge and the *)
(* download queue of each tssh session, and the files they share.  All     *)
(* requests are for one remote file, so every session has one key in its   *)
(* queue, and all sessions have one local file, one partial file and their *)
(* metadata between them: jobs meet there, across threads and processes.   *)
(*                                                                         *)
(* A file on disk is a name that refers to an inode; an inode holds blocks,*)
(* and a block is the version of the remote file it was read from.  A job  *)
(* does at most one change of the disk in a step.                          *)
(***************************************************************************)
EXTENDS Integers, Sequences, FiniteSets

CONSTANTS
  Sessions,     \* tssh processes that have a bridge
  Requests,     \* runs of the helper; a job has the name of its request
  Opens,        \* those that are rdo
  Workers,      \* max_workers of the thread pool
  LastVersion,  \* versions of the remote file, numbered as they appear
  Size,         \* their sizes
  Legacy,       \* the inode of an artifact of an older release
  None

Versions == 1..LastVersion

Inodes == Requests \cup {Legacy}

(* A version has a time-stamp of its own: two changes within a second that *)
(* leave the size alone are beyond what stat can tell.                     *)
ASSUME DownloadAssumption ==
  /\ Opens \subseteq Requests
  /\ Workers \in Nat \ {0}
  /\ LastVersion \in Nat \ {0}
  /\ Size \in [Versions -> Nat \ {0}]
  /\ Legacy \notin Requests

(* None is none of what can stand where it can stand. *)
ASSUME NoneAssumption ==
  /\ None \notin Requests \cup Sessions \cup {"QUEUED", "RUNNING", "FAILED", "CACHED",
                                           "READY", "READY_WITH_WARNING"}
  /\ None # Legacy
  /\ None \notin Versions
  /\ None \notin [file : Inodes, from : Versions, at : Nat]

VARIABLES
  remote,       \* the version of the remote file
  blocks,       \* what every inode holds
  part, local, old,                   \* names, and the inodes they refer to
  partMeta, sidecar, oldSidecar,      \* the version their metadata tells of
  session,      \* how far main() of a session has got
  latest,       \* _jobs[key] of a session
  home,         \* the session a request was sent to
  helper,       \* the helper, up to its exit status
  watched,      \* the job whose progress the bridge sends to a helper
  pc, state,    \* of a job: the next statement of _run, and job.state
  seen,         \* what its stat saw
  sftp,         \* its sftp process
  opened        \* jobs that opened the local file

disk == <<part, local, old, partMeta, sidecar, oldSidecar>>
bridge == <<session, home, helper, watched>>
vars == <<remote, blocks, disk, bridge, latest, pc, state, seen, sftp, opened>>

Whole(v) == [i \in 1..Size[v] |-> v]

Done == {"CACHED", "READY", "READY_WITH_WARNING"}

TypeOK ==
  /\ remote \in Versions
  /\ blocks \in [Inodes -> Seq(Versions)]
  /\ {part, local, old} \subseteq Inodes \cup {None}
  /\ {partMeta, sidecar, oldSidecar} \subseteq Versions \cup {None}
  /\ session \in [Sessions -> {"up", "unbridged", "cut", "shut", "gone"}]
  /\ latest \in [Sessions -> Requests \cup {None}]
  /\ home \in [Requests -> Sessions \cup {None}]
  /\ helper \in [Requests -> {"idle", "waiting", "ok", "failed"}]
  /\ watched \in [Requests -> Requests \cup {None}]
  /\ pc \in [Requests ->
       {"none", "queued", "stat", "look", "migrate", "migrateMeta", "partial",
        "unmeta", "meta", "get", "copy", "check", "publish", "published",
        "sidecar", "open", "tidy", "tidyMeta", "last", "over", "cancelled",
        "orphan"}]
  /\ state \in [Requests -> {None, "QUEUED", "RUNNING", "FAILED"} \cup Done]
  /\ seen \in [Requests -> Versions \cup {None}]
  /\ sftp \in [Requests -> [file : Inodes, from : Versions, at : Nat] \cup {None}]
  /\ opened \subseteq Requests \cap Opens
  /\ part # None => part # local

Init ==
  /\ remote = 1
  /\ part = None /\ partMeta = None /\ local = None /\ sidecar = None
  /\ \/ old = None /\ oldSidecar = None
     \/ old = Legacy /\ oldSidecar = 1
  /\ blocks = [i \in Inodes |-> IF i = old THEN Whole(1) ELSE <<>>]
  /\ session = [s \in Sessions |-> "up"]
  /\ latest = [s \in Sessions |-> None]
  /\ home = [r \in Requests |-> None]
  /\ helper = [r \in Requests |-> "idle"]
  /\ watched = [r \in Requests |-> None]
  /\ pc = [r \in Requests |-> "none"]
  /\ state = [r \in Requests |-> None]
  /\ seen = [r \in Requests |-> None]
  /\ sftp = [r \in Requests |-> None]
  /\ opened = {}

-----------------------------------------------------------------------------
(* The helper and the bridge *)

(* submit: a request for what is being fetched already joins that job. *)
Submit(r, s) ==
  /\ helper[r] = "idle"
  /\ session[s] = "up"
  /\ helper' = [helper EXCEPT ![r] = "waiting"]
  /\ home' = [home EXCEPT ![r] = s]
  /\ IF latest[s] # None /\ state[latest[s]] \in {"QUEUED", "RUNNING"}
     THEN /\ watched' = [watched EXCEPT ![r] = latest[s]]
          /\ UNCHANGED <<latest, pc, state>>
     ELSE /\ watched' = [watched EXCEPT ![r] = r]
          /\ latest' = [latest EXCEPT ![s] = r]
          /\ state' = [state EXCEPT ![r] = "QUEUED"]
          /\ pc' = [pc EXCEPT ![r] = "queued"]
  /\ UNCHANGED <<remote, blocks, disk, session, seen, sftp, opened>>

(* The event "complete": the future is done, finished or cancelled, and    *)
(* the helper makes its exit status of the job's state.                    *)
Complete(r) ==
  /\ helper[r] = "waiting"
  /\ pc[watched[r]] \in {"over", "cancelled"}
  /\ helper' = [helper EXCEPT ![r] =
                  IF state[watched[r]] = "FAILED" THEN "failed" ELSE "ok"]
  /\ UNCHANGED <<remote, blocks, disk, session, home, watched, latest, pc, state,
                 seen, sftp, opened>>

(* Helpers of a session that read the end of their connection: a success   *)
(* only if a progress line has told of one before.                         *)
Disconnected(s) ==
  LET cut == {r \in Requests : home[r] = s /\ helper[r] = "waiting"}
      told == {r \in cut : state[watched[r]] \in Done}
  IN  {[r \in Requests |-> IF r \in ok THEN "ok" ELSE IF r \in cut THEN "failed"
                           ELSE helper[r]] : ok \in SUBSET told}

-----------------------------------------------------------------------------
(* The end of main(): the listener, the reverse leg, the queue *)

StopBridge(s) ==
  /\ session[s] = "up"
  /\ session' = [session EXCEPT ![s] = "unbridged"]
  /\ UNCHANGED <<remote, blocks, disk, home, helper, watched, latest, pc, state,
                 seen, sftp, opened>>

(* Mutant: the queue is shut down first, the reverse leg goes after it. *)
MutantStopForward(s) ==
  /\ session[s] = "unbridged"
  /\ session' = [session EXCEPT ![s] = "cut"]
  /\ UNCHANGED <<remote, blocks, disk, home, helper, watched, latest, pc, state,
                 seen, sftp, opened>>

StopForward(s) ==
  /\ session[s] = "unbridged"
  /\ session' = [session EXCEPT ![s] = "cut"]
  /\ helper' \in Disconnected(s)
  /\ UNCHANGED <<remote, blocks, disk, home, watched, latest, pc, state, seen,
                 sftp, opened>>

(* Pending futures are cancelled; the process waits for the running jobs.  *)
Shutdown(s) ==
  /\ session[s] = "cut"
  /\ session' = [session EXCEPT ![s] = "shut"]
  /\ pc' = [r \in Requests |->
              IF home[r] = s /\ pc[r] = "queued" THEN "cancelled" ELSE pc[r]]
  /\ UNCHANGED <<remote, blocks, disk, home, helper, watched, latest, state, seen,
                 sftp, opened>>

(* The threads die with their process, an sftp process does not. *)
Killed(s) ==
  /\ session[s] # "gone"
  /\ session' = [session EXCEPT ![s] = "gone"]
  /\ helper' \in Disconnected(s)
  /\ pc' = [r \in Requests |->
              IF home[r] # s \/ pc[r] = "none" THEN pc[r]
              ELSE IF pc[r] = "copy" THEN "orphan" ELSE "over"]
  /\ seen' = [r \in Requests |-> IF home[r] = s THEN None ELSE seen[r]]
  /\ UNCHANGED <<remote, blocks, disk, home, watched, latest, state, sftp, opened>>

-----------------------------------------------------------------------------
(* _run *)

Active(s) ==
  {r \in Requests : home[r] = s
                      /\ pc[r] \notin {"none", "queued", "over", "cancelled"}}

At(r, label) == pc[r] = label

Goto(r, label) == pc' = [pc EXCEPT ![r] = label]

Fail(r) ==
  /\ Goto(r, "last")
  /\ state' = [state EXCEPT ![r] = "FAILED"]

Start(r) ==
  /\ At(r, "queued")
  /\ Cardinality(Active(home[r])) < Workers
  /\ Goto(r, "stat")
  /\ state' = [state EXCEPT ![r] = "RUNNING"]
  /\ UNCHANGED <<remote, blocks, disk, bridge, latest, seen, sftp, opened>>

Stat(r) ==
  /\ At(r, "stat")
  /\ seen' = [seen EXCEPT ![r] = remote]
  /\ Goto(r, "look")
  /\ UNCHANGED <<remote, blocks, disk, bridge, latest, state, sftp, opened>>

(* metadata_matches *)
Matches(file, meta, v) ==
  file # None /\ meta = v /\ Len(blocks[file]) = Size[v]

(* The cache, then the artifact of an older release, then a transfer.      *)
Look(r) ==
  /\ At(r, "look")
  /\ \/ /\ Matches(local, sidecar, seen[r])
        /\ Goto(r, "open")
        /\ state' = [state EXCEPT ![r] = "CACHED"]
     \/ /\ ~Matches(local, sidecar, seen[r])
        /\ Goto(r, IF local = None /\ Matches(old, oldSidecar, seen[r])
                   THEN "migrate" ELSE "partial")
        /\ UNCHANGED state
  /\ UNCHANGED <<remote, blocks, disk, bridge, latest, seen, sftp, opened>>

(* Another job may have moved it: the rename is an error then. *)
Migrate(r) ==
  /\ At(r, "migrate")
  /\ IF old = None THEN Fail(r) /\ UNCHANGED <<local, old>>
     ELSE /\ local' = old
          /\ old' = None
          /\ Goto(r, "migrateMeta")
          /\ UNCHANGED state
  /\ UNCHANGED <<remote, blocks, part, partMeta, sidecar, oldSidecar, bridge, latest,
                 seen, sftp, opened>>

MigrateMeta(r) ==
  /\ At(r, "migrateMeta")
  /\ IF oldSidecar = None THEN UNCHANGED <<sidecar, oldSidecar>>
     ELSE sidecar' = oldSidecar /\ oldSidecar' = None
  /\ Goto(r, "look")
  /\ UNCHANGED <<remote, blocks, part, local, old, partMeta, bridge, latest, state,
                 seen, sftp, opened>>

(* Mutant: a partial file is resumed for its size alone. *)
MutantUsable(v) == Len(blocks[part]) <= Size[v]

Usable(v) == partMeta = v /\ Len(blocks[part]) <= Size[v]

Partial(r) ==
  /\ At(r, "partial")
  /\ IF part # None /\ ~Usable(seen[r])
     THEN part' = None /\ Goto(r, "unmeta")
     ELSE UNCHANGED part /\ Goto(r, "meta")
  /\ UNCHANGED <<remote, blocks, local, old, partMeta, sidecar, oldSidecar, bridge,
                 latest, state, seen, sftp, opened>>

Meta(r) ==
  /\ \/ At(r, "unmeta") /\ partMeta' = None /\ Goto(r, "meta")
     \/ At(r, "meta") /\ partMeta' = seen[r] /\ Goto(r, "get")
  /\ UNCHANGED <<remote, blocks, part, local, old, sidecar, oldSidecar, bridge, latest,
                 state, seen, sftp, opened>>

(* sftp's get -a opens the remote file and appends to the partial file, if *)
(* there is one that is not the longer of the two.  Both are opened in one *)
(* step: the remote file is not replaced in between.                       *)
Get(r) ==
  /\ At(r, "get")
  /\ LET file == IF part = None THEN r ELSE part
     IN  IF Len(blocks[file]) > Size[remote] THEN Fail(r) /\ UNCHANGED <<part, sftp>>
         ELSE /\ part' = file
              /\ sftp' = [sftp EXCEPT ![r] =
                   [file |-> file, from |-> remote, at |-> Len(blocks[file])]]
              /\ Goto(r, "copy")
              /\ UNCHANGED state
  /\ UNCHANGED <<remote, blocks, local, old, partMeta, sidecar, oldSidecar, bridge,
                 latest, seen, opened>>

(* Of a file replaced by another the open handle reads the old version, of *)
(* one overwritten the new.                                                *)
Copy(r) ==
  /\ pc[r] \in {"copy", "orphan"}
  /\ \E v \in {sftp[r].from, remote} :
       LET i == sftp[r].at + 1
           f == sftp[r].file
       IN  IF i <= Size[v]
           THEN /\ blocks' = [blocks EXCEPT ![f] =
                     [j \in 1..(IF Len(@) < i THEN i ELSE Len(@)) |->
                        IF j = i THEN v ELSE @[j]]]
                /\ sftp' = [sftp EXCEPT ![r].at = i]
                /\ UNCHANGED pc
           ELSE /\ Goto(r, IF At(r, "copy") THEN "check" ELSE "over")
                /\ sftp' = [sftp EXCEPT ![r] = None]
                /\ UNCHANGED blocks
  /\ UNCHANGED <<remote, disk, bridge, latest, state, seen, opened>>

(* The size, then the hash of what bears the name of the partial file. *)
Check(r) ==
  /\ At(r, "check")
  /\ IF part # None /\ Len(blocks[part]) = Size[seen[r]]
     THEN Goto(r, "publish") /\ UNCHANGED state
     ELSE Fail(r)
  /\ UNCHANGED <<remote, blocks, disk, bridge, latest, seen, sftp, opened>>

(* Mutant: the partial file is copied into place. *)
MutantPublish(r) ==
  /\ At(r, "publish")
  /\ part # None
  /\ local' = part
  /\ Goto(r, "published")
  /\ UNCHANGED <<remote, blocks, part, old, partMeta, sidecar, oldSidecar, bridge,
                 latest, state, seen, sftp, opened>>

Publish(r) ==
  /\ At(r, "publish")
  /\ IF part = None THEN Fail(r) /\ UNCHANGED <<part, local>>
     ELSE /\ local' = part
          /\ part' = None
          /\ Goto(r, "published")
          /\ UNCHANGED state
  /\ UNCHANGED <<remote, blocks, old, partMeta, sidecar, oldSidecar, bridge, latest,
                 seen, sftp, opened>>

(* The metadata of the partial file goes, the sidecar is replaced. *)
Record(r) ==
  /\ \/ /\ At(r, "published")
        /\ partMeta' = None
        /\ Goto(r, "sidecar")
        /\ UNCHANGED <<sidecar, state>>
     \/ /\ At(r, "sidecar")
        /\ sidecar' = seen[r]
        /\ Goto(r, "open")
        /\ state' = [state EXCEPT ![r] = "READY"]
        /\ UNCHANGED partMeta
  /\ UNCHANGED <<remote, blocks, part, local, old, oldSidecar, bridge, latest, seen,
                 sftp, opened>>

(* _open_if_requested *)
Open(r) ==
  /\ At(r, "open")
  /\ \/ /\ opened' = opened \cup ({r} \cap Opens)
        /\ UNCHANGED state
     \/ /\ r \in Opens
        /\ state' = [state EXCEPT ![r] = "READY_WITH_WARNING"]
        /\ UNCHANGED opened
  /\ Goto(r, IF state[r] = "CACHED" THEN "last" ELSE "tidy")
  /\ UNCHANGED <<remote, blocks, disk, bridge, latest, seen, sftp>>

(* The inner finally, after a success *)
Tidy(r) ==
  /\ \/ At(r, "tidy") /\ part' = None /\ Goto(r, "tidyMeta") /\ UNCHANGED partMeta
     \/ At(r, "tidyMeta") /\ partMeta' = None /\ Goto(r, "last") /\ UNCHANGED part
  /\ UNCHANGED <<remote, blocks, local, old, sidecar, oldSidecar, bridge, latest,
                 state, seen, sftp, opened>>

(* The outer finally: the job is put into _jobs again. *)
Last(r) ==
  /\ At(r, "last")
  /\ latest' = [latest EXCEPT ![home[r]] = r]
  /\ seen' = [seen EXCEPT ![r] = None]
  /\ Goto(r, "over")
  /\ UNCHANGED <<remote, blocks, disk, bridge, state, sftp, opened>>

(* stat or sftp fail or time out. *)
TransportFails(r) ==
  /\ pc[r] \in {"stat", "get", "copy"}
  /\ Fail(r)
  /\ sftp' = [sftp EXCEPT ![r] = None]
  /\ UNCHANGED <<remote, blocks, disk, bridge, latest, seen, opened>>

JobStep(r) ==
  \/ Start(r) \/ Stat(r) \/ Look(r) \/ Migrate(r) \/ MigrateMeta(r) \/ Partial(r)
  \/ Meta(r) \/ Get(r) \/ Copy(r) \/ Check(r) \/ Publish(r) \/ Record(r) \/ Open(r)
  \/ Tidy(r) \/ Last(r)

-----------------------------------------------------------------------------
(* The remote file changes. *)
RemoteChanges ==
  /\ remote + 1 \in Versions
  /\ remote' = remote + 1
  /\ UNCHANGED <<blocks, disk, bridge, latest, pc, state, seen, sftp, opened>>

Next ==
  \/ \E r \in Requests :
       (\E s \in Sessions : Submit(r, s)) \/ Complete(r) \/ JobStep(r) \/ TransportFails(r)
  \/ \E s \in Sessions : StopBridge(s) \/ StopForward(s) \/ Shutdown(s) \/ Killed(s)
  \/ RemoteChanges

Spec == Init /\ [][Next]_vars

-----------------------------------------------------------------------------
(* Properties *)

(* A sidecar that tells of the version the remote file has is true: what   *)
(* the next request will open for a cache hit is that version, all of it,  *)
(* whatever jobs, resumed transfers and crashes it was put together by.    *)
(* Not so for the artifact of an older release: its move (the file, later  *)
(* the metadata) can overtake a transfer that another session has just     *)
(* published, and a kill between the two renames leaves the old file with  *)
(* the new sidecar.                                                        *)
SidecarIsTrue ==
  Matches(local, sidecar, remote) /\ local # Legacy => blocks[local] = Whole(remote)

(* The helper reports success for a file that was fetched, never for a job *)
(* that was cancelled, or is under way.                                    *)
SuccessMeansFetched ==
  \A r \in Requests : helper[r] = "ok" => state[watched[r]] \in Done

(* rdo: when it has succeeded, the file was opened, or the user was told   *)
(* that it could not be (in a session that goes on).                       *)
RdoOpens ==
  \A r \in Opens : helper[r] = "ok" /\ session[home[r]] = "up" =>
    watched[r] \in opened \/ state[watched[r]] = "READY_WITH_WARNING"
=============================================================================
