-------------------------- MODULE DownloadQueueProofs --------------------------
(***************************************************************************)
(* The exit status of the helpers: success means that the file was fetched,*)
(* for any number of sessions, requests and versions.  What the files hold *)
(* plays no part in it.                                                    *)
(***************************************************************************)
EXTENDS DownloadQueue, TLAPS

Labels == {"none", "queued", "stat", "look", "migrate", "migrateMeta", "partial",
           "unmeta", "meta", "get", "copy", "check", "publish", "published", "sidecar",
           "open", "tidy", "tidyMeta", "last", "over", "cancelled", "orphan"}

States == {None, "QUEUED", "RUNNING", "FAILED"} \cup Done

(* TypeOK, without the files *)
Types ==
  /\ session \in [Sessions -> {"up", "unbridged", "cut", "shut", "gone"}]
  /\ latest \in [Sessions -> Requests \cup {None}]
  /\ home \in [Requests -> Sessions \cup {None}]
  /\ helper \in [Requests -> {"idle", "waiting", "ok", "failed"}]
  /\ watched \in [Requests -> Requests \cup {None}]
  /\ pc \in [Requests -> Labels]
  /\ state \in [Requests -> States]

(* A request that was sent watches a job of its own session, and so does   *)
(* _jobs.                                                                  *)
RequestOK(r) ==
  /\ helper[r] = "idle" => pc[r] = "none" /\ state[r] = None
  /\ helper[r] # "idle" =>
       /\ home[r] \in Sessions
       /\ watched[r] \in Requests
       /\ home[watched[r]] = home[r]
       /\ pc[watched[r]] # "none"
  /\ helper[r] = "waiting" => session[home[r]] \in {"up", "unbridged"}

LatestOK(s) ==
  latest[s] # None => home[latest[s]] = s /\ pc[latest[s]] # "none"

(* Where a job can be, given how it ended and what became of its session.  *)
Ended == Done \cup {"FAILED"}

JobOK(r) ==
  /\ pc[r] = "cancelled" => session[home[r]] \in {"shut", "gone"}
  /\ pc[r] = "orphan" => session[home[r]] = "gone"
  /\ pc[r] = "over" => state[r] \in Ended \/ session[home[r]] = "gone"
  /\ pc[r] = "last" => state[r] \in Ended
  /\ pc[r] \in {"open", "tidy", "tidyMeta"} => state[r] \in Done
  /\ state[r] \in Done => pc[r] \in {"open", "tidy", "tidyMeta", "last", "over"}

IInv ==
  /\ Types
  /\ \A r \in Requests : RequestOK(r) /\ JobOK(r)
  /\ \A s \in Sessions : LatestOK(s)
  /\ SuccessMeansFetched

-----------------------------------------------------------------------------
(* A job goes on: what it has reached is not lost, and it does not end     *)
(* without a result.                                                       *)
LEMMA JobMoves ==
  ASSUME IInv, NEW r \in Requests, UNCHANGED bridge,
         pc[r] # "none",
         pc' \in [Requests -> Labels], state' \in [Requests -> States],
         \A q \in Requests \ {r} : pc'[q] = pc[q] /\ state'[q] = state[q],
         latest' \in {latest, [latest EXCEPT ![home[r]] = r]},
         pc'[r] \notin {"none", "cancelled", "orphan"},
         state[r] \in Done => state'[r] \in Done,
         pc'[r] = "over" => state'[r] \in Ended \/ session[home[r]] = "gone",
         pc'[r] = "last" => state'[r] \in Ended,
         pc'[r] \in {"open", "tidy", "tidyMeta"} => state'[r] \in Done,
         state'[r] \in Done => pc'[r] \in {"open", "tidy", "tidyMeta", "last", "over"}
  PROVE  IInv'
<1>1. helper[r] # "idle" /\ home[r] \in Sessions
  BY DEF IInv, RequestOK
<1>2. Types'
  BY <1>1 DEF IInv, Types, bridge
<1>3. ASSUME NEW q \in Requests PROVE RequestOK(q)'
  BY <1>1, <1>3 DEF IInv, Types, RequestOK, bridge
<1>4. ASSUME NEW q \in Requests PROVE JobOK(q)'
  BY <1>4 DEF IInv, JobOK, bridge
<1>5. ASSUME NEW s \in Sessions PROVE LatestOK(s)'
  BY <1>1, <1>5, NoneAssumption DEF IInv, Types, LatestOK, bridge
<1>6. SuccessMeansFetched'
  BY DEF IInv, RequestOK, SuccessMeansFetched, bridge
<1>7. QED
  BY <1>2, <1>3, <1>4, <1>5, <1>6 DEF IInv

(* The statements of _run, one after the other.  What each lemma shows is  *)
(* where the job goes, and with which state.                               *)
LEMMA FailKeeps ==
  ASSUME IInv, NEW r \in Requests, Fail(r), UNCHANGED <<bridge, latest>>,
         pc[r] \notin {"none", "open", "tidy", "tidyMeta", "last", "over"}
  PROVE  IInv'
<1>1. /\ pc' \in [Requests -> Labels] /\ state' \in [Requests -> States]
      /\ pc'[r] = "last" /\ state'[r] = "FAILED"
      /\ \A q \in Requests \ {r} : pc'[q] = pc[q] /\ state'[q] = state[q]
  BY DEF Fail, Goto, IInv, Types, Labels, States
<1>2. state[r] \notin Done
  BY DEF IInv, JobOK
<1>3. QED
  BY <1>1, <1>2, JobMoves DEF Ended, Done

(* A step that leaves the state alone, of a job that is under way or has   *)
(* had its result.                                                         *)
LEMMA GotoKeeps ==
  ASSUME IInv, NEW r \in Requests, NEW label \in Labels, Goto(r, label),
         UNCHANGED <<bridge, latest, state>>, pc[r] # "none",
         \/ /\ pc[r] \notin {"open", "tidy", "tidyMeta", "last", "over"}
            /\ label \notin {"none", "cancelled", "orphan", "open", "tidy", "tidyMeta",
                            "last"}
            /\ label = "over" => session[home[r]] = "gone"
         \/ pc[r] \in {"tidy", "tidyMeta"} /\ label \in {"tidyMeta", "last"}
  PROVE  IInv'
<1>1. /\ pc' \in [Requests -> Labels] /\ pc'[r] = label
      /\ state' \in [Requests -> States] /\ state'[r] = state[r]
      /\ \A q \in Requests \ {r} : pc'[q] = pc[q] /\ state'[q] = state[q]
  BY DEF Goto, IInv, Types
<1>2. JobOK(r)
  BY DEF IInv
<1>3. QED
  BY <1>1, <1>2, JobMoves DEF JobOK, Ended

LEMMA TransferKeeps ==
  ASSUME IInv, NEW r \in Requests,
         \/ Stat(r) \/ Migrate(r) \/ MigrateMeta(r) \/ Partial(r) \/ Meta(r) \/ Get(r)
         \/ Check(r) \/ Publish(r) \/ Tidy(r) \/ TransportFails(r)
  PROVE  IInv'
<1>1. UNCHANGED <<bridge, latest>>
  BY DEF Stat, Migrate, MigrateMeta, Partial, Meta, Get, Check, Publish, Tidy,
         TransportFails
<1>2. CASE Tidy(r)
  BY <1>1, <1>2, GotoKeeps DEF Tidy, At, Labels
<1>3. CASE ~Tidy(r)
  <2>1. /\ pc[r] \in {"stat", "migrate", "migrateMeta", "partial", "unmeta", "meta",
                      "get", "copy", "check", "publish"}
        /\ \/ Fail(r)
           \/ UNCHANGED state /\ \E label \in {"look", "migrateMeta", "unmeta", "meta",
                                             "get", "copy", "publish", "published"} :
                                   Goto(r, label)
    BY <1>3 DEF Stat, Migrate, MigrateMeta, Partial, Meta, Get, Check, Publish,
                TransportFails, At
  <2>2. CASE Fail(r)
    BY <1>1, <2>1, <2>2, FailKeeps
  <2>3. ASSUME NEW label \in {"look", "migrateMeta", "unmeta", "meta", "get", "copy",
                              "publish", "published"},
               UNCHANGED state, Goto(r, label)
        PROVE  IInv'
    BY <1>1, <2>1, <2>3, GotoKeeps DEF Labels
  <2>4. QED
    BY <2>1, <2>2, <2>3
<1>4. QED
  BY <1>2, <1>3

LEMMA StartKeeps == ASSUME IInv, NEW r \in Requests, Start(r) PROVE IInv'
<1>1. /\ pc[r] = "queued" /\ UNCHANGED <<bridge, latest>>
      /\ pc' \in [Requests -> Labels] /\ state' \in [Requests -> States]
      /\ pc'[r] = "stat" /\ state'[r] = "RUNNING"
      /\ \A q \in Requests \ {r} : pc'[q] = pc[q] /\ state'[q] = state[q]
  BY DEF Start, At, Goto, IInv, Types, Labels, States
<1>2. state[r] \notin Done
  BY <1>1 DEF IInv, JobOK
<1>3. QED
  BY <1>1, <1>2, JobMoves DEF Done

LEMMA LookKeeps == ASSUME IInv, NEW r \in Requests, Look(r) PROVE IInv'
<1>1. pc[r] = "look" /\ UNCHANGED <<bridge, latest>>
  BY DEF Look, At
<1>2. CASE Goto(r, "open") /\ state' = [state EXCEPT ![r] = "CACHED"]
  <2>1. /\ pc' \in [Requests -> Labels] /\ state' \in [Requests -> States]
        /\ pc'[r] = "open" /\ state'[r] = "CACHED"
        /\ \A q \in Requests \ {r} : pc'[q] = pc[q] /\ state'[q] = state[q]
    BY <1>2 DEF Goto, IInv, Types, Labels, States, Done
  <2>2. QED
    BY <1>1, <2>1, JobMoves DEF Done
<1>3. CASE UNCHANGED state /\ (Goto(r, "migrate") \/ Goto(r, "partial"))
  BY <1>1, <1>3, GotoKeeps DEF Labels
<1>4. QED
  BY <1>2, <1>3 DEF Look

LEMMA CopyKeeps == ASSUME IInv, NEW r \in Requests, Copy(r) PROVE IInv'
<1>1. /\ pc[r] \in {"copy", "orphan"} /\ UNCHANGED <<bridge, latest, state>>
      /\ \/ UNCHANGED pc
         \/ Goto(r, "check")
         \/ pc[r] = "orphan" /\ Goto(r, "over")
  BY DEF Copy, At
<1>2. CASE UNCHANGED pc
  BY <1>1, <1>2 DEF IInv, Types, RequestOK, JobOK, LatestOK, SuccessMeansFetched, bridge
<1>3. CASE Goto(r, "check")
  BY <1>1, <1>3, GotoKeeps DEF Labels
<1>4. CASE pc[r] = "orphan" /\ Goto(r, "over")
  <2>1. session[home[r]] = "gone"
    BY <1>4 DEF IInv, JobOK
  <2>2. QED
    BY <1>1, <1>4, <2>1, GotoKeeps DEF Labels
<1>5. QED
  BY <1>1, <1>2, <1>3, <1>4

LEMMA RecordKeeps == ASSUME IInv, NEW r \in Requests, Record(r) PROVE IInv'
<1>1. pc[r] \in {"published", "sidecar"} /\ UNCHANGED <<bridge, latest>>
  BY DEF Record, At
<1>2. CASE Goto(r, "sidecar") /\ UNCHANGED state
  BY <1>1, <1>2, GotoKeeps DEF Labels
<1>3. CASE Goto(r, "open") /\ state' = [state EXCEPT ![r] = "READY"]
  <2>1. /\ pc' \in [Requests -> Labels] /\ state' \in [Requests -> States]
        /\ pc'[r] = "open" /\ state'[r] = "READY"
        /\ \A q \in Requests \ {r} : pc'[q] = pc[q] /\ state'[q] = state[q]
    BY <1>3 DEF Goto, IInv, Types, Labels, States, Done
  <2>2. QED
    BY <1>1, <2>1, JobMoves DEF Done
<1>4. QED
  BY <1>2, <1>3 DEF Record

LEMMA OpenKeeps == ASSUME IInv, NEW r \in Requests, Open(r) PROVE IInv'
<1>1. /\ pc[r] = "open" /\ UNCHANGED <<bridge, latest>>
      /\ Goto(r, "last") \/ Goto(r, "tidy")
      /\ UNCHANGED state \/ state' = [state EXCEPT ![r] = "READY_WITH_WARNING"]
  BY DEF Open, At
<1>2. state[r] \in Done
  BY <1>1 DEF IInv, JobOK
<1>3. /\ pc' \in [Requests -> Labels] /\ state' \in [Requests -> States]
      /\ pc'[r] \in {"last", "tidy"} /\ state'[r] \in Done
      /\ \A q \in Requests \ {r} : pc'[q] = pc[q] /\ state'[q] = state[q]
  BY <1>1, <1>2 DEF Goto, IInv, Types, Labels, States, Done
<1>4. QED
  BY <1>1, <1>3, JobMoves DEF Ended

LEMMA LastKeeps == ASSUME IInv, NEW r \in Requests, Last(r) PROVE IInv'
<1>1. /\ pc[r] = "last" /\ UNCHANGED <<bridge, state>>
      /\ latest' = [latest EXCEPT ![home[r]] = r]
  BY DEF Last, At
<1>2. state[r] \in Ended
  BY <1>1 DEF IInv, JobOK
<1>3. /\ pc' \in [Requests -> Labels] /\ state' \in [Requests -> States]
      /\ pc'[r] = "over"
      /\ \A q \in Requests \ {r} : pc'[q] = pc[q] /\ state'[q] = state[q]
  BY <1>1 DEF Last, Goto, IInv, Types, Labels
<1>4. QED
  BY <1>1, <1>2, <1>3, JobMoves

-----------------------------------------------------------------------------
(* A new request makes a job, or joins one of its session that runs.       *)
LEMMA SubmitKeeps ==
  ASSUME IInv, NEW r \in Requests, NEW s \in Sessions, Submit(r, s)
  PROVE  IInv'
<1>1. /\ helper[r] = "idle" /\ pc[r] = "none" /\ session[s] = "up"
      /\ helper' = [helper EXCEPT ![r] = "waiting"]
      /\ home' = [home EXCEPT ![r] = s]
      /\ session' = session
  BY DEF Submit, IInv, RequestOK
<1>2. \A q \in Requests : pc[q] # "none" => q # r /\ home'[q] = home[q]
  BY <1>1 DEF IInv, Types
<1>3. CASE /\ latest[s] # None
           /\ watched' = [watched EXCEPT ![r] = latest[s]]
           /\ UNCHANGED <<latest, pc, state>>
  <2>1. /\ latest[s] \in Requests /\ home[latest[s]] = s /\ pc[latest[s]] # "none"
    BY <1>3 DEF IInv, Types, LatestOK
  <2>2. Types'
    BY <1>1, <1>3, <2>1 DEF IInv, Types
  <2>3. ASSUME NEW q \in Requests PROVE RequestOK(q)' /\ JobOK(q)'
    <3>1. CASE q = r
      BY <1>1, <1>2, <1>3, <2>1, <3>1 DEF IInv, Types, RequestOK, JobOK
    <3>2. CASE q # r
      BY <1>1, <1>2, <1>3, <3>2 DEF IInv, Types, RequestOK, JobOK
    <3>3. QED
      BY <3>1, <3>2
  <2>4. ASSUME NEW t \in Sessions PROVE LatestOK(t)'
    BY <1>2, <1>3 DEF IInv, Types, LatestOK
  <2>5. SuccessMeansFetched'
    BY <1>1, <1>3 DEF IInv, Types, SuccessMeansFetched
  <2>6. QED
    BY <2>2, <2>3, <2>4, <2>5 DEF IInv
<1>4. CASE /\ watched' = [watched EXCEPT ![r] = r]
           /\ latest' = [latest EXCEPT ![s] = r]
           /\ state' = [state EXCEPT ![r] = "QUEUED"]
           /\ pc' = [pc EXCEPT ![r] = "queued"]
  <2>1. Types'
    BY <1>1, <1>4 DEF IInv, Types, Labels, States
  <2>2. ASSUME NEW q \in Requests PROVE RequestOK(q)' /\ JobOK(q)'
    <3>1. CASE q = r
      BY <1>1, <1>4, <3>1 DEF IInv, Types, RequestOK, JobOK, Done
    <3>2. CASE q # r
      BY <1>1, <1>2, <1>4, <3>2 DEF IInv, Types, RequestOK, JobOK
    <3>3. QED
      BY <3>1, <3>2
  <2>3. ASSUME NEW t \in Sessions PROVE LatestOK(t)'
    BY <1>1, <1>2, <1>4 DEF IInv, Types, LatestOK
  <2>4. SuccessMeansFetched'
    <3>1. ASSUME NEW q \in Requests, helper'[q] = "ok"
          PROVE  state'[watched'[q]] \in Done
      <4>1. q # r /\ helper[q] = "ok"
        BY <1>1, <3>1 DEF IInv, Types
      <4>2. watched[q] \in Requests /\ watched[q] # r /\ watched'[q] = watched[q]
        BY <1>2, <1>4, <4>1 DEF IInv, Types, RequestOK
      <4>3. QED
        BY <1>4, <4>1, <4>2 DEF IInv, Types, SuccessMeansFetched
    <3>2. QED
      BY <3>1 DEF SuccessMeansFetched
  <2>5. QED
    BY <2>1, <2>2, <2>3, <2>4 DEF IInv
<1>5. QED
  BY <1>3, <1>4 DEF Submit

(* A helper that still waits has a session whose queue was not shut down;  *)
(* a job of it that is over has a result.                                  *)
LEMMA CompleteKeeps ==
  ASSUME IInv, NEW r \in Requests, Complete(r)
  PROVE  IInv'
<1>1. /\ helper[r] = "waiting" /\ UNCHANGED <<session, home, watched, latest, pc, state>>
      /\ watched[r] \in Requests /\ home[watched[r]] = home[r]
      /\ session[home[r]] \in {"up", "unbridged"}
  BY DEF Complete, IInv, RequestOK
<1>2. state[watched[r]] \in Done \/ state[watched[r]] = "FAILED"
  BY <1>1 DEF Complete, IInv, JobOK, Ended
<1>3. helper' = [helper EXCEPT ![r] = IF state[watched[r]] = "FAILED" THEN "failed"
                                      ELSE "ok"]
  BY DEF Complete
<1>4. Types'
  BY <1>1, <1>3 DEF IInv, Types
<1>5. ASSUME NEW q \in Requests PROVE RequestOK(q)' /\ JobOK(q)'
  BY <1>1, <1>3 DEF IInv, Types, RequestOK, JobOK
<1>6. ASSUME NEW s \in Sessions PROVE LatestOK(s)'
  BY <1>1 DEF IInv, LatestOK
<1>7. SuccessMeansFetched'
  BY <1>1, <1>2, <1>3 DEF IInv, Types, SuccessMeansFetched
<1>8. QED
  BY <1>4, <1>5, <1>6, <1>7 DEF IInv

-----------------------------------------------------------------------------
(* A session that ends: it only goes from "up" to "gone", and no helper    *)
(* waits for it once its reverse leg is down.                              *)
LEMMA DisconnectedOK ==
  ASSUME IInv, NEW s \in Sessions, helper' \in Disconnected(s)
  PROVE  /\ helper' \in [Requests -> {"idle", "waiting", "ok", "failed"}]
         /\ \A r \in Requests :
              /\ helper'[r] = "idle" <=> helper[r] = "idle"
              /\ helper'[r] = "waiting" => helper[r] = "waiting" /\ home[r] # s
              /\ helper'[r] = "ok" => helper[r] = "ok" \/ state[watched[r]] \in Done
<1> DEFINE cut == {r \in Requests : home[r] = s /\ helper[r] = "waiting"}
           told == {r \in cut : state[watched[r]] \in Done}
<1>1. PICK ok \in SUBSET told :
        helper' = [r \in Requests |-> IF r \in ok THEN "ok" ELSE IF r \in cut THEN "failed"
                                     ELSE helper[r]]
  BY DEF Disconnected
<1>2. QED
  BY <1>1 DEF IInv, Types

LEMMA StopBridgeKeeps ==
  ASSUME IInv, NEW s \in Sessions, StopBridge(s)
  PROVE  IInv'
<1>1. /\ session' = [session EXCEPT ![s] = "unbridged"] /\ session[s] = "up"
      /\ UNCHANGED <<home, helper, watched, latest, pc, state>>
  BY DEF StopBridge
<1>2. Types'
  BY <1>1 DEF IInv, Types
<1>3. ASSUME NEW r \in Requests PROVE RequestOK(r)' /\ JobOK(r)'
  BY <1>1 DEF IInv, Types, RequestOK, JobOK
<1>4. QED
  BY <1>1, <1>2, <1>3 DEF IInv, LatestOK, SuccessMeansFetched

LEMMA StopForwardKeeps ==
  ASSUME IInv, NEW s \in Sessions, StopForward(s)
  PROVE  IInv'
<1>1. /\ session' = [session EXCEPT ![s] = "cut"] /\ session[s] = "unbridged"
      /\ UNCHANGED <<home, watched, latest, pc, state>>
      /\ helper' \in Disconnected(s)
  BY DEF StopForward
<1>2. Types'
  BY <1>1, DisconnectedOK DEF IInv, Types
<1>3. ASSUME NEW r \in Requests PROVE RequestOK(r)' /\ JobOK(r)'
  BY <1>1, DisconnectedOK DEF IInv, Types, RequestOK, JobOK
<1>4. SuccessMeansFetched'
  BY <1>1, DisconnectedOK DEF IInv, SuccessMeansFetched
<1>5. QED
  BY <1>1, <1>2, <1>3, <1>4 DEF IInv, LatestOK

LEMMA ShutdownKeeps ==
  ASSUME IInv, NEW s \in Sessions, Shutdown(s)
  PROVE  IInv'
<1>1. /\ session' = [session EXCEPT ![s] = "shut"] /\ session[s] = "cut"
      /\ UNCHANGED <<home, helper, watched, latest, state>>
      /\ pc' = [r \in Requests |->
                  IF home[r] = s /\ pc[r] = "queued" THEN "cancelled" ELSE pc[r]]
  BY DEF Shutdown
<1>2. Types'
  BY <1>1 DEF IInv, Types, Labels
<1>3. ASSUME NEW r \in Requests PROVE RequestOK(r)' /\ JobOK(r)'
  BY <1>1 DEF IInv, Types, RequestOK, JobOK
<1>4. ASSUME NEW t \in Sessions PROVE LatestOK(t)'
  BY <1>1 DEF IInv, Types, LatestOK
<1>5. QED
  BY <1>1, <1>2, <1>3, <1>4 DEF IInv, SuccessMeansFetched

LEMMA KilledKeeps ==
  ASSUME IInv, NEW s \in Sessions, Killed(s)
  PROVE  IInv'
<1>1. /\ session' = [session EXCEPT ![s] = "gone"]
      /\ UNCHANGED <<home, watched, latest, state>>
      /\ helper' \in Disconnected(s)
      /\ pc' = [r \in Requests |->
                  IF home[r] # s \/ pc[r] = "none" THEN pc[r]
                  ELSE IF pc[r] = "copy" THEN "orphan" ELSE "over"]
  BY DEF Killed
<1>2. Types'
  BY <1>1, DisconnectedOK DEF IInv, Types, Labels
<1>3. ASSUME NEW r \in Requests PROVE RequestOK(r)'
  BY <1>1, DisconnectedOK DEF IInv, Types, RequestOK
<1>4. ASSUME NEW r \in Requests PROVE JobOK(r)'
  <2>1. CASE home[r] # s \/ pc[r] = "none"
    BY <1>1, <2>1 DEF IInv, Types, JobOK
  <2>2. CASE home[r] = s /\ pc[r] # "none"
    BY <1>1, <2>2 DEF IInv, Types, JobOK
  <2>3. QED
    BY <2>1, <2>2
<1>5. ASSUME NEW t \in Sessions PROVE LatestOK(t)'
  BY <1>1 DEF IInv, Types, LatestOK
<1>6. SuccessMeansFetched'
  BY <1>1, DisconnectedOK DEF IInv, SuccessMeansFetched
<1>7. QED
  BY <1>2, <1>3, <1>4, <1>5, <1>6 DEF IInv

-----------------------------------------------------------------------------
LEMMA InitInv == Init => IInv
<1> SUFFICES ASSUME Init PROVE IInv
  OBVIOUS
<1>1. Types
  BY DEF Init, Types, Labels, States
<1>2. ASSUME NEW r \in Requests PROVE RequestOK(r) /\ JobOK(r)
  BY NoneAssumption DEF Init, RequestOK, JobOK, Done
<1>3. QED
  BY <1>1, <1>2 DEF Init, IInv, LatestOK, SuccessMeansFetched

LEMMA NextInv == IInv /\ [Next]_vars => IInv'
<1> SUFFICES ASSUME IInv, [Next]_vars PROVE IInv'
  OBVIOUS
<1>1. ASSUME NEW r \in Requests, JobStep(r) \/ TransportFails(r)
      PROVE  IInv'
  BY <1>1, StartKeeps, TransferKeeps, LookKeeps, CopyKeeps, RecordKeeps, OpenKeeps,
     LastKeeps DEF JobStep
<1>2. CASE RemoteChanges \/ UNCHANGED vars
  BY <1>2 DEF RemoteChanges, vars, bridge, IInv, Types, RequestOK, JobOK, LatestOK,
              SuccessMeansFetched
<1>3. QED
  BY <1>1, <1>2, SubmitKeeps, CompleteKeeps, StopBridgeKeeps, StopForwardKeeps,
     ShutdownKeeps, KilledKeeps DEF Next

LEMMA Invariance == Spec => []IInv
BY InitInv, NextInv, PTL DEF Spec

(* A helper exits with success only if its file was fetched: not for a job *)
(* that was cancelled when its session ended, that was killed, or that     *)
(* another request of the session joined and that failed.                  *)
THEOREM SuccessIsEarned == Spec => []SuccessMeansFetched
BY Invariance, PTL DEF IInv
=============================================================================
