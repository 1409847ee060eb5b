------------------------------ MODULE TsshLease ------------------------------
(***************************************************************************)
(* The clients of the lease table: `tssh` (main and heartbeat thread) and  *)
(* `remote-dev connect`, and the orchestrator as they see it: one thread   *)
(* that takes one request at a time from its backlog, expires leases       *)
(* before it looks at the next one, and may block for long in start().     *)
(* LeaseTable and Orchestrator have the handlers in full; here a lease is  *)
(* its age, and what counts is when requests are sent, given up by their   *)
(* sender, and executed all the same.                                      *)
(*                                                                         *)
(* Time: a tick is the heartbeat interval of tssh.  Threads are scheduled  *)
(* within a tick: no tick passes while a timer has run out or while the    *)
(* server, up and not blocked, has something to do (Urgent).               *)
(***************************************************************************)
EXTENDS Integers, Sequences, FiniteSets

CONSTANTS
  Tssh,             \* tssh processes, interactive or persistent
  Connect,          \* processes of `remote-dev connect`
  LeaseTTL,         \* lease_ttl
  Beat,             \* heartbeat_interval of tssh
  ConnectBeat,      \* heartbeat interval of connect
  RequestTimeout,   \* acquire and heartbeat
  ReleaseTimeout,
  JoinTimeout,
  MaxBlock,         \* how long a start() or a pass may block, at most
  Backlog,          \* connections the listening socket holds
  NoLease,
  NoRequest

Clients == Tssh \cup Connect

ASSUME ClientsAssumption == Tssh \cap Connect = {}
ASSUME TimesAssumption ==
  /\ {LeaseTTL, Beat, ConnectBeat, RequestTimeout, ReleaseTimeout,
      JoinTimeout, Backlog} \subseteq Nat \ {0}
  /\ MaxBlock \in Nat

(* LeaseSettings: a lease tolerates two missed heartbeats. *)
ASSUME SettingsAssumption == LeaseTTL > 2 * Beat

VARIABLES
  main,      \* what the main thread of a client is at
  thread,    \* what its heartbeat thread is at
  limit,     \* ticks until the main thread's time-out
  pause,     \* ticks until the heartbeat thread's time-out or next heartbeat
  queue,     \* connections not accepted yet, with the request on them
  current,   \* the request that is being handled
  server,    \* where serve() is
  busy,      \* ticks the server is blocked for
  lease      \* age of the lease, for every client that holds one

vars == <<main, thread, limit, pause, queue, current, server, busy, lease>>
serverVars == <<current, server, busy>>

Request == [from : Clients, by : {"main", "thread"},
            op : {"acquire", "heartbeat", "release"}, open : BOOLEAN]

LeaseAges == 0..(LeaseTTL + 1)

ASSUME NoneAssumption == NoLease \notin LeaseAges /\ NoRequest \notin Request

Timers == 0..(RequestTimeout + ReleaseTimeout + JoinTimeout + Beat + ConnectBeat)

TypeOK ==
  /\ main \in [Clients -> {"new", "acquiring", "running", "joining",
                           "releasing", "done"}]
  /\ thread \in [Clients -> {"off", "waiting", "beating", "restoring", "again"}]
  /\ limit \in [Clients -> Timers] /\ pause \in [Clients -> Timers]
  /\ queue \in Seq(Request) /\ Len(queue) <= Backlog
  /\ current \in Request \cup {NoRequest}
  /\ server \in {"pass", "select", "answer", "down"}
  /\ (current # NoRequest) = (server = "answer")
  /\ busy \in 0..MaxBlock
  /\ lease \in [Clients -> LeaseAges \cup {NoLease}]
  /\ \A c \in Clients : thread[c] # "off" =>
       main[c] \in {"running", "joining", "releasing"}

Init ==
  /\ main = [c \in Clients |-> "new"]
  /\ thread = [c \in Clients |-> "off"]
  /\ limit = [c \in Clients |-> 0]
  /\ pause = [c \in Clients |-> 0]
  /\ queue = <<>>
  /\ current = NoRequest
  /\ server = "pass"
  /\ busy = 0
  /\ lease = [c \in Clients |-> NoLease]

-----------------------------------------------------------------------------
(* Requests *)

(* Mutant: the interval is taken in other units than the TTL. *)
MutantInterval(c) == LeaseTTL + Beat

Interval(c) == IF c \in Tssh THEN Beat ELSE ConnectBeat

(* A full backlog is an exception at once: a socket with a time-out does   *)
(* not block in connect().                                                 *)
Room == Len(queue) < Backlog

(* connect and sendall *)
Post(q, c, by, op) ==
  queue' = Append(q, [from |-> c, by |-> by, op |-> op, open |-> TRUE])

Abandoned(r, c, who) ==
  IF r # NoRequest /\ r.from = c /\ r.by \in who THEN [r EXCEPT !.open = FALSE] ELSE r

(* The sender closes its connections.  What it wrote is still read. *)
Abandon(c, who) ==
  /\ queue' = [i \in DOMAIN queue |-> Abandoned(queue[i], c, who)]
  /\ current' = Abandoned(current, c, who)
  /\ UNCHANGED <<server, busy>>

(* The thread acquires once more, over a connection of its own: what is    *)
(* "restoring" after a refused heartbeat and "again" after an exception.   *)
Repeat(c, what) ==
  /\ thread' = [thread EXCEPT ![c] = what]
  /\ pause' = [pause EXCEPT ![c] = RequestTimeout]

Rest(c) ==
  /\ thread' = [thread EXCEPT ![c] = "waiting"]
  /\ pause' = [pause EXCEPT ![c] = Interval(c)]

-----------------------------------------------------------------------------
(* The main thread *)

Launch(c) ==
  /\ main[c] = "new"
  /\ Room
  /\ main' = [main EXCEPT ![c] = "acquiring"]
  /\ limit' = [limit EXCEPT ![c] = RequestTimeout]
  /\ Post(queue, c, "main", "acquire")
  /\ UNCHANGED <<thread, pause, serverVars, lease>>

(* The end of main(), with or without a heartbeat thread: at its leisure   *)
(* that thread sees the event when it waits, and is left alone otherwise.  *)
SessionEnds(c) ==
  /\ main[c] = "running"
  /\ main' = [main EXCEPT ![c] = "joining"]
  /\ limit' = [limit EXCEPT ![c] = JoinTimeout]
  /\ UNCHANGED <<thread, pause, queue, serverVars, lease>>

SendRelease(c) ==
  /\ main[c] = "joining"
  /\ thread[c] = "off" \/ limit[c] = 0
  /\ Room
  /\ main' = [main EXCEPT ![c] = "releasing"]
  /\ limit' = [limit EXCEPT ![c] = ReleaseTimeout]
  /\ Post(queue, c, "main", "release")
  /\ UNCHANGED <<thread, pause, serverVars, lease>>

(* acquire was not answered in time: the finally branch, without a join *)
AcquireTimeout(c) ==
  /\ main[c] = "acquiring"
  /\ limit[c] = 0
  /\ main' = [main EXCEPT ![c] = "joining"]
  /\ Abandon(c, {"main"})
  /\ UNCHANGED <<thread, limit, pause, lease>>

(* Mutant: the heartbeat thread outlives the session. *)
MutantOver(c) ==
  /\ main' = [main EXCEPT ![c] = "done"]
  /\ limit' = [limit EXCEPT ![c] = 0]
  /\ UNCHANGED <<thread, pause>>

(* The process ends, its daemon thread with it. *)
Over(c) ==
  /\ main' = [main EXCEPT ![c] = "done"]
  /\ thread' = [thread EXCEPT ![c] = "off"]
  /\ limit' = [limit EXCEPT ![c] = 0]
  /\ pause' = [pause EXCEPT ![c] = 0]

ReleaseFails(c) ==
  /\ \/ main[c] = "releasing" /\ limit[c] = 0
     \/ main[c] = "joining" /\ (thread[c] = "off" \/ limit[c] = 0) /\ ~Room
  /\ Over(c)
  /\ Abandon(c, {"main", "thread"})
  /\ UNCHANGED lease

Killed(c) ==
  /\ main[c] \notin {"new", "done"}
  /\ Over(c)
  /\ Abandon(c, {"main", "thread"})
  /\ UNCHANGED lease

-----------------------------------------------------------------------------
(* The heartbeat thread *)

Stopped(c) == main[c] \in {"joining", "releasing"}

ThreadStops(c) ==
  /\ thread[c] = "waiting"
  /\ Stopped(c)
  /\ thread' = [thread EXCEPT ![c] = "off"]
  /\ pause' = [pause EXCEPT ![c] = 0]
  /\ UNCHANGED <<main, limit, queue, serverVars, lease>>

SendHeartbeat(c) ==
  /\ thread[c] = "waiting"
  /\ ~Stopped(c)
  /\ pause[c] = 0
  /\ IF Room
     THEN /\ thread' = [thread EXCEPT ![c] = "beating"]
          /\ pause' = [pause EXCEPT ![c] = RequestTimeout]
          /\ Post(queue, c, "thread", "heartbeat")
     ELSE Rest(c) /\ UNCHANGED queue
  /\ UNCHANGED <<main, limit, serverVars, lease>>

(* An exception of the heartbeat, or of the acquire that its refusal led   *)
(* to: tssh acquires (again), connect only waits.  When the backlog is     *)
(* full that acquire fails at once, like what it was to replace.           *)
HeartbeatTimeout(c) ==
  /\ thread[c] \in {"beating", "restoring"}
  /\ pause[c] = 0
  /\ current' = Abandoned(current, c, {"thread"})
  /\ LET left == [i \in DOMAIN queue |-> Abandoned(queue[i], c, {"thread"})]
     IN  IF c \in Tssh /\ Room
         THEN Repeat(c, "again") /\ Post(left, c, "thread", "acquire")
         ELSE Rest(c) /\ queue' = left
  /\ UNCHANGED <<main, limit, server, busy, lease>>

AcquireAgainTimeout(c) ==
  /\ thread[c] = "again"
  /\ pause[c] = 0
  /\ Rest(c)
  /\ Abandon(c, {"thread"})
  /\ UNCHANGED <<main, limit, lease>>

-----------------------------------------------------------------------------
(* Answers *)

MainReceives(c, answer) ==
  /\ \/ /\ main[c] = "acquiring"
        /\ answer = "ok" \/ (answer = "degraded" /\ c \in Connect)
        /\ main' = [main EXCEPT ![c] = "running"]
        /\ limit' = [limit EXCEPT ![c] = 0]
        /\ Rest(c)
     \/ /\ main[c] = "acquiring"
        /\ answer = "failed" \/ (answer = "degraded" /\ c \in Tssh)
        /\ main' = [main EXCEPT ![c] = "joining"]
        /\ limit' = [limit EXCEPT ![c] = 0]
        /\ UNCHANGED <<thread, pause>>
     \/ /\ main[c] = "releasing"
        /\ Over(c)
  /\ queue' = IF main[c] = "releasing"
              THEN [i \in DOMAIN queue |-> Abandoned(queue[i], c, {"thread"})]
              ELSE queue

(* Mutant: tssh, too, takes a refusal for the end of its lease. *)
MutantThreadReceives(c, answer) ==
  /\ IF thread[c] = "beating" /\ answer = "cleared"
     THEN thread' = [thread EXCEPT ![c] = "off"] /\ pause' = [pause EXCEPT ![c] = 0]
     ELSE Rest(c)
  /\ UNCHANGED <<main, limit, queue>>

ThreadReceives(c, answer) ==
  /\ \/ /\ c \in Tssh
        /\ \/ thread[c] = "beating" /\ answer \in {"cleared", "failed"}
           \/ thread[c] = "restoring" /\ answer = "failed"
        /\ IF Room
           THEN /\ Repeat(c, IF answer = "cleared" THEN "restoring" ELSE "again")
                /\ Post(queue, c, "thread", "acquire")
           ELSE Rest(c) /\ UNCHANGED queue
     \/ /\ thread[c] = "beating" /\ answer = "cleared" /\ c \in Connect
        /\ thread' = [thread EXCEPT ![c] = "off"]
        /\ pause' = [pause EXCEPT ![c] = 0]
        /\ UNCHANGED queue
     \/ /\ \/ thread[c] = "again"
           \/ answer \in {"ok", "degraded"}
           \/ answer = "failed" /\ c \in Connect
        /\ Rest(c)
        /\ UNCHANGED queue
  /\ UNCHANGED <<main, limit>>

(* Whoever still listens on the connection gets the answer. *)
Deliver(r, answer) ==
  IF ~r.open THEN UNCHANGED <<main, thread, limit, pause, queue>>
  ELSE IF r.by = "main" THEN MainReceives(r.from, answer)
  ELSE ThreadReceives(r.from, answer)

-----------------------------------------------------------------------------
(* The server *)

Ready == server # "down" /\ busy = 0

(* Mutant: a lease that is heartbeat late is given another chance for ever. *)
MutantStale(c) == FALSE

Stale(c) == lease[c] # NoLease /\ lease[c] > LeaseTTL

Expired == [c \in Clients |-> IF Stale(c) THEN NoLease ELSE lease[c]]

(* _expire_sessions and _reconcile_endpoints, which may block *)
Pass ==
  /\ Ready
  /\ server = "pass"
  /\ lease' = Expired
  /\ busy' \in 0..MaxBlock
  /\ server' = "select"
  /\ UNCHANGED <<main, thread, limit, pause, queue, current>>

(* A new lease may be the first, one that is repeated may ask for more,    *)
(* and the owner's release may hand over.                                  *)
Starts(r) ==
  \/ r.op = "acquire"
  \/ r.op = "release" /\ \E c \in Clients \ {r.from} : Expired[c] # NoLease

(* accept, the pass of handle(), and the handler, which may call start() *)
Take ==
  /\ Ready
  /\ server = "select"
  /\ queue # <<>>
  /\ LET r == Head(queue)
         c == r.from
     IN  /\ current' = r
         /\ lease' = CASE r.op = "acquire" -> [Expired EXCEPT ![c] = 0]
                       [] r.op = "release" -> [Expired EXCEPT ![c] = NoLease]
                       [] r.op = "heartbeat" ->
                            [Expired EXCEPT ![c] = IF @ = NoLease THEN @ ELSE 0]
         /\ busy' \in 0..(IF Starts(r) THEN MaxBlock ELSE 0)
  /\ queue' = Tail(queue)
  /\ server' = "answer"
  /\ UNCHANGED <<main, thread, limit, pause>>

(* A release of a lease that is not there is answered ok, a heartbeat of   *)
(* one LEASE_CLEARED; an acquire may report a DEGRADED endpoint.           *)
Answer ==
  /\ Ready
  /\ server = "answer"
  /\ \E answer \in CASE current.op = "acquire"   -> {"ok", "degraded"}
                     [] current.op = "release"   -> {"ok"}
                     [] current.op = "heartbeat" ->
                          {IF lease[current.from] = NoLease THEN "cleared" ELSE "ok"} :
       Deliver(current, answer)
  /\ current' = NoRequest
  /\ server' = "pass"
  /\ UNCHANGED <<busy, lease>>

(* The backlog is the socket unit's and stays; an accepted connection is   *)
(* reset.                                                                  *)
Crash ==
  /\ server # "down"
  /\ server' = "down"
  /\ busy' = 0
  /\ current' = NoRequest
  /\ lease' = [c \in Clients |-> NoLease]
  /\ IF current = NoRequest
     THEN UNCHANGED <<main, thread, limit, pause, queue>>
     ELSE Deliver(current, "failed")

Restart ==
  /\ server = "down"
  /\ server' = "pass"
  /\ UNCHANGED <<main, thread, limit, pause, queue, current, busy, lease>>

(* tssh cleanup: its request is answered at once *)
Cleanup ==
  /\ Ready
  /\ server = "select"
  /\ lease' = [c \in Clients |-> NoLease]
  /\ UNCHANGED <<main, thread, limit, pause, queue, serverVars>>

-----------------------------------------------------------------------------
(* Time *)

Urgent ==
  \/ Ready /\ (server # "select" \/ queue # <<>>)
  \/ \E c \in Clients :
       \/ main[c] \in {"acquiring", "joining", "releasing"} /\ limit[c] = 0
       \/ main[c] = "joining" /\ thread[c] = "off"
       \/ thread[c] # "off" /\ pause[c] = 0
       \/ thread[c] = "waiting" /\ Stopped(c)

Less(t) == IF t = 0 THEN 0 ELSE t - 1

(* select() times out well within a tick. *)
Tick ==
  /\ ~Urgent
  /\ limit' = [c \in Clients |-> Less(limit[c])]
  /\ pause' = [c \in Clients |-> Less(pause[c])]
  /\ busy' = Less(busy)
  /\ server' = IF server = "select" /\ busy = 0 THEN "pass" ELSE server
  /\ lease' = [c \in Clients |->
       IF lease[c] # NoLease /\ lease[c] <= LeaseTTL THEN lease[c] + 1 ELSE lease[c]]
  /\ UNCHANGED <<main, thread, queue, current>>

ClientStep(c) ==
  \/ SendRelease(c) \/ AcquireTimeout(c) \/ ReleaseFails(c)
  \/ ThreadStops(c) \/ SendHeartbeat(c) \/ HeartbeatTimeout(c)
  \/ AcquireAgainTimeout(c)

ServerStep == Pass \/ Take \/ Answer

Next ==
  \/ \E c \in Clients : Launch(c) \/ SessionEnds(c) \/ Killed(c) \/ ClientStep(c)
  \/ ServerStep
  \/ Crash \/ Restart \/ Cleanup
  \/ Tick

Spec == Init /\ [][Next]_vars

(* All threads run and time passes.  The service is started again whenever *)
(* it is down, and is not killed for ever.                                 *)
Fairness ==
  /\ \A c \in Clients : WF_vars(ClientStep(c))
  /\ WF_vars(ServerStep) /\ WF_vars(Restart) /\ WF_vars(Tick)
  /\ <>[][~Crash]_vars

FairSpec == Spec /\ Fairness

-----------------------------------------------------------------------------
(* Properties *)

(* However the lease of a running tssh session was lost (restart, cleanup, *)
(* a blocked server), the session gets it again.                           *)
LiveLeaseRestored ==
  \A c \in Tssh : main[c] = "running" /\ lease[c] = NoLease
                   ~> lease[c] # NoLease \/ main[c] # "running"

(* The lease of a client that has ended is gone for good some time, also   *)
(* if it was killed, or if a request that it gave up long ago is executed  *)
(* after its release.                                                      *)
DeadLeaseGoes ==
  \A c \in Clients : main[c] = "done" ~> [](lease[c] = NoLease)
=============================================================================
