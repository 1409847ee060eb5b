----------------------------- MODULE LeaseTable -----------------------------
(***************************************************************************)
(* The lease table of the orchestrator: OrchestratorServer.sessions and    *)
(* .endpoints, and what EndpointForwardManager.start/.stop have put in     *)
(* place for each endpoint.  The server is single-threaded, so a handler   *)
(* is one step; module Orchestrator adds the order in which serve() and    *)
(* handle() call the handlers and the target registry they update.         *)
(*                                                                         *)
(* Abstractions: a private key is the BOOLEAN "identity" (whether the      *)
(* candidate carries one); time is the age of a lease since last_seen and  *)
(* the wait until next_retry, both advanced by Tick; where the code takes  *)
(* the first of several equal candidates in dict order, any may be taken.  *)
(*                                                                         *)
(* Assumed of the remote host: no healthy 4227 answers when a start looks  *)
(* for one.  (Another controller's does, or that of a unit of ours that is *)
(* still being stopped: then start() puts up an event leg only, or nothing *)
(* at all, and stop() may leave the endpoint's unit alone; EndpointStart   *)
(* has these outcomes too.)  And systemctl can be run when a unit is to be *)
(* stopped.                                                                *)
(***************************************************************************)
EXTENDS Integers, Sequences, FiniteSets

CONSTANTS
  Sessions,      \* session_ids
  Endpoints,     \* (hostname, port) pairs
  Users,         \* remote users; numbers, because candidates are sorted by user
  Profiles,      \* what acquire requests say of their sender
  LeaseTTL,      \* lease_ttl, in ticks
  RetryDelays,   \* the back-off ladder, in ticks
  NoLease,       \* the session_id is not in sessions
  NoRecord,      \* the endpoint digest is not in endpoints
  NoTunnel,      \* no unit of this endpoint
  DeadTunnel     \* the unit was started and later gave up on its own

Profile == [user : Users, identity : BOOLEAN, event : BOOLEAN]

Lease == [endpoint : Endpoints, user : Users, identity : BOOLEAN,
          event : BOOLEAN, age : 0..(LeaseTTL + 1)]

Record == [state : {"STARTING", "READY", "DEGRADED"}, owner : Users,
           count : Nat, event : BOOLEAN, failures : 0..Len(RetryDelays),
           wait : Nat]

Tunnel == [user : Users, event : BOOLEAN]

TunnelState == Tunnel \cup {NoTunnel, DeadTunnel}

ASSUME FiniteAssumption == IsFiniteSet(Sessions)
ASSUME UsersAssumption == Users \subseteq Nat
ASSUME ProfilesAssumption == Profiles \subseteq Profile
ASSUME TTLAssumption == LeaseTTL \in Nat \ {0}
ASSUME DelaysAssumption == RetryDelays \in Seq(Nat \ {0}) /\ Len(RetryDelays) > 0
ASSUME AbsentAssumption ==
  /\ NoLease \notin Lease
  /\ NoRecord \notin Record
  /\ NoTunnel \notin Tunnel
  /\ DeadTunnel \notin Tunnel
  /\ NoTunnel # DeadTunnel

VARIABLES
  sessions,      \* session_id -> lease
  endpoints,     \* endpoint digest -> record
  tunnel,        \* the unit of each endpoint
  running        \* the server process is there

leaseVars == <<sessions, endpoints, tunnel, running>>

TypeOK ==
  /\ sessions \in [Sessions -> Lease \cup {NoLease}]
  /\ endpoints \in [Endpoints -> Record \cup {NoRecord}]
  /\ tunnel \in [Endpoints -> TunnelState]
  /\ running \in BOOLEAN

Init ==
  /\ sessions = [s \in Sessions |-> NoLease]
  /\ endpoints = [e \in Endpoints |-> NoRecord]
  /\ tunnel = [e \in Endpoints |-> NoTunnel]
  /\ running = TRUE

-----------------------------------------------------------------------------
(* Reading the table. *)

LeasesOn(e) == {s \in Sessions : sessions[s] # NoLease /\ sessions[s].endpoint = e}

WithIdentity(S) == {s \in S : sessions[s].identity}

WantsEvent(S) == \E s \in S : sessions[s].event

(* candidates.sort(key=user); candidates[0] *)
FirstByUser(S) == {s \in S : \A t \in S : sessions[s].user <= sessions[t].user}

-----------------------------------------------------------------------------
(* Starting a tunnel. *)

(* start() returns, raises after it removed the unit, or raises before it  *)
(* touched it (a port that is occupied, a command that cannot be run).     *)
Outcomes == {"up", "removed", "untouched"}

TunnelAfter(outcome, old, user, event) ==
  CASE outcome = "up"        -> [user |-> user, event |-> event]
    [] outcome = "removed"   -> NoTunnel
    [] outcome = "untouched" -> old

RetryDelay(failures) ==
  RetryDelays[IF failures < 1 THEN 1
              ELSE IF failures > Len(RetryDelays) THEN Len(RetryDelays)
              ELSE failures]

(* failure_count only feeds retry_delay, so it stops at the ladder's end. *)
MarkFailure(record) ==
  LET failures == IF record.failures < Len(RetryDelays)
                  THEN record.failures + 1 ELSE record.failures
  IN  [record EXCEPT !.state = "DEGRADED", !.failures = failures,
                     !.wait = RetryDelay(failures)]

(* Mutant: the exception of start() is swallowed. *)
MutantFailureIgnored(outcome, started, failed) == started

AfterStart(outcome, started, failed) ==
  IF outcome = "up" THEN started ELSE MarkFailure(failed)

-----------------------------------------------------------------------------
(* acquire *)

NewLease(e, p) ==
  [endpoint |-> e, user |-> p.user, identity |-> p.identity,
   event |-> p.event, age |-> 0]

NewRecord(p) ==
  [state |-> "STARTING", owner |-> p.user, count |-> 0, event |-> p.event,
   failures |-> 0, wait |-> 0]

(* Mutant: only the first lease is counted. *)
MutantFirstCounted(e, p) ==
  IF endpoints[e] = NoRecord THEN [NewRecord(p) EXCEPT !.count = 1] ELSE endpoints[e]

(* setdefault, then session_count += 1.  A record never has owner None     *)
(* once it is made, so only a new one takes its owner from the request.    *)
Joined(e, p) ==
  LET record == IF endpoints[e] = NoRecord THEN NewRecord(p) ELSE endpoints[e]
  IN  [record EXCEPT !.count = @ + 1]

NeedsUpgrade(record, p) == p.event /\ ~record.event /\ p.identity

IsFirst(record, p) == record.count = 1 /\ p.identity

(* Put the outcome of one start() on endpoint e. *)
Settle(e, outcome, user, event, started, failed) ==
  /\ tunnel' = [tunnel EXCEPT ![e] = TunnelAfter(outcome, @, user, event)]
  /\ endpoints' = [endpoints EXCEPT ![e] = AfterStart(outcome, started, failed)]

Acquire(s, e, p) ==
  /\ running
  /\ sessions[s] = NoLease
  /\ sessions' = [sessions EXCEPT ![s] = NewLease(e, p)]
  /\ UNCHANGED running
  /\ LET record == Joined(e, p)
     IN  \/ /\ NeedsUpgrade(record, p)
            /\ \E o \in Outcomes :
                 Settle(e, o, p.user, TRUE, [record EXCEPT !.event = TRUE], record)
         \/ /\ ~NeedsUpgrade(record, p)
            /\ IsFirst(record, p)
            /\ \E o \in Outcomes :
                 Settle(e, o, p.user, p.event, [record EXCEPT !.state = "READY"], record)
         \/ /\ ~NeedsUpgrade(record, p)
            /\ ~IsFirst(record, p)
            /\ endpoints' = [endpoints EXCEPT ![e] = record]
            /\ UNCHANGED tunnel

(* All that was in memory is gone; the units are systemd's and stay. *)
LoseMemory ==
  /\ running' = FALSE
  /\ sessions' = [s \in Sessions |-> NoLease]
  /\ endpoints' = [e \in Endpoints |-> NoRecord]

Refresh(s) == sessions' = [sessions EXCEPT ![s].age = 0]

(* acquire for a session_id that is already there.  Clients repeat the     *)
(* payload of their first acquire; another endpoint is SESSION_CONFLICT    *)
(* and changes nothing.  An exception of start() leaves the handler, which *)
(* only catches TypeError, ValueError and KeyError, and ends the process.  *)
Reacquire(s, e) ==
  /\ running
  /\ s \in LeasesOn(e)
  /\ LET l == sessions[s]
         record == endpoints[e]
     IN  \/ /\ ~NeedsUpgrade(record, l)
            /\ Refresh(s)
            /\ UNCHANGED <<endpoints, tunnel, running>>
         \/ /\ NeedsUpgrade(record, l)
            /\ \E o \in Outcomes :
                 /\ tunnel' = [tunnel EXCEPT ![e] = TunnelAfter(o, @, l.user, TRUE)]
                 /\ \/ /\ o = "up"
                       /\ Refresh(s)
                       /\ endpoints' = [endpoints EXCEPT ![e].event = TRUE]
                       /\ UNCHANGED running
                    \/ /\ o # "up"
                       /\ LoseMemory

-----------------------------------------------------------------------------
(* heartbeat, release and expiry *)

Heartbeat(s, e) ==
  /\ running
  /\ s \in LeasesOn(e)
  /\ Refresh(s)
  /\ UNCHANGED <<endpoints, tunnel, running>>

(* What release does to a record others still hold, in two stages.  Each   *)
(* gives the set of possible [record, tunnel] pairs.  First, the event leg *)
(* follows what the remaining leases ask for, if one of them has a key.    *)
AfterEventLeg(record, old, rest) ==
  LET wanted == WantsEvent(rest)
  IN  IF wanted = record.event \/ WithIdentity(rest) = {}
      THEN {[record |-> record, tunnel |-> old]}
      ELSE {[record |-> AfterStart(o, [record EXCEPT !.event = wanted], record),
             tunnel |-> TunnelAfter(o, old, sessions[r].user, wanted)]
              : r \in WithIdentity(rest), o \in Outcomes}

(* Mutant: the takeover forgets event_required. *)
MutantEventNotTaken(record, r, rest) == [record EXCEPT !.owner = sessions[r].user]

(* Mutant: the record is handed to the session, not to its user. *)
MutantTakerOwns(record, r, rest) ==
  [record EXCEPT !.owner = r, !.event = WantsEvent(rest)]

(* Then, if the owner is the one who leaves, the first remaining user      *)
(* takes over, and if it has a key the tunnel is started on its behalf.    *)
Taken(record, r, rest) ==
  [record EXCEPT !.owner = sessions[r].user, !.event = WantsEvent(rest)]

Restarted(record, old, r, rest, o) ==
  [record |-> AfterStart(o, [Taken(record, r, rest) EXCEPT !.state = "READY"],
                            Taken(record, r, rest)),
   tunnel |-> TunnelAfter(o, old, sessions[r].user, WantsEvent(rest))]

(* Mutant: no takeover when nobody who stays has a key. *)
MutantKeyedTakeover(record, old, rest, leaver) ==
  IF leaver # record.owner \/ WithIdentity(rest) = {}
  THEN {[record |-> record, tunnel |-> old]}
  ELSE {Restarted(record, old, r, rest, o)
          : r \in FirstByUser(WithIdentity(rest)), o \in Outcomes}

AfterTakeover(record, old, rest, leaver) ==
  IF leaver # record.owner
  THEN {[record |-> record, tunnel |-> old]}
  ELSE {[record |-> Taken(record, r, rest), tunnel |-> old]
          : r \in FirstByUser(rest) \ WithIdentity(rest)}
       \cup
       {Restarted(record, old, r, rest, o)
          : r \in FirstByUser(rest) \cap WithIdentity(rest), o \in Outcomes}

(* The part of release that request and expiry share. *)
Drop(s) ==
  LET e == sessions[s].endpoint
      rest == LeasesOn(e) \ {s}
      record == [endpoints[e] EXCEPT !.count = @ - 1]
  IN  /\ sessions' = [sessions EXCEPT ![s] = NoLease]
      /\ \/ /\ record.count = 0
            /\ endpoints' = [endpoints EXCEPT ![e] = NoRecord]
            /\ tunnel' = [tunnel EXCEPT ![e] = NoTunnel]
         \/ /\ record.count > 0
            /\ \E a \in AfterEventLeg(record, tunnel[e], rest) :
                 \E b \in AfterTakeover(a.record, a.tunnel, rest, sessions[s].user) :
                   /\ endpoints' = [endpoints EXCEPT ![e] = b.record]
                   /\ tunnel' = [tunnel EXCEPT ![e] = b.tunnel]
      /\ UNCHANGED running

Release(s, e) ==
  /\ running
  /\ s \in LeasesOn(e)
  /\ Drop(s)

Stale(s) == sessions[s] # NoLease /\ sessions[s].age > LeaseTTL

Expire(s) ==
  /\ running
  /\ Stale(s)
  /\ Drop(s)

-----------------------------------------------------------------------------
(* The retry of endpoints that are not READY. *)

(* Mutant: an endpoint that was never started is not retried. *)
MutantDueDegraded(e) ==
  /\ endpoints[e] # NoRecord
  /\ endpoints[e].state = "DEGRADED"
  /\ endpoints[e].count > 0
  /\ endpoints[e].wait = 0

Due(e) ==
  /\ endpoints[e] # NoRecord
  /\ endpoints[e].state # "READY"
  /\ endpoints[e].count > 0
  /\ endpoints[e].wait = 0

Candidates(e) == FirstByUser(WithIdentity(LeasesOn(e)))

Reconciled(record, user) ==
  [record EXCEPT !.owner = user, !.state = "READY", !.failures = 0, !.wait = 0]

Reconcile(e) ==
  /\ running
  /\ Due(e)
  /\ \E r \in Candidates(e), o \in Outcomes :
       LET record == endpoints[e]
           user == sessions[r].user
       IN  Settle(e, o, user, record.event, Reconciled(record, user), record)
  /\ UNCHANGED <<sessions, running>>

-----------------------------------------------------------------------------
(* Operator commands, the process and its environment. *)

(* Mutant: cleanup only forgets. *)
MutantCleanupStopsNothing ==
  /\ running
  /\ sessions' = [s \in Sessions |-> NoLease]
  /\ endpoints' = [e \in Endpoints |-> NoRecord]
  /\ UNCHANGED <<tunnel, running>>

Cleanup ==
  /\ running
  /\ tunnel' = [e \in Endpoints |->
                  IF endpoints[e] # NoRecord THEN NoTunnel ELSE tunnel[e]]
  /\ sessions' = [s \in Sessions |-> NoLease]
  /\ endpoints' = [e \in Endpoints |-> NoRecord]
  /\ UNCHANGED running

(* shutdown, SIGTERM or a crash *)
Exit ==
  /\ running
  /\ LoseMemory
  /\ UNCHANGED tunnel

(* Mutant: the next process does not look for orphans. *)
MutantOrphansKept ==
  /\ ~running
  /\ running' = TRUE
  /\ UNCHANGED <<sessions, endpoints, tunnel>>

(* run_server: cleanup_orphans() before serve() *)
Restart ==
  /\ ~running
  /\ running' = TRUE
  /\ tunnel' = [e \in Endpoints |-> NoTunnel]
  /\ UNCHANGED <<sessions, endpoints>>

(* ssh exits and systemd has used up its restarts *)
TunnelDies(e) ==
  /\ tunnel[e] \in Tunnel
  /\ tunnel' = [tunnel EXCEPT ![e] = DeadTunnel]
  /\ UNCHANGED <<sessions, endpoints, running>>

(* One unit of time for every clock comparison the server makes. *)
Tick ==
  /\ sessions' = [s \in Sessions |->
       IF sessions[s] # NoLease /\ sessions[s].age <= LeaseTTL
       THEN [sessions[s] EXCEPT !.age = @ + 1] ELSE sessions[s]]
  /\ endpoints' = [e \in Endpoints |->
       IF endpoints[e] # NoRecord /\ endpoints[e].wait > 0
       THEN [endpoints[e] EXCEPT !.wait = @ - 1] ELSE endpoints[e]]
  /\ UNCHANGED <<tunnel, running>>

Request(s, e) ==
  \/ \E p \in Profiles : Acquire(s, e, p)
  \/ Reacquire(s, e)
  \/ Heartbeat(s, e)
  \/ Release(s, e)

Next ==
  \/ \E s \in Sessions, e \in Endpoints : Request(s, e)
  \/ \E s \in Sessions : Expire(s)
  \/ \E e \in Endpoints : Reconcile(e) \/ TunnelDies(e)
  \/ Cleanup
  \/ Exit
  \/ Restart
  \/ Tick

Spec == Init /\ [][Next]_leaseVars

-----------------------------------------------------------------------------
(* Properties *)

(* session_count is the number of leases, and a record exists exactly      *)
(* while there is one.  release and the re-acquire index endpoints[digest] *)
(* and candidates[0] on the strength of it, and the last release is told   *)
(* from the others by the count alone.                                     *)
CountMatchesLeases ==
  \A e \in Endpoints :
    \/ endpoints[e] = NoRecord /\ LeasesOn(e) = {}
    \/ /\ endpoints[e] # NoRecord
       /\ endpoints[e].count = Cardinality(LeasesOn(e))
       /\ endpoints[e].count > 0

(* The owner of an endpoint is the user of a lease that is still held:     *)
(* every departure of an owner ends in a takeover.                         *)
OwnerHoldsLease ==
  \A e \in Endpoints : endpoints[e] # NoRecord =>
    \E s \in LeasesOn(e) : sessions[s].user = endpoints[e].owner

(* While the server is there, no unit outlives the leases of its endpoint. *)
TunnelOnlyWhileLeased ==
  running => \A e \in Endpoints : tunnel[e] # NoTunnel => endpoints[e] # NoRecord

(* READY is only shown for a unit that was started and that the server has *)
(* not itself taken down since, through failed upgrades and takeovers.     *)
ReadyWasStarted ==
  \A e \in Endpoints :
    endpoints[e] # NoRecord /\ endpoints[e].state = "READY" => tunnel[e] # NoTunnel

(* A READY endpoint whose leases all carry keys runs exactly the legs that *)
(* event_required promises, whichever of acquire, upgrade, release,        *)
(* takeover and retry started the unit last.                               *)
EventLegMatches ==
  \A e \in Endpoints :
    /\ endpoints[e] # NoRecord
    /\ endpoints[e].state = "READY"
    /\ WithIdentity(LeasesOn(e)) = LeasesOn(e)
    /\ tunnel[e] \in Tunnel
    => tunnel[e].event = endpoints[e].event

(* docs/capabilities/orchestrator.md:57-58: that the owner leaves while    *)
(* others hold the endpoint does not close a healthy tunnel.               *)
OwnerExitKeepsTunnel ==
  [][\A e \in Endpoints :
       /\ endpoints[e] # NoRecord
       /\ endpoints[e].state = "READY"
       /\ tunnel[e] \in Tunnel
       /\ endpoints'[e] # NoRecord
       /\ endpoints'[e].owner # endpoints[e].owner
       => tunnel'[e] # NoTunnel]_leaseVars

(* docs/tssh-endpoint-lifecycle-design.md:61: when a start fails the       *)
(* leases are kept.  An exit alone touches no unit, so a step that loses a *)
(* unit and ends the process is a start that failed in a handler.          *)
StartFailureKeepsLeases ==
  [][running /\ ~running' /\ tunnel' # tunnel => sessions' = sessions]_leaseVars

(* The table implements the abstract lease specification. *)
Abstract == INSTANCE EndpointLease WITH
  holders <- [e \in Endpoints |-> LeasesOn(e)],
  tunnel <- [e \in Endpoints |-> tunnel[e] # NoTunnel],
  serving <- running

ImplementsEndpointLease == Abstract!Spec
=============================================================================
