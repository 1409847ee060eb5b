---------------------------- MODULE Orchestrator ----------------------------
(***************************************************************************)
(* The orchestrator process: the loop of serve(), which releases expired   *)
(* leases and retries tunnels before it waits and again before it answers  *)
(* a request, over the lease table and the target registry.                *)
(*                                                                         *)
(* One thread does everything, so handlers do not interleave; but start()  *)
(* blocks for seconds, and time passes, sessions die, and tunnels fail     *)
(* between any two steps of a pass.  Both passes work on a snapshot taken  *)
(* when they begin.                                                        *)
(***************************************************************************)
EXTENDS Integers, Sequences, FiniteSets

CONSTANTS
  Sessions, Endpoints, Users, Profiles, LeaseTTL, RetryDelays,
  NoLease, NoRecord, NoTunnel, DeadTunnel,
  NoStatus, NoCallback,
  Mortal,           \* sessions whose client process may die
  ManagedTargets,   \* the targets for which a SessionManager runs as well
  Cleanups,         \* is `tssh cleanup` used
  MaxCodex          \* bound: Codex processes per target

Targets == Endpoints \X Users

VARIABLES
  sessions, endpoints, tunnel, running,              \* LeaseTable
  targets, identityFiles, browserOpened, callback,   \* TargetTable
  pc,          \* where the server is in a pass
  answering,   \* the pass was begun by a request
  expiring,    \* sessions that _expire_sessions has still to release
  retrying,    \* endpoints that _reconcile_endpoints has still to visit
  alive,       \* sessions whose client process is there
  codex,       \* Codex processes of each target that have reported no exit
  missed       \* targets of which the registry missed a use (history)

L == INSTANCE LeaseTable
T == INSTANCE TargetTable

(* What has to be known of the constants: the assumptions of LeaseTable    *)
(* once more, which an instance does not bring along, and then what the    *)
(* registry and the loop add to them.                                      *)
ASSUME TableAssumption ==
  /\ L!FiniteAssumption
  /\ L!UsersAssumption
  /\ L!ProfilesAssumption
  /\ L!TTLAssumption
  /\ L!DelaysAssumption
  /\ L!AbsentAssumption

ASSUME RegistryAssumption ==
  /\ IsFiniteSet(Sessions)
  /\ Profiles \subseteq L!Profile
  /\ LeaseTTL \in Nat
  /\ ManagedTargets \subseteq Targets
  /\ MaxCodex \in Nat
  /\ NoLease \notin L!Lease
  /\ NoStatus \notin T!Status
  /\ NoCallback \notin Targets

leaseVars == <<sessions, endpoints, tunnel, running>>
targetVars == <<targets, identityFiles, browserOpened, callback>>
loopVars == <<pc, answering, expiring, retrying>>
worldVars == <<alive, codex, missed>>
vars == <<leaseVars, targetVars, loopVars, worldVars>>

TypeOK ==
  /\ L!TypeOK
  /\ T!TypeOK
  /\ pc \in {"select", "expire", "retry", "dispatch", "down"}
  /\ answering \in BOOLEAN
  /\ expiring \subseteq Sessions
  /\ retrying \subseteq Endpoints
  /\ alive \subseteq Sessions
  /\ codex \in [Targets -> 0..MaxCodex]
  /\ missed \subseteq Targets

Init ==
  /\ L!Init
  /\ T!Init
  /\ pc = "select"
  /\ answering = FALSE
  /\ expiring = {}
  /\ retrying = {}
  /\ alive = Sessions
  /\ codex = [t \in Targets |-> 0]
  /\ missed = {}

-----------------------------------------------------------------------------
(* Who uses a target, and what the registry does not know of it. *)

KeyedLeases(t) ==
  {s \in L!LeasesOn(t[1]) : sessions[s].user = t[2] /\ sessions[s].identity}

Quiet(t) == KeyedLeases(t) = {} /\ codex[t] = 0

(* The registry misses a use of each of these targets, or has lost what it *)
(* knew of them; a target is taken off the list when nobody uses it.       *)
Miss(ts) == missed' = {t \in missed \cup ts : ~Quiet(t)'}

-----------------------------------------------------------------------------
(* The two passes. *)

StaleSessions == {s \in Sessions : L!Stale(s)}
DueEndpoints == {e \in Endpoints : L!Due(e)}

(* Mutant: leases only expire when somebody asks. *)
MutantExpireOnRequest(request) ==
  /\ pc = "select"
  /\ pc' = "expire"
  /\ answering' = request
  /\ expiring' = IF request THEN StaleSessions ELSE {}
  /\ UNCHANGED <<leaseVars, targetVars, retrying, worldVars>>

(* Mutant: both snapshots are taken before the first pass. *)
MutantEarlySnapshots(request) ==
  /\ pc = "select"
  /\ pc' = "expire"
  /\ answering' = request
  /\ expiring' = StaleSessions
  /\ retrying' = DueEndpoints
  /\ UNCHANGED <<leaseVars, targetVars, worldVars>>

(* select() times out, or a request is there and handle() begins. *)
BeginPass(request) ==
  /\ pc = "select"
  /\ pc' = "expire"
  /\ answering' = request
  /\ expiring' = StaleSessions
  /\ UNCHANGED <<leaseVars, targetVars, retrying, worldVars>>

(* The release handler, with all it does to leases and targets. *)
ReleaseLease(s, e) ==
  /\ L!Release(s, e)
  /\ Miss({})
  /\ T!Leave(<<e, sessions[s].user>>, sessions[s].identity, endpoints[e].count = 1)

ExpireOne(s, e) ==
  /\ pc = "expire"
  /\ s \in expiring
  /\ UNCHANGED <<pc, answering, retrying, alive, codex>>
  /\ ReleaseLease(s, e)
  /\ expiring' = expiring \ {s}

EndExpire ==
  /\ pc = "expire"
  /\ expiring = {}
  /\ pc' = "retry"
  /\ retrying' = DueEndpoints
  /\ UNCHANGED <<leaseVars, targetVars, answering, expiring, worldVars>>

RetryOne(e) ==
  /\ pc = "retry"
  /\ e \in retrying
  /\ \/ L!Reconcile(e)
     \/ L!Candidates(e) = {} /\ UNCHANGED leaseVars
  /\ retrying' = retrying \ {e}
  /\ UNCHANGED <<targetVars, pc, answering, expiring, worldVars>>

EndRetry ==
  /\ pc = "retry"
  /\ retrying = {}
  /\ pc' = IF answering THEN "dispatch" ELSE "select"
  /\ answering' = FALSE
  /\ UNCHANGED <<leaseVars, targetVars, expiring, retrying, worldVars>>

-----------------------------------------------------------------------------
(* The requests, one handler each.  Leases belong to clients: only a       *)
(* session whose process is there sends for it.                            *)

AcquireLease(s, e, p) ==
  /\ L!Acquire(s, e, p)
  /\ IF p.identity THEN T!Join(<<e, p.user>>) ELSE UNCHANGED targetVars
  /\ UNCHANGED missed

(* A failed upgrade of a lease that is already there ends the process. *)
ReacquireLease(s, e) ==
  /\ L!Reacquire(s, e)
  /\ IF running' THEN UNCHANGED <<targetVars, missed>>
     ELSE T!Forget /\ Miss(Targets)

HeartbeatLease(s, e) ==
  /\ L!Heartbeat(s, e)
  /\ UNCHANGED <<targetVars, missed>>

LeaseRequest ==
  /\ UNCHANGED <<alive, codex>>
  /\ \E s \in alive, e \in Endpoints :
       \/ \E p \in Profiles : AcquireLease(s, e, p)
       \/ ReacquireLease(s, e)
       \/ HeartbeatLease(s, e)
       \/ ReleaseLease(s, e)

(* A managed session starts, beats or stops. *)
TargetRequest ==
  /\ \E t \in ManagedTargets :
       \/ \E key \in BOOLEAN : T!Register(t, key)
       \/ T!Unregister(t)
  /\ UNCHANGED <<leaseVars, worldVars>>

(* A Codex starts: whoever has a shell there can start one, with a lease   *)
(* or without.                                                             *)
Begin(t) == codex[t] < MaxCodex /\ codex' = [codex EXCEPT ![t] = @ + 1]

(* CODEX_START, counted or refused as TARGET_NOT_FOUND, CODEX_OAUTH_URL    *)
(* and CODEX_EXIT.  The exit of a Codex whose start did not count is       *)
(* subtracted like any other.                                              *)
CodexRequest ==
  /\ UNCHANGED <<leaseVars, alive>>
  /\ \E t \in Targets :
       \/ /\ Begin(t)
          /\ T!CodexStart(t)
          /\ UNCHANGED missed
       \/ /\ Begin(t)
          /\ ~T!Registered(t)
          /\ Miss({t})
          /\ UNCHANGED targetVars
       \/ /\ codex[t] > 0
          /\ T!CodexOAuthUrl(t)
          /\ UNCHANGED <<codex, missed>>
       \/ /\ codex[t] > 0
          /\ codex' = [codex EXCEPT ![t] = @ - 1]
          /\ IF T!Registered(t) THEN T!CodexExit(t) ELSE UNCHANGED targetVars
          /\ Miss({})

Owners == {<<e, endpoints[e].owner>> : e \in {x \in Endpoints : endpoints[x] # NoRecord}}

CleanupRequest ==
  /\ Cleanups
  /\ L!Cleanup
  /\ T!Clear(Owners)
  /\ UNCHANGED <<alive, codex>>
  /\ Miss(Targets)

(* health, status, HELLO, preview_register, anything that is refused, and  *)
(* a connection that says nothing                                          *)
Inquiry == UNCHANGED <<leaseVars, targetVars, worldVars>>

Dispatch ==
  /\ pc = "dispatch"
  /\ LeaseRequest \/ TargetRequest \/ CodexRequest \/ CleanupRequest \/ Inquiry
  /\ pc' = IF running' THEN "select" ELSE "down"
  /\ UNCHANGED <<answering, expiring, retrying>>

-----------------------------------------------------------------------------
(* The process and its environment. *)

(* shutdown and SIGTERM take effect at the end of a pass, a crash anywhere. *)
Exit ==
  /\ L!Exit
  /\ T!Forget
  /\ pc' = "down"
  /\ expiring' = {}
  /\ retrying' = {}
  /\ answering' = FALSE
  /\ UNCHANGED <<alive, codex>>
  /\ Miss(Targets)

Restart ==
  /\ L!Restart
  /\ pc' = "select"
  /\ UNCHANGED <<targetVars, answering, expiring, retrying, worldVars>>

(* The client process dies, and its Codex reports nothing any more. *)
Die(s) ==
  /\ s \in alive \cap Mortal
  /\ alive' = alive \ {s}
  /\ UNCHANGED <<leaseVars, targetVars, loopVars, codex, missed>>

(* A Codex starts and its CODEX_START does not arrive: the event channel   *)
(* is down or nobody listens, and codex-event swallows the OSError.  (An   *)
(* exit that does not arrive is no step: codex counts reported exits.)     *)
LoseStart(t) ==
  /\ Begin(t)
  /\ UNCHANGED <<leaseVars, targetVars, loopVars, alive>>
  /\ Miss({t})

TunnelDies(e) == L!TunnelDies(e) /\ UNCHANGED <<targetVars, loopVars, worldVars>>

Tick == L!Tick /\ UNCHANGED <<targetVars, loopVars, worldVars>>

Serve ==
  \/ \E request \in BOOLEAN : BeginPass(request)
  \/ \E s \in Sessions, e \in Endpoints : ExpireOne(s, e)
  \/ EndExpire
  \/ \E e \in Endpoints : RetryOne(e)
  \/ EndRetry
  \/ Dispatch

Next ==
  \/ Serve
  \/ Exit
  \/ Restart
  \/ Tick
  \/ \E s \in Sessions : Die(s)
  \/ \E t \in Targets : LoseStart(t)
  \/ \E e \in Endpoints : TunnelDies(e)

Spec == Init /\ [][Next]_vars

(* No start that fails puts the next retry of an endpoint off. *)
NotPutOff ==
  \A e \in Endpoints :
    endpoints[e] # NoRecord /\ endpoints'[e] # NoRecord
      => endpoints'[e].wait <= endpoints[e].wait

(* The server's thread runs, time goes on, and the remote hosts are within *)
(* reach again some day, so that starts stop failing.                      *)
Fairness ==
  /\ WF_vars(Serve)
  /\ WF_vars(Tick)
  /\ <>[][NotPutOff]_vars

FairSpec == Spec /\ Fairness

-----------------------------------------------------------------------------
(* Properties *)

(* The passes of _expire_sessions and _reconcile_endpoints walk snapshots. *)
(* What a snapshot still lists is still a stale lease and a due endpoint,  *)
(* however long the handlers before it blocked.                            *)
SnapshotsHold ==
  /\ expiring \subseteq StaleSessions
  /\ retrying \subseteq DueEndpoints

(* TargetStatus.session_count serves leases and Codex processes at once,   *)
(* and a use can be missed: a CODEX_START that is lost or refused, tables  *)
(* that are lost with the process, while the exits are still subtracted.   *)
(* For a target that no managed session shares, the count never exceeds    *)
(* the uses; it is their number unless one was missed, and what was missed *)
(* is made good as soon as nobody uses the target.                         *)
TargetCountMatches ==
  \A t \in Targets \ ManagedTargets :
    LET uses == Cardinality(KeyedLeases(t)) + codex[t]
    IN  /\ T!Registered(t) => targets[t].count <= uses
        /\ t \notin missed =>
             IF T!Registered(t) THEN targets[t].count = uses ELSE Quiet(t)

(* The OAuth callback, of which there is one for all targets, is only held *)
(* for a target that is registered, has a key and shows the callback as    *)
(* READY, through server restarts included.  `tssh cleanup` is excepted:   *)
(* it ends the callback for the owners of endpoints only.                  *)
CallbackIsShown ==
  ~Cleanups =>
    \A t \in Targets \ ManagedTargets : callback = t =>
      /\ T!Registered(t)
      /\ t \in identityFiles
      /\ targets[t].forward = "READY"

(* When the last lease and the last Codex of a target are gone, in either  *)
(* order and by release or by expiry, it does not block the callback for   *)
(* the others (with the same exception).                                   *)
QuietTargetFreesCallback ==
  ~Cleanups =>
    \A t \in Targets \ ManagedTargets :
      Quiet(t) => callback # t

(* A target keeps the callback it holds for as long as a lease with a key  *)
(* and at least one more lease or Codex of it are left, whoever joins,     *)
(* leaves, expires or exits, on this target or on another: the one counter *)
(* has to tell "SSH + Codex" from more participants, who "may still need   *)
(* the callback channel".  Unless the registry missed one of them.         *)
CallbackIsKept ==
  [][\A t \in Targets \ ManagedTargets :
       /\ callback = t
       /\ t \notin missed
       /\ KeyedLeases(t)' # {}
       /\ Cardinality(KeyedLeases(t)') + codex'[t] >= 2
       => callback' = t]_vars

(* A lease whose client died is released although nobody asks for it.      *)
DeadLeaseIsReclaimed ==
  \A s \in Sessions : s \notin alive ~> sessions[s] = NoLease

(* An endpoint with a key among its leases does not stay down for ever.    *)
Down(e) == endpoints[e] # NoRecord /\ endpoints[e].state # "READY"

DownEndpointRecovers ==
  \A e \in Endpoints :
    Down(e) /\ L!WithIdentity(L!LeasesOn(e)) # {}
      ~> ~Down(e) \/ L!WithIdentity(L!LeasesOn(e)) = {}
=============================================================================
