------------------------- MODULE OrchestratorProofs -------------------------
(***************************************************************************)
(* What LeaseTableProofs has proved of the table is a theorem about the    *)
(* running server: the actions of Orchestrator change leases, endpoints    *)
(* and tunnels by those of LeaseTable only.                                *)
(***************************************************************************)
EXTENDS Orchestrator, TLAPS

(* The initial tables are those of the lease table.                        *)
LEMMA InitRefined == Init => L!Init
  BY DEF Init

(* A pass changes leases and tunnels by releases and retries only. *)
LEMMA PassRefined ==
  ASSUME \/ \E request \in BOOLEAN : BeginPass(request)
         \/ \E s \in Sessions, e \in Endpoints : ExpireOne(s, e)
         \/ EndExpire
         \/ \E e \in Endpoints : RetryOne(e)
         \/ EndRetry
  PROVE  [L!Next]_(L!leaseVars)
  <1>1. ASSUME NEW request \in BOOLEAN, BeginPass(request)
        PROVE  UNCHANGED L!leaseVars
    BY <1>1 DEF BeginPass, leaseVars, L!leaseVars
  <1>2. ASSUME NEW s \in Sessions, NEW e \in Endpoints, ExpireOne(s, e)
        PROVE  L!Next
    <2>1. L!Release(s, e)
      BY <1>2 DEF ExpireOne, ReleaseLease
    <2> QED
      BY <2>1 DEF L!Next, L!Request
  <1>3. ASSUME EndExpire \/ EndRetry PROVE UNCHANGED L!leaseVars
    BY <1>3 DEF EndExpire, EndRetry, leaseVars, L!leaseVars
  <1>4. ASSUME NEW e \in Endpoints, RetryOne(e)
        PROVE  L!Next \/ UNCHANGED L!leaseVars
    <2>1. CASE L!Reconcile(e)
      BY <2>1 DEF L!Next
    <2>2. CASE UNCHANGED leaseVars
      BY <2>2 DEF leaseVars, L!leaseVars
    <2> QED
      BY <1>4, <2>1, <2>2 DEF RetryOne
  <1> QED
    BY <1>1, <1>2, <1>3, <1>4

(* Only sessions have client processes: all that has to be known of the    *)
(* state to see that a request is made for a session.                      *)
AliveAreSessions == alive \subseteq Sessions

(* Each request is one handler of the table, or does not touch it. *)
LEMMA DispatchRefined ==
  ASSUME AliveAreSessions, Dispatch
  PROVE  [L!Next]_(L!leaseVars)
  <1>1. CASE LeaseRequest
    <2>1. PICK s \in alive, e \in Endpoints :
            \/ \E p \in Profiles : AcquireLease(s, e, p)
            \/ ReacquireLease(s, e)
            \/ HeartbeatLease(s, e)
            \/ ReleaseLease(s, e)
      BY <1>1 DEF LeaseRequest
    <2>2. s \in Sessions
      BY <2>1 DEF AliveAreSessions
    <2>3. L!Request(s, e)
      BY <2>1 DEF AcquireLease, ReacquireLease, HeartbeatLease, ReleaseLease, L!Request
    <2> QED
      BY <2>2, <2>3 DEF L!Next
  <1>2. CASE TargetRequest \/ CodexRequest \/ Inquiry
    BY <1>2 DEF TargetRequest, CodexRequest, Inquiry, leaseVars, L!leaseVars
  <1>3. CASE CleanupRequest
    BY <1>3 DEF CleanupRequest, L!Next
  <1> QED
    BY <1>1, <1>2, <1>3 DEF Dispatch

(* What happens around the server is a step of the table or leaves it alone. *)
LEMMA WorldRefined ==
  ASSUME \/ Exit \/ Restart \/ Tick
         \/ \E s \in Sessions : Die(s)
         \/ \E t \in Targets : LoseStart(t)
         \/ \E e \in Endpoints : TunnelDies(e)
  PROVE  [L!Next]_(L!leaseVars)
  <1>1. ASSUME Exit \/ Restart \/ Tick PROVE L!Next
    BY <1>1 DEF Exit, Restart, Tick, L!Next
  <1>2. ASSUME NEW s \in Sessions, Die(s) PROVE UNCHANGED L!leaseVars
    BY <1>2 DEF Die, leaseVars, L!leaseVars
  <1>3. ASSUME NEW e \in Endpoints, TunnelDies(e) PROVE L!Next
    BY <1>3 DEF TunnelDies, L!Next
  <1>4. ASSUME NEW t \in Targets, LoseStart(t) PROVE UNCHANGED L!leaseVars
    BY <1>4 DEF LoseStart, leaseVars, L!leaseVars
  <1> QED
    BY <1>1, <1>2, <1>3, <1>4

(* No step makes a client process of something that is not a session.      *)
LEMMA AliveStays ==
  ASSUME AliveAreSessions, [Next]_vars
  PROVE  AliveAreSessions'
  <1>1. ASSUME NEW s \in Sessions, Die(s) PROVE alive' \subseteq Sessions
    BY <1>1 DEF Die, AliveAreSessions
  <1>2. CASE Serve
    <2>1. ASSUME NEW request \in BOOLEAN, BeginPass(request) PROVE UNCHANGED alive
      BY <2>1 DEF BeginPass, worldVars
    <2>2. ASSUME NEW s \in Sessions, NEW e \in Endpoints, ExpireOne(s, e)
          PROVE  UNCHANGED alive
      BY <2>2 DEF ExpireOne
    <2>3. ASSUME EndExpire \/ EndRetry PROVE UNCHANGED alive
      BY <2>3 DEF EndExpire, EndRetry, worldVars
    <2>4. ASSUME NEW e \in Endpoints, RetryOne(e) PROVE UNCHANGED alive
      BY <2>4 DEF RetryOne, worldVars
    <2>5. ASSUME Dispatch PROVE UNCHANGED alive
      BY <2>5 DEF Dispatch, LeaseRequest, TargetRequest, CodexRequest,
                  CleanupRequest, Inquiry, worldVars
    <2> QED
      BY <1>2, <2>1, <2>2, <2>3, <2>4, <2>5 DEF Serve, AliveAreSessions
  <1>3. CASE Exit \/ Restart \/ Tick
    BY <1>3 DEF Exit, Restart, Tick, worldVars, AliveAreSessions
  <1>4. ASSUME NEW e \in Endpoints, TunnelDies(e) PROVE UNCHANGED alive
    BY <1>4 DEF TunnelDies, worldVars
  <1>5. ASSUME NEW t \in Targets, LoseStart(t) PROVE UNCHANGED alive
    BY <1>5 DEF LoseStart
  <1>6. CASE UNCHANGED vars
    BY <1>6 DEF vars, worldVars, AliveAreSessions
  <1> QED
    BY <1>1, <1>2, <1>3, <1>4, <1>5, <1>6 DEF Next, AliveAreSessions

(* Every step of the process is a step of the lease table or a stutter.    *)
LEMMA NextRefined ==
  ASSUME AliveAreSessions, [Next]_vars
  PROVE  [L!Next]_(L!leaseVars)
  <1>1. CASE Serve /\ ~Dispatch
    BY <1>1, PassRefined DEF Serve
  <1>2. CASE Dispatch
    BY <1>2, DispatchRefined
  <1>3. CASE Next /\ ~Serve
    BY <1>3, WorldRefined DEF Next
  <1>4. CASE UNCHANGED vars
    BY <1>4 DEF vars, leaseVars, L!leaseVars
  <1> QED
    BY <1>1, <1>2, <1>3, <1>4 DEF Next

(* So the leases, endpoints and units of the server are those of a table;  *)
(* this carries the theorems of the table over to the server.              *)
LEMMA TableSteps == Spec => L!Spec
  <1>1. Init => AliveAreSessions
    BY DEF Init, AliveAreSessions
  <1> QED
    BY <1>1, InitRefined, AliveStays, NextRefined, PTL
       DEF Spec, L!Spec

-----------------------------------------------------------------------------
(* What LeaseTableProofs proves of the table holds in the running server.  *)
(* The theorems there are about its own copy of LeaseTable, so P!Next has  *)
(* to be seen to be L!Next: operator by operator, as neither reads         *)
(* anything the other does not.                                            *)
P == INSTANCE LeaseTableProofs

(* The assumptions under which the theorems of LeaseTableProofs hold.      *)
LEMMA SameAssumptions ==
  /\ P!FiniteAssumption
  /\ P!UsersAssumption
  /\ P!ProfilesAssumption
  /\ P!TTLAssumption
  /\ P!DelaysAssumption
  /\ P!AbsentAssumption
  BY TableAssumption
     DEF TableAssumption,
         L!FiniteAssumption, L!UsersAssumption, L!ProfilesAssumption,
         L!TTLAssumption, L!DelaysAssumption, L!AbsentAssumption,
         P!FiniteAssumption, P!UsersAssumption, P!ProfilesAssumption,
         P!TTLAssumption, P!DelaysAssumption, P!AbsentAssumption,
         L!Profile, L!Lease, L!Record, L!Tunnel,
         P!Profile, P!Lease, P!Record, P!Tunnel, L!IsFiniteSet, P!IsFiniteSet

(* Reading the table. *)
LEMMA SameReading ==
  ASSUME NEW R
  PROVE  /\ L!WantsEvent(R) = P!WantsEvent(R)
         /\ L!WithIdentity(R) = P!WithIdentity(R)
         /\ L!FirstByUser(R) = P!FirstByUser(R)
  <1>1. L!WantsEvent(R) = P!WantsEvent(R)
    BY DEF L!WantsEvent, P!WantsEvent
  <1>2. /\ L!WithIdentity(R) = P!WithIdentity(R)
        /\ L!FirstByUser(R) = P!FirstByUser(R)
    BY DEF L!WithIdentity, P!WithIdentity, L!FirstByUser, P!FirstByUser
  <1>3. QED
    BY <1>1, <1>2

(* Starting a tunnel. *)
LEMMA SameStart ==
  /\ L!Outcomes = P!Outcomes
  /\ \A o, old, u, b : L!TunnelAfter(o, old, u, b) = P!TunnelAfter(o, old, u, b)
  /\ \A o, ok, bad : L!AfterStart(o, ok, bad) = P!AfterStart(o, ok, bad)
  /\ \A e, o, u, b, ok, bad :
       L!Settle(e, o, u, b, ok, bad) <=> P!Settle(e, o, u, b, ok, bad)
  <1>1. \A o, old, u, b : L!TunnelAfter(o, old, u, b) = P!TunnelAfter(o, old, u, b)
    BY DEF L!TunnelAfter, P!TunnelAfter
  <1>2. \A r : L!MarkFailure(r) = P!MarkFailure(r)
    BY DEF L!MarkFailure, P!MarkFailure, L!RetryDelay, P!RetryDelay
  <1>3. \A o, ok, bad : L!AfterStart(o, ok, bad) = P!AfterStart(o, ok, bad)
    BY <1>2 DEF L!AfterStart, P!AfterStart
  <1>4. \A e, o, u, b, ok, bad :
          L!Settle(e, o, u, b, ok, bad) <=> P!Settle(e, o, u, b, ok, bad)
    BY <1>1, <1>3 DEF L!Settle, P!Settle
  <1>5. L!Outcomes = P!Outcomes
    BY DEF L!Outcomes, P!Outcomes
  <1>6. QED
    BY <1>1, <1>3, <1>4, <1>5

(* The requests that do not let a lease go. *)
LEMMA SameAcquire ==
  ASSUME NEW s, NEW e, NEW p
  PROVE  L!Acquire(s, e, p) <=> P!Acquire(s, e, p)
  <1>1. L!Joined(e, p) = P!Joined(e, p)
    BY DEF L!Joined, P!Joined, L!NewRecord, P!NewRecord
  <1>2. \A r : /\ L!NeedsUpgrade(r, p) <=> P!NeedsUpgrade(r, p)
               /\ L!IsFirst(r, p) <=> P!IsFirst(r, p)
    BY DEF L!NeedsUpgrade, P!NeedsUpgrade, L!IsFirst, P!IsFirst
  <1>3. QED
    BY <1>1, <1>2, SameStart DEF L!Acquire, P!Acquire, L!NewLease, P!NewLease

LEMMA SameReacquire ==
  ASSUME NEW s, NEW e
  PROVE  /\ L!Reacquire(s, e) <=> P!Reacquire(s, e)
         /\ L!Heartbeat(s, e) <=> P!Heartbeat(s, e)
  <1>1. L!Reacquire(s, e) <=> P!Reacquire(s, e)
    BY DEF L!Reacquire, P!Reacquire, L!NeedsUpgrade, P!NeedsUpgrade,
           L!Outcomes, P!Outcomes, L!TunnelAfter, P!TunnelAfter,
           L!Refresh, P!Refresh, L!LoseMemory, P!LoseMemory, L!LeasesOn, P!LeasesOn
  <1>2. L!Heartbeat(s, e) <=> P!Heartbeat(s, e)
    BY DEF L!Heartbeat, P!Heartbeat, L!Refresh, P!Refresh, L!LeasesOn, P!LeasesOn
  <1>3. QED
    BY <1>1, <1>2

(* The event leg that a departure leaves, element by element.              *)
LEMMA SameEventLeg ==
  ASSUME NEW r, NEW old, NEW rest
  PROVE  L!AfterEventLeg(r, old, rest) = P!AfterEventLeg(r, old, rest)
  <1>1. ASSUME NEW a
        PROVE  a \in L!AfterEventLeg(r, old, rest) <=> a \in P!AfterEventLeg(r, old, rest)
    BY SameStart, SameReading DEF L!AfterEventLeg, P!AfterEventLeg
  <1>2. QED
    BY ONLY <1>1, SetExtensionality

(* The takeover that it may leave, likewise.                               *)
LEMMA SameTakeover ==
  ASSUME NEW r, NEW old, NEW rest, NEW leaver
  PROVE  L!AfterTakeover(r, old, rest, leaver) = P!AfterTakeover(r, old, rest, leaver)
  <1>1. \A s : L!Taken(r, s, rest) = P!Taken(r, s, rest)
    BY SameReading DEF L!Taken, P!Taken
  <1>2. \A s, o : L!Restarted(r, old, s, rest, o) = P!Restarted(r, old, s, rest, o)
    BY <1>1, SameStart, SameReading DEF L!Restarted, P!Restarted
  <1>3. ASSUME NEW a
        PROVE  a \in L!AfterTakeover(r, old, rest, leaver)
                 <=> a \in P!AfterTakeover(r, old, rest, leaver)
    BY <1>1, <1>2, SameStart, SameReading DEF L!AfterTakeover, P!AfterTakeover
  <1>4. QED
    BY ONLY <1>3, SetExtensionality

LEMMA SameDrop ==
  ASSUME NEW s, NEW e
  PROVE  /\ L!Release(s, e) <=> P!Release(s, e)
         /\ L!Expire(s) <=> P!Expire(s)
  <1>1. L!Drop(s) <=> P!Drop(s)
    BY SameEventLeg, SameTakeover DEF L!Drop, P!Drop, L!LeasesOn, P!LeasesOn
  <1>2. L!Release(s, e) <=> P!Release(s, e)
    BY <1>1 DEF L!Release, P!Release, L!LeasesOn, P!LeasesOn
  <1>3. L!Expire(s) <=> P!Expire(s)
    BY <1>1 DEF L!Expire, P!Expire, L!Stale, P!Stale
  <1>4. QED
    BY <1>2, <1>3

(* The steps that are nobody's request.                                    *)
LEMMA SameWorld ==
  ASSUME NEW e
  PROVE  /\ L!Reconcile(e) <=> P!Reconcile(e)
         /\ L!TunnelDies(e) <=> P!TunnelDies(e)
         /\ L!Cleanup <=> P!Cleanup
         /\ L!Exit <=> P!Exit
         /\ L!Restart <=> P!Restart
         /\ L!Tick <=> P!Tick
  <1>1. L!Reconcile(e) <=> P!Reconcile(e)
    <2>1. \A r, u : L!Reconciled(r, u) = P!Reconciled(r, u)
      BY DEF L!Reconciled, P!Reconciled
    <2>2. L!Candidates(e) = P!Candidates(e)
      BY SameReading DEF L!Candidates, P!Candidates, L!LeasesOn, P!LeasesOn
    <2>3. QED
      BY <2>1, <2>2, SameStart DEF L!Reconcile, P!Reconcile, L!Due, P!Due
  <1>2. L!TunnelDies(e) <=> P!TunnelDies(e)
    BY DEF L!TunnelDies, P!TunnelDies, L!Tunnel, P!Tunnel
  <1>3. /\ L!Cleanup <=> P!Cleanup
        /\ L!Exit <=> P!Exit
        /\ L!Restart <=> P!Restart
        /\ L!Tick <=> P!Tick
    BY DEF L!Cleanup, P!Cleanup, L!Exit, P!Exit, L!LoseMemory, P!LoseMemory,
           L!Restart, P!Restart, L!Tick, P!Tick
  <1>4. QED
    BY <1>1, <1>2, <1>3

(* The two copies of the table are one specification.                      *)
LEMMA SameSpec == L!Spec => P!Spec
  <1>1. L!Init => P!Init
    BY DEF L!Init, P!Init
  <1>2. L!leaseVars = P!leaseVars
    BY DEF L!leaseVars, P!leaseVars
  <1>3. L!Next => P!Next
    BY SameAcquire, SameReacquire, SameDrop, SameWorld
       DEF L!Next, P!Next, L!Request, P!Request
  <1>4. [L!Next]_(L!leaseVars) => [P!Next]_(P!leaseVars)
    BY <1>2, <1>3 DEF L!leaseVars, P!leaseVars
  <1>5. QED
    BY <1>1, <1>4, PTL DEF L!Spec, P!Spec

(* The types of the table hold in the running server.                      *)
THEOREM TableTypeCorrect == Spec => []L!TypeOK
  <1>1. P!TypeOK => L!TypeOK
    BY Zenon DEF L!TypeOK, P!TypeOK, L!Lease, P!Lease, L!Record, P!Record,
                 L!TunnelState, P!TunnelState, L!Tunnel, P!Tunnel
  <1>2. P!Spec => []P!TypeOK
    BY P!TypeCorrect, SameAssumptions
  <1>3. QED
    BY <1>1, <1>2, SameSpec, TableSteps, PTL

(* Everything that is proved of leases, records and units holds in the     *)
(* running server: the count that decides whether a release is the last,   *)
(* the owner that holds a lease, and units that are there exactly when     *)
(* their endpoint is leased and says so.                                   *)
THEOREM TableIsRight ==
  Spec => [](/\ L!CountMatchesLeases
             /\ L!OwnerHoldsLease
             /\ L!TunnelOnlyWhileLeased
             /\ L!ReadyWasStarted
             /\ L!EventLegMatches)
  <1>1. P!CountMatchesLeases => L!CountMatchesLeases
    BY DEF L!CountMatchesLeases, P!CountMatchesLeases, L!LeasesOn, P!LeasesOn,
           L!Cardinality, P!Cardinality, L!IsFiniteSet, P!IsFiniteSet
  <1>2. P!OwnerHoldsLease => L!OwnerHoldsLease
    BY DEF L!OwnerHoldsLease, P!OwnerHoldsLease, L!LeasesOn, P!LeasesOn
  <1>3. P!TunnelOnlyWhileLeased => L!TunnelOnlyWhileLeased
    BY DEF L!TunnelOnlyWhileLeased, P!TunnelOnlyWhileLeased
  <1>4. P!ReadyWasStarted => L!ReadyWasStarted
    BY DEF L!ReadyWasStarted, P!ReadyWasStarted
  <1>5. P!EventLegMatches => L!EventLegMatches
    BY SameReading DEF L!EventLegMatches, P!EventLegMatches, L!LeasesOn, P!LeasesOn,
                       L!Tunnel, P!Tunnel
  <1>6. P!Spec => [](/\ P!CountMatchesLeases
                     /\ P!OwnerHoldsLease
                     /\ P!TunnelOnlyWhileLeased
                     /\ P!ReadyWasStarted
                     /\ P!EventLegMatches)
    BY P!CountIsRight, P!OwnerIsHolder, P!NoOrphanTunnel, P!ReadyIsEarned,
       P!EventLegIsRight, SameAssumptions, PTL
  <1>7. QED
    BY <1>1, <1>2, <1>3, <1>4, <1>5, <1>6, SameSpec, TableSteps, PTL

(* What the table promises to those who hold its endpoints, likewise.      *)
LEMMA SameAbstract == P!ImplementsEndpointLease => L!ImplementsEndpointLease
  <1>1. P!Abstract!Init => L!Abstract!Init
    BY DEF P!Abstract!Init, L!Abstract!Init, P!LeasesOn, L!LeasesOn
  <1>2. P!Abstract!Next => L!Abstract!Next
    BY Zenon DEF P!Abstract!Next, L!Abstract!Next,
                 P!Abstract!Join, L!Abstract!Join,
                 P!Abstract!Leave, L!Abstract!Leave,
                 P!Abstract!Retune, L!Abstract!Retune,
                 P!Abstract!Clear, L!Abstract!Clear,
                 P!Abstract!Exit, L!Abstract!Exit,
                 P!Abstract!Boot, L!Abstract!Boot,
                 P!Abstract!Attempt, L!Abstract!Attempt,
                 P!Abstract!Free, L!Abstract!Free,
                 P!LeasesOn, L!LeasesOn
  <1>3. UNCHANGED P!Abstract!vars => UNCHANGED L!Abstract!vars
    BY DEF P!Abstract!vars, L!Abstract!vars, P!LeasesOn, L!LeasesOn
  <1>4. [P!Abstract!Next]_(P!Abstract!vars) => [L!Abstract!Next]_(L!Abstract!vars)
    BY <1>2, <1>3
  <1>5. QED
    BY <1>1, <1>4, PTL DEF P!ImplementsEndpointLease, L!ImplementsEndpointLease,
                           P!Abstract!Spec, L!Abstract!Spec

(* The running server, with its passes, snapshots and requests, implements *)
(* EndpointLease: no order of expiry, retry and requests leaves a tunnel   *)
(* without a holder or takes one endpoint's tunnel for another's sake.     *)
THEOREM ServesEndpointLease == Spec => L!ImplementsEndpointLease
  <1>1. P!Spec => P!ImplementsEndpointLease
    BY P!Refinement, SameAssumptions
  <1>2. QED
    BY <1>1, SameAbstract, SameSpec, TableSteps, PTL
=============================================================================
