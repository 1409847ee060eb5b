-------------------------- MODULE LeaseTableProofs --------------------------
(***************************************************************************)
(* What holds of LeaseTable for every set of sessions, endpoints, users,   *)
(* every TTL and every back-off ladder.                                    *)
(***************************************************************************)
EXTENDS LeaseTable, FiniteSetTheorems, TLAPS

-----------------------------------------------------------------------------
(* What the helpers return. *)

(* Every failure count, also zero, has a delay on the ladder.              *)
LEMMA RetryDelayType ==
  ASSUME NEW n \in Nat
  PROVE  RetryDelay(n) \in Nat
  BY DelaysAssumption DEF RetryDelay

(* A failed start only changes state, failure count and wait of a record.  *)
LEMMA MarkFailureEffect ==
  ASSUME NEW r \in Record
  PROVE  /\ MarkFailure(r) \in Record
         /\ MarkFailure(r).state = "DEGRADED"
         /\ MarkFailure(r).owner = r.owner
         /\ MarkFailure(r).count = r.count
         /\ MarkFailure(r).event = r.event
  <1> DEFINE f == IF r.failures < Len(RetryDelays)
                  THEN r.failures + 1 ELSE r.failures
  <1>1. f \in 0..Len(RetryDelays)
    BY DelaysAssumption DEF Record
  <1>2. f \in Nat
    BY <1>1, DelaysAssumption
  <1> HIDE DEF f
  <1>3. RetryDelay(f) \in Nat
    BY <1>2, RetryDelayType
  <1>4. MarkFailure(r) = [r EXCEPT !.state = "DEGRADED", !.failures = f,
                                   !.wait = RetryDelay(f)]
    BY DEF MarkFailure, f
  <1> QED
    BY <1>1, <1>3, <1>4 DEF Record

(* Whatever comes of a start, the endpoint is in a unit state.             *)
LEMMA TunnelAfterType ==
  ASSUME NEW o \in Outcomes, NEW old \in TunnelState, NEW u \in Users,
         NEW b \in BOOLEAN
  PROVE  /\ TunnelAfter(o, old, u, b) \in TunnelState
         /\ o = "up" => /\ TunnelAfter(o, old, u, b) \in Tunnel
                        /\ TunnelAfter(o, old, u, b) # NoTunnel
                        /\ TunnelAfter(o, old, u, b).event = b
  BY AbsentAssumption DEF TunnelAfter, TunnelState, Tunnel, Outcomes

(* A READY record has a unit, and the unit has the legs of the record. *)
Started(record, t) == record.state = "READY" => t # NoTunnel

Legs(record, t) ==
  record.state = "READY" /\ t \in Tunnel => t.event = record.event

(* After a start the record is READY only with a unit that has its legs.   *)
LEMMA AfterStartEffect ==
  ASSUME NEW o \in Outcomes, NEW old \in TunnelState, NEW u \in Users,
         NEW b \in BOOLEAN, NEW ok \in Record, NEW bad \in Record,
         ok.event = b
  PROVE  /\ AfterStart(o, ok, bad) \in Record
         /\ AfterStart(o, ok, bad).owner \in {ok.owner, bad.owner}
         /\ AfterStart(o, ok, bad).count \in {ok.count, bad.count}
         /\ Started(AfterStart(o, ok, bad), TunnelAfter(o, old, u, b))
         /\ Legs(AfterStart(o, ok, bad), TunnelAfter(o, old, u, b))
  BY MarkFailureEffect, TunnelAfterType DEF AfterStart, Started, Legs

(* The first stage of a release keeps the owner and the count; what it     *)
(* leaves is either untouched or a unit with the right legs.               *)
LEMMA EventLegEffect ==
  ASSUME NEW record \in Record, NEW old \in TunnelState,
         NEW rest \in SUBSET Sessions,
         \A r \in rest : sessions[r] \in Lease,
         NEW a \in AfterEventLeg(record, old, rest)
  PROVE  /\ a.record \in Record
         /\ a.tunnel \in TunnelState
         /\ a.record.owner = record.owner
         /\ a.record.count = record.count
         /\ \/ a.record = record /\ a.tunnel = old
            \/ Started(a.record, a.tunnel) /\ Legs(a.record, a.tunnel)
  <1> DEFINE w == WantsEvent(rest)
  <1>1. CASE w = record.event \/ WithIdentity(rest) = {}
    BY <1>1 DEF AfterEventLeg
  <1>2. CASE ~(w = record.event \/ WithIdentity(rest) = {})
    <2>1. PICK r \in WithIdentity(rest), o \in Outcomes :
            a = [record |-> AfterStart(o, [record EXCEPT !.event = w], record),
                 tunnel |-> TunnelAfter(o, old, sessions[r].user, w)]
      BY <1>2 DEF AfterEventLeg
    <2>2. sessions[r].user \in Users
      BY DEF WithIdentity, Lease
    <2>3. w \in BOOLEAN
      BY DEF WantsEvent
    <2> DEFINE ok == [record EXCEPT !.event = w]
    <2>4. ok \in Record /\ ok.event = w /\ ok.owner = record.owner /\ ok.count = record.count
      BY <2>3 DEF Record
    <2> DEFINE after == AfterStart(o, ok, record)
               unit == TunnelAfter(o, old, sessions[r].user, w)
    <2>5. a.record = after /\ a.tunnel = unit
      BY <2>1
    <2> HIDE DEF ok, w
    <2>6. /\ after \in Record
          /\ after.owner = record.owner
          /\ after.count = record.count
          /\ Started(after, unit) /\ Legs(after, unit)
      BY <2>2, <2>3, <2>4, AfterStartEffect
    <2>7. unit \in TunnelState
      BY <2>2, <2>3, TunnelAfterType
    <2> QED
      BY <2>5, <2>6, <2>7
  <1> QED
    BY <1>1, <1>2

(* The second stage: if the leaver is not the owner nothing happens, and   *)
(* otherwise a remaining user takes over.                                  *)
LEMMA TakeoverEffect ==
  ASSUME NEW record \in Record, NEW old \in TunnelState,
         NEW rest \in SUBSET Sessions,
         \A r \in rest : sessions[r] \in Lease,
         NEW leaver \in Users,
         NEW b \in AfterTakeover(record, old, rest, leaver),
         Started(record, old)
  PROVE  /\ b.record \in Record
         /\ b.tunnel \in TunnelState
         /\ b.record.count = record.count
         /\ Started(b.record, b.tunnel)
         /\ leaver # record.owner => b.record = record /\ b.tunnel = old
         /\ leaver = record.owner =>
              \E r \in rest : /\ b.record.owner = sessions[r].user
                              /\ sessions[r].identity => Legs(b.record, b.tunnel)
  <1>1. CASE leaver # record.owner
    BY <1>1 DEF AfterTakeover
  <1>2. CASE leaver = record.owner
    <2> DEFINE w == WantsEvent(rest)
    <2>1. w \in BOOLEAN
      BY DEF WantsEvent
    <2>2. ASSUME NEW r \in rest
          PROVE  /\ Taken(record, r, rest) \in Record
                 /\ Taken(record, r, rest).owner = sessions[r].user
                 /\ Taken(record, r, rest).count = record.count
                 /\ Taken(record, r, rest).state = record.state
      BY <2>1 DEF Record, Lease, Taken
    <2>3. ASSUME NEW r \in rest, NEW o \in Outcomes,
                 b = Restarted(record, old, r, rest, o)
          PROVE  /\ b.record \in Record
                 /\ b.tunnel \in TunnelState
                 /\ b.record.count = record.count
                 /\ Started(b.record, b.tunnel)
                 /\ b.record.owner = sessions[r].user
                 /\ Legs(b.record, b.tunnel)
      <3> DEFINE bad == Taken(record, r, rest)
                 ok == [bad EXCEPT !.state = "READY"]
                 after == AfterStart(o, ok, bad)
                 unit == TunnelAfter(o, old, sessions[r].user, w)
      <3>1. b.record = after /\ b.tunnel = unit
        BY <2>3 DEF Restarted
      <3>2. /\ ok \in Record /\ ok.event = w
            /\ ok.owner = sessions[r].user /\ ok.count = record.count
        BY <2>1 DEF Record, Lease, Taken
      <3>3. /\ bad \in Record /\ bad.owner = sessions[r].user
            /\ bad.count = record.count
        BY <2>2
      <3>4. sessions[r].user \in Users
        BY DEF Lease
      <3> HIDE DEF ok, bad, w
      <3>5. /\ after \in Record
            /\ after.owner = sessions[r].user
            /\ after.count = record.count
            /\ Started(after, unit) /\ Legs(after, unit)
        BY <2>1, <3>2, <3>3, <3>4, AfterStartEffect
      <3>6. unit \in TunnelState
        BY <2>1, <3>4, TunnelAfterType
      <3> QED
        BY <3>1, <3>5, <3>6
    <2> HIDE DEF w
    <2>4. CASE \E r \in rest : /\ ~sessions[r].identity
                               /\ b = [record |-> Taken(record, r, rest), tunnel |-> old]
      BY <1>2, <2>2, <2>4 DEF Started
    <2>5. CASE \E r \in rest, o \in Outcomes : b = Restarted(record, old, r, rest, o)
      BY <1>2, <2>3, <2>5
    <2> QED
      BY <1>2, <2>4, <2>5 DEF AfterTakeover, FirstByUser, WithIdentity
  <1> QED
    BY <1>1, <1>2

-----------------------------------------------------------------------------
(* The inductive invariant, endpoint by endpoint.                          *)
(*                                                                         *)
(* CountMatchesLeases, OwnerHoldsLease, TunnelOnlyWhileLeased and          *)
(* ReadyWasStarted are inductive once TypeOK and "a stopped server holds   *)
(* nothing" stand beside them.  EventLegMatches is not: a takeover by a    *)
(* user without a key changes event_required and leaves the unit as it is, *)
(* so the legs may differ for as long as the owner has a keyless lease.    *)
KeylessOwner(e) ==
  \E s \in LeasesOn(e) : /\ sessions[s].user = endpoints[e].owner
                         /\ ~sessions[s].identity

CountAt(e) ==
  \/ endpoints[e] = NoRecord /\ LeasesOn(e) = {}
  \/ /\ endpoints[e] # NoRecord
     /\ endpoints[e].count = Cardinality(LeasesOn(e))
     /\ endpoints[e].count > 0

OwnerAt(e) ==
  endpoints[e] # NoRecord =>
    \E s \in LeasesOn(e) : sessions[s].user = endpoints[e].owner

UnitAt(e) ==
  /\ running /\ tunnel[e] # NoTunnel => endpoints[e] # NoRecord
  /\ endpoints[e] # NoRecord =>
       /\ Started(endpoints[e], tunnel[e])
       /\ Legs(endpoints[e], tunnel[e]) \/ KeylessOwner(e)

Good(e) == CountAt(e) /\ OwnerAt(e) /\ UnitAt(e)

DownIsEmpty ==
  ~running => /\ sessions = [s \in Sessions |-> NoLease]
              /\ endpoints = [e \in Endpoints |-> NoRecord]

IInv == TypeOK /\ DownIsEmpty /\ \A e \in Endpoints : Good(e)

(* The leases of an endpoint are a finite set of sessions with leases.     *)
LEMMA LeasesOnFacts ==
  ASSUME TypeOK, NEW e \in Endpoints
  PROVE  /\ LeasesOn(e) \subseteq Sessions
         /\ IsFiniteSet(LeasesOn(e))
         /\ \A s \in LeasesOn(e) : sessions[s] \in Lease
  <1>1. LeasesOn(e) \subseteq Sessions
    BY DEF LeasesOn
  <1>2. IsFiniteSet(LeasesOn(e))
    BY <1>1, FiniteAssumption, FS_Subset
  <1> QED
    BY <1>1, <1>2 DEF LeasesOn, TypeOK

(* An endpoint that a step leaves alone stays good. *)
LEMMA Frame ==
  ASSUME NEW e \in Endpoints, Good(e),
         running' = running,
         endpoints'[e] = endpoints[e], tunnel'[e] = tunnel[e],
         LeasesOn(e)' = LeasesOn(e),
         \A s \in LeasesOn(e) : /\ sessions'[s].user = sessions[s].user
                                /\ sessions'[s].identity = sessions[s].identity
  PROVE  Good(e)'
  BY DEF Good, CountAt, OwnerAt, UnitAt, Started, Legs, KeylessOwner

(* Setting the age of leases changes no other field and no lease set. *)
LEMMA RefreshFacts ==
  ASSUME TypeOK, NEW s \in Sessions, sessions[s] # NoLease, Refresh(s)
  PROVE  /\ sessions' \in [Sessions -> Lease \cup {NoLease}]
         /\ \A x \in Endpoints :
              /\ LeasesOn(x)' = LeasesOn(x)
              /\ \A t \in LeasesOn(x) : /\ sessions'[t].user = sessions[t].user
                                        /\ sessions'[t].identity = sessions[t].identity
  <1>1. sessions[s] \in Lease
    BY DEF TypeOK
  <1>2. [sessions[s] EXCEPT !.age = 0] \in Lease
    BY <1>1, TTLAssumption DEF Lease
  <1>3. /\ [sessions[s] EXCEPT !.age = 0].endpoint = sessions[s].endpoint
        /\ [sessions[s] EXCEPT !.age = 0].user = sessions[s].user
        /\ [sessions[s] EXCEPT !.age = 0].identity = sessions[s].identity
    BY <1>1 DEF Lease
  <1>4. sessions' = [sessions EXCEPT ![s] = [sessions[s] EXCEPT !.age = 0]]
    BY DEF Refresh
  <1> QED
    BY <1>1, <1>2, <1>3, <1>4, AbsentAssumption DEF TypeOK, LeasesOn

-----------------------------------------------------------------------------
(* Each handler preserves the inductive invariant. *)

(* A heartbeat preserves the invariant.                                    *)
LEMMA HeartbeatGood ==
  ASSUME IInv, NEW s \in Sessions, NEW e \in Endpoints, Heartbeat(s, e)
  PROVE  IInv'
  <1>1. /\ running /\ running' = running
        /\ endpoints' = endpoints /\ tunnel' = tunnel
        /\ sessions[s] # NoLease /\ Refresh(s)
    BY DEF Heartbeat, LeasesOn
  <1>2. TypeOK'
    BY <1>1, RefreshFacts DEF IInv, TypeOK
  <1>3. ASSUME NEW x \in Endpoints PROVE Good(x)'
    BY <1>1, RefreshFacts, Frame DEF IInv
  <1> QED
    BY <1>1, <1>2, <1>3 DEF IInv, DownIsEmpty

(* A new lease joins the set of its endpoint and of no other. *)
LEMMA NewLeaseFacts ==
  ASSUME TypeOK, NEW s \in Sessions, NEW e \in Endpoints, NEW p \in Profiles,
         sessions[s] = NoLease,
         sessions' = [sessions EXCEPT ![s] = NewLease(e, p)]
  PROVE  /\ sessions' \in [Sessions -> Lease \cup {NoLease}]
         /\ s \notin LeasesOn(e)
         /\ LeasesOn(e)' = LeasesOn(e) \cup {s}
         /\ sessions'[s].user = p.user
         /\ sessions'[s].identity = p.identity
         /\ \A t \in Sessions \ {s} : sessions'[t] = sessions[t]
         /\ \A x \in Endpoints \ {e} : LeasesOn(x)' = LeasesOn(x)
  <1>1. /\ NewLease(e, p) \in Lease
        /\ NewLease(e, p).endpoint = e
        /\ NewLease(e, p).user = p.user
        /\ NewLease(e, p).identity = p.identity
    BY ProfilesAssumption, TTLAssumption DEF NewLease, Lease, Profile
  <1>2. NewLease(e, p) # NoLease
    BY <1>1, AbsentAssumption
  <1> QED
    BY <1>1, <1>2 DEF TypeOK, LeasesOn

(* The record a lease joins has a typed count, one above the old one.      *)
LEMMA JoinedFacts ==
  ASSUME IInv, NEW e \in Endpoints, NEW p \in Profiles
  PROVE  /\ Joined(e, p) \in Record
         /\ Joined(e, p).count = Cardinality(LeasesOn(e)) + 1
         /\ endpoints[e] = NoRecord => /\ Joined(e, p).owner = p.user
                                       /\ Joined(e, p).state = "STARTING"
         /\ endpoints[e] # NoRecord =>
              /\ Joined(e, p).owner = endpoints[e].owner
              /\ Joined(e, p).state = endpoints[e].state
              /\ Joined(e, p).event = endpoints[e].event
  <1>1. CASE endpoints[e] = NoRecord
    <2>1. NewRecord(p) \in Record
      BY ProfilesAssumption, DelaysAssumption DEF NewRecord, Record, Profile
    <2>2. Cardinality(LeasesOn(e)) = 0
      BY <1>1, FS_EmptySet DEF IInv, Good, CountAt
    <2> QED
      BY <1>1, <2>1, <2>2 DEF Joined, NewRecord, Record
  <1>2. CASE endpoints[e] # NoRecord
    <2>1. endpoints[e] \in Record /\ endpoints[e].count = Cardinality(LeasesOn(e))
      BY <1>2 DEF IInv, TypeOK, Good, CountAt
    <2> QED
      BY <1>2, <2>1 DEF Joined, Record
  <1> QED
    BY <1>1, <1>2

(* acquire preserves the invariant, whatever its start comes to.           *)
LEMMA AcquireGood ==
  ASSUME IInv, NEW s \in Sessions, NEW e \in Endpoints, NEW p \in Profiles,
         Acquire(s, e, p)
  PROVE  IInv'
  <1> DEFINE record == Joined(e, p)
             up == [record EXCEPT !.event = TRUE]
             first == [record EXCEPT !.state = "READY"]
  <1>1. /\ running /\ running' = running
        /\ sessions[s] = NoLease
        /\ sessions' = [sessions EXCEPT ![s] = NewLease(e, p)]
    BY DEF Acquire
  <1>2. /\ p.user \in Users /\ p.identity \in BOOLEAN /\ p.event \in BOOLEAN
        /\ TypeOK /\ tunnel[e] \in TunnelState
    BY ProfilesAssumption DEF Profile, IInv, TypeOK
  <1>3. /\ record \in Record
        /\ up \in Record /\ up.owner = record.owner /\ up.count = record.count
    BY JoinedFacts DEF Record
  <1>3a. up.event = TRUE
    BY JoinedFacts DEF Record
  <1>4. /\ p.event = record.event => first.event = p.event
        /\ first \in Record /\ first.owner = record.owner
        /\ first.count = record.count
    BY JoinedFacts DEF Record
  <1>5. IsFirst(record, p) => endpoints[e] = NoRecord /\ record.event = p.event
    <2>1. CASE endpoints[e] = NoRecord
      BY <2>1, <1>2 DEF Joined, NewRecord
    <2>2. CASE endpoints[e] # NoRecord
      <3>1. record.count = endpoints[e].count + 1 /\ endpoints[e].count > 0
            /\ endpoints[e].count \in Nat
        BY <2>2 DEF Joined, IInv, TypeOK, Record, Good, CountAt
      <3> QED
        BY <3>1 DEF IsFirst
    <2> QED
      BY <2>1, <2>2
  (* what is left on the endpoint: a record and a unit that fit *)
  <1>6. \E r \in Record, t \in TunnelState :
          /\ endpoints' = [endpoints EXCEPT ![e] = r]
          /\ tunnel' = [tunnel EXCEPT ![e] = t]
          /\ r.owner = record.owner /\ r.count = record.count
          /\ \/ Started(r, t) /\ Legs(r, t)
             \/ r = record /\ t = tunnel[e]
    <2> HIDE DEF record, up, first
    <2>1. CASE \E o \in Outcomes : Settle(e, o, p.user, TRUE, up, record)
      <3>1. PICK o \in Outcomes : Settle(e, o, p.user, TRUE, up, record)
        BY <2>1
      <3> DEFINE r == AfterStart(o, up, record)
                 t == TunnelAfter(o, tunnel[e], p.user, TRUE)
      <3>2. /\ r \in Record /\ r.owner = record.owner /\ r.count = record.count
            /\ Started(r, t) /\ Legs(r, t)
        <4>1. ASSUME NEW b \in BOOLEAN, up.event = b
              PROVE  /\ r \in Record /\ r.owner = record.owner
                     /\ r.count = record.count
                     /\ Started(r, TunnelAfter(o, tunnel[e], p.user, b))
                     /\ Legs(r, TunnelAfter(o, tunnel[e], p.user, b))
          BY <1>2, <1>3, <4>1, AfterStartEffect
        <4>2. TRUE \in BOOLEAN /\ up.event = TRUE
          BY <1>3a
        <4> HIDE DEF r
        <4> QED
          BY <4>1, <4>2, Zenon
      <3>3. t \in TunnelState
        BY <1>2, TunnelAfterType
      <3>4. /\ endpoints' = [endpoints EXCEPT ![e] = r]
            /\ tunnel' = [tunnel EXCEPT ![e] = t]
        BY <3>1 DEF Settle
      <3> HIDE DEF r, t
      <3> QED
        BY <3>2, <3>3, <3>4
    <2>2. CASE /\ IsFirst(record, p)
               /\ \E o \in Outcomes : Settle(e, o, p.user, p.event, first, record)
      <3>1. PICK o \in Outcomes : Settle(e, o, p.user, p.event, first, record)
        BY <2>2
      <3> DEFINE r == AfterStart(o, first, record)
                 t == TunnelAfter(o, tunnel[e], p.user, p.event)
      <3>2. /\ r \in Record /\ r.owner = record.owner /\ r.count = record.count
            /\ Started(r, t) /\ Legs(r, t)
        BY <1>2, <1>3, <1>4, <1>5, <2>2, AfterStartEffect
      <3>3. t \in TunnelState
        BY <1>2, TunnelAfterType
      <3>4. /\ endpoints' = [endpoints EXCEPT ![e] = r]
            /\ tunnel' = [tunnel EXCEPT ![e] = t]
        BY <3>1 DEF Settle
      <3> HIDE DEF r, t
      <3> QED
        BY <3>2, <3>3, <3>4
    <2>3. CASE endpoints' = [endpoints EXCEPT ![e] = record] /\ tunnel' = tunnel
      <3>1. tunnel' = [tunnel EXCEPT ![e] = tunnel[e]]
        BY <2>3, <1>2 DEF TypeOK
      <3> QED
        BY <2>3, <3>1, <1>2, <1>3
    <2> QED
      BY <2>1, <2>2, <2>3 DEF Acquire, record, up, first
  <1>7. PICK r \in Record, t \in TunnelState :
          /\ endpoints' = [endpoints EXCEPT ![e] = r]
          /\ tunnel' = [tunnel EXCEPT ![e] = t]
          /\ r.owner = record.owner /\ r.count = record.count
          /\ \/ Started(r, t) /\ Legs(r, t)
             \/ r = record /\ t = tunnel[e]
    BY <1>6
  <1>8. /\ s \notin LeasesOn(e)
        /\ LeasesOn(e)' = LeasesOn(e) \cup {s}
        /\ sessions'[s].user = p.user
        /\ sessions' \in [Sessions -> Lease \cup {NoLease}]
        /\ \A x \in Sessions \ {s} : sessions'[x] = sessions[x]
        /\ \A x \in Endpoints \ {e} : LeasesOn(x)' = LeasesOn(x)
    BY <1>1, <1>2, NewLeaseFacts
  <1>9. TypeOK'
    BY <1>1, <1>2, <1>7, <1>8 DEF TypeOK
  <1>10. /\ endpoints'[e] = r /\ tunnel'[e] = t /\ r # NoRecord
         /\ \A x \in Endpoints \ {e} : endpoints'[x] = endpoints[x] /\ tunnel'[x] = tunnel[x]
    BY <1>2, <1>7, AbsentAssumption DEF TypeOK
  <1>11. CountAt(e)'
    <2>1. Cardinality(LeasesOn(e) \cup {s}) = Cardinality(LeasesOn(e)) + 1
      BY <1>2, <1>8, LeasesOnFacts, FS_AddElement
    <2>2. Cardinality(LeasesOn(e)) \in Nat
      BY <1>2, LeasesOnFacts, FS_CardinalityType
    <2>3. r.count = Cardinality(LeasesOn(e)) + 1
      BY <1>7, JoinedFacts
    <2> QED
      BY <1>8, <1>10, <2>1, <2>2, <2>3 DEF CountAt
  <1>12. OwnerAt(e)'
    <2>1. CASE endpoints[e] = NoRecord
      BY <1>7, <1>8, <1>10, <2>1, JoinedFacts DEF OwnerAt
    <2>2. CASE endpoints[e] # NoRecord
      <3>1. PICK q \in LeasesOn(e) : sessions[q].user = endpoints[e].owner
        BY <2>2 DEF IInv, Good, OwnerAt
      <3>2. q \in LeasesOn(e)' /\ sessions'[q] = sessions[q]
        BY <1>2, <1>8, LeasesOnFacts
      <3> QED
        BY <1>7, <1>10, <2>2, <3>1, <3>2, JoinedFacts DEF OwnerAt
    <2> QED
      BY <2>1, <2>2
  <1>13. UnitAt(e)'
    <2>1. CASE Started(r, t) /\ Legs(r, t)
      BY <1>10, <2>1 DEF UnitAt, Started, Legs
    <2>2. CASE r = record /\ t = tunnel[e] /\ endpoints[e] = NoRecord
      BY <1>10, <2>2, JoinedFacts DEF UnitAt, Started, Legs
    <2>3. CASE r = record /\ t = tunnel[e] /\ endpoints[e] # NoRecord
      <3>1. Started(r, t) /\ (Legs(r, t) \/ KeylessOwner(e))
        BY <2>3, JoinedFacts DEF IInv, Good, UnitAt, Started, Legs
      <3>2. KeylessOwner(e) => KeylessOwner(e)'
        <4>1. ASSUME NEW q \in LeasesOn(e)
              PROVE  q \in LeasesOn(e)' /\ sessions'[q] = sessions[q]
          BY <1>2, <1>8, LeasesOnFacts
        <4>2. endpoints'[e].owner = endpoints[e].owner
          BY <1>7, <1>10, <2>3, JoinedFacts
        <4> QED
          BY <4>1, <4>2 DEF KeylessOwner
      <3> QED
        BY <1>10, <3>1, <3>2 DEF UnitAt, Started, Legs
    <2> QED
      BY <1>7, <2>1, <2>2, <2>3
  <1>14. ASSUME NEW x \in Endpoints, x # e PROVE Good(x)'
    <2>1. \A q \in LeasesOn(x) : q # s
      BY <1>1 DEF LeasesOn
    <2> QED
      BY <1>1, <1>2, <1>8, <1>10, <1>14, <2>1, LeasesOnFacts, Frame DEF IInv
  <1> QED
    BY <1>1, <1>9, <1>11, <1>12, <1>13, <1>14 DEF IInv, DownIsEmpty, Good

(* A process that has lost its memory holds nothing. *)
LEMMA LoseMemoryGood ==
  ASSUME LoseMemory, tunnel' \in [Endpoints -> TunnelState]
  PROVE  IInv'
  <1>1. TypeOK'
    BY DEF LoseMemory, TypeOK
  <1>2. ASSUME NEW x \in Endpoints
        PROVE  LeasesOn(x)' = {} /\ endpoints'[x] = NoRecord
    BY DEF LoseMemory, LeasesOn
  <1> QED
    BY <1>1, <1>2
    DEF LoseMemory, IInv, DownIsEmpty, Good, CountAt, OwnerAt, UnitAt

(* A repeated acquire preserves the invariant, also if it ends the process. *)
LEMMA ReacquireGood ==
  ASSUME IInv, NEW s \in Sessions, NEW e \in Endpoints, Reacquire(s, e)
  PROVE  IInv'
  <1> DEFINE l == sessions[s]
             record == endpoints[e]
             up == [record EXCEPT !.event = TRUE]
  <1>1. /\ TypeOK /\ running /\ s \in LeasesOn(e)
        /\ l # NoLease /\ l \in Lease /\ l.user \in Users
        /\ record # NoRecord /\ record \in Record
    BY LeasesOnFacts DEF IInv, Reacquire, LeasesOn, TypeOK, Lease, Good, CountAt
  <1>2. CASE /\ Refresh(s)
             /\ UNCHANGED <<endpoints, tunnel, running>>
    BY <1>1, <1>2, HeartbeatGood DEF Heartbeat
  <1>3. CASE \E o \in Outcomes :
               /\ tunnel' = [tunnel EXCEPT ![e] = TunnelAfter(o, @, l.user, TRUE)]
               /\ LoseMemory
    <2>1. PICK o \in Outcomes :
            /\ tunnel' = [tunnel EXCEPT ![e] = TunnelAfter(o, @, l.user, TRUE)]
            /\ LoseMemory
      BY <1>3
    <2>2. tunnel[e] \in TunnelState
      BY <1>1 DEF TypeOK
    <2>3. TunnelAfter(o, tunnel[e], l.user, TRUE) \in TunnelState
      BY <1>1, <2>2, TunnelAfterType
    <2> QED
      BY <1>1, <2>1, <2>3, LoseMemoryGood DEF TypeOK
  <1>4. CASE /\ tunnel' = [tunnel EXCEPT ![e] = TunnelAfter("up", @, l.user, TRUE)]
             /\ Refresh(s)
             /\ endpoints' = [endpoints EXCEPT ![e].event = TRUE]
             /\ UNCHANGED running
    <2> DEFINE t == TunnelAfter("up", tunnel[e], l.user, TRUE)
    <2>1. tunnel[e] \in TunnelState /\ "up" \in Outcomes
      BY <1>1 DEF TypeOK, Outcomes
    <2>2. t \in Tunnel /\ t \in TunnelState /\ t # NoTunnel
      BY <1>1, <2>1, TunnelAfterType
    <2>3. t.event = TRUE
      BY DEF TunnelAfter
    <2>4. /\ up \in Record /\ up.owner = record.owner
          /\ up.count = record.count
      BY <1>1 DEF Record
    <2>5. up.event = TRUE
      BY <1>1 DEF Record
    <2>6. endpoints' = [endpoints EXCEPT ![e] = up]
      BY <1>4
    <2> HIDE DEF t, up
    <2>7. TypeOK'
      BY <1>1, <1>4, <2>2, <2>4, <2>6, RefreshFacts DEF TypeOK, t
    <2>8. /\ endpoints'[e] = up /\ tunnel'[e] = t /\ up # NoRecord
          /\ \A x \in Endpoints \ {e} : endpoints'[x] = endpoints[x] /\ tunnel'[x] = tunnel[x]
      BY <1>1, <1>4, <2>4, <2>6, AbsentAssumption DEF TypeOK, t
    <2>9. /\ LeasesOn(e)' = LeasesOn(e)
          /\ \A q \in LeasesOn(e) : sessions'[q].user = sessions[q].user
      BY <1>1, <1>4, RefreshFacts
    <2>10. CountAt(e)' /\ OwnerAt(e)'
      BY <1>1, <2>4, <2>8, <2>9 DEF IInv, Good, CountAt, OwnerAt
    <2>11. Started(up, t)
      BY <2>2 DEF Started
    <2>12. Legs(up, t)
      BY <2>3, <2>5 DEF Legs
    <2>13. UnitAt(e)'
      BY <2>8, <2>11, <2>12 DEF UnitAt, Started, Legs
    <2>14. ASSUME NEW x \in Endpoints, x # e PROVE Good(x)'
      BY <1>1, <1>4, <2>8, <2>14, RefreshFacts, Frame DEF IInv
    <2> QED
      BY <1>1, <1>4, <2>7, <2>10, <2>13, <2>14 DEF IInv, DownIsEmpty, Good
  <1> QED
    BY <1>2, <1>3, <1>4 DEF Reacquire

(* Removing a lease: the set of its endpoint loses it, the others do not.  *)
LEMMA DropFacts ==
  ASSUME TypeOK, NEW s \in Sessions, sessions[s] # NoLease,
         NEW e \in Endpoints, e = sessions[s].endpoint,
         sessions' = [sessions EXCEPT ![s] = NoLease]
  PROVE  /\ sessions' \in [Sessions -> Lease \cup {NoLease}]
         /\ s \in LeasesOn(e)
         /\ LeasesOn(e)' = LeasesOn(e) \ {s}
         /\ \A t \in Sessions \ {s} : sessions'[t] = sessions[t]
         /\ \A x \in Endpoints \ {e} : LeasesOn(x)' = LeasesOn(x) /\ s \notin LeasesOn(x)
         /\ Cardinality(LeasesOn(e) \ {s}) = Cardinality(LeasesOn(e)) - 1
         /\ Cardinality(LeasesOn(e)) \in Nat
  <1>1. s \in LeasesOn(e)
    BY DEF LeasesOn
  <1>2. Cardinality(LeasesOn(e) \ {s}) = Cardinality(LeasesOn(e)) - 1
    BY <1>1, LeasesOnFacts, FS_RemoveElement
  <1>3. Cardinality(LeasesOn(e)) \in Nat
    BY LeasesOnFacts, FS_CardinalityType
  <1> QED
    BY <1>1, <1>2, <1>3 DEF TypeOK, LeasesOn

(* release and expiry preserve the invariant, whatever their starts come to. *)
LEMMA DropGood ==
  ASSUME IInv, running, NEW s \in Sessions, NEW e \in Endpoints,
         s \in LeasesOn(e), Drop(s)
  PROVE  IInv'
  <1> DEFINE rest == LeasesOn(e) \ {s}
             record == [endpoints[e] EXCEPT !.count = @ - 1]
  <1>1. /\ TypeOK /\ running' = running
        /\ sessions[s] # NoLease /\ e = sessions[s].endpoint
        /\ sessions[s] \in Lease /\ sessions[s].user \in Users
        /\ sessions' = [sessions EXCEPT ![s] = NoLease]
    BY DEF IInv, TypeOK, Lease, Drop, LeasesOn
  <1>2. /\ s \in LeasesOn(e) /\ LeasesOn(e)' = rest
        /\ sessions' \in [Sessions -> Lease \cup {NoLease}]
        /\ \A t \in Sessions \ {s} : sessions'[t] = sessions[t]
        /\ \A x \in Endpoints \ {e} : LeasesOn(x)' = LeasesOn(x) /\ s \notin LeasesOn(x)
        /\ Cardinality(rest) = Cardinality(LeasesOn(e)) - 1
        /\ Cardinality(LeasesOn(e)) \in Nat
    BY <1>1, DropFacts
  <1>3. /\ endpoints[e] # NoRecord /\ endpoints[e] \in Record
        /\ endpoints[e].count = Cardinality(LeasesOn(e))
        /\ endpoints[e].count > 0
    BY <1>1, <1>2 DEF IInv, TypeOK, Good, CountAt
  <1>4. /\ record \in Record /\ record.count = Cardinality(rest)
        /\ record.owner = endpoints[e].owner
        /\ record.state = endpoints[e].state
        /\ record.event = endpoints[e].event
    BY <1>2, <1>3 DEF Record
  <1>5. /\ tunnel[e] \in TunnelState
        /\ rest \in SUBSET Sessions /\ IsFiniteSet(rest)
        /\ \A r \in rest : sessions[r] \in Lease /\ sessions'[r] = sessions[r]
    <2>1. IsFiniteSet(rest)
      BY <1>1, LeasesOnFacts, FS_RemoveElement
    <2> QED
      BY <1>1, <1>2, <2>1, LeasesOnFacts DEF TypeOK
  <1>6. CASE /\ record.count = 0
             /\ endpoints' = [endpoints EXCEPT ![e] = NoRecord]
             /\ tunnel' = [tunnel EXCEPT ![e] = NoTunnel]
    <2>1. rest = {}
      BY <1>4, <1>5, <1>6, FS_EmptySet
    <2>2. TypeOK'
      BY <1>1, <1>2, <1>6 DEF TypeOK, TunnelState
    <2>3. /\ endpoints'[e] = NoRecord /\ tunnel'[e] = NoTunnel
          /\ \A x \in Endpoints \ {e} : endpoints'[x] = endpoints[x] /\ tunnel'[x] = tunnel[x]
      BY <1>1, <1>6 DEF TypeOK
    <2>4. Good(e)'
      BY <1>2, <2>1, <2>3 DEF Good, CountAt, OwnerAt, UnitAt
    <2>5. ASSUME NEW x \in Endpoints, x # e PROVE Good(x)'
      BY <1>1, <1>2, <2>3, <2>5, LeasesOnFacts, Frame DEF IInv
    <2> QED
      BY <1>1, <2>2, <2>4, <2>5 DEF IInv, DownIsEmpty
  <1>7. CASE /\ record.count > 0
             /\ \E a \in AfterEventLeg(record, tunnel[e], rest) :
                  \E b \in AfterTakeover(a.record, a.tunnel, rest, sessions[s].user) :
                    /\ endpoints' = [endpoints EXCEPT ![e] = b.record]
                    /\ tunnel' = [tunnel EXCEPT ![e] = b.tunnel]
    <2> HIDE DEF rest, record
    <2>1. PICK a \in AfterEventLeg(record, tunnel[e], rest) :
            \E b \in AfterTakeover(a.record, a.tunnel, rest, sessions[s].user) :
              /\ endpoints' = [endpoints EXCEPT ![e] = b.record]
              /\ tunnel' = [tunnel EXCEPT ![e] = b.tunnel]
      BY <1>7
    <2>2. PICK b \in AfterTakeover(a.record, a.tunnel, rest, sessions[s].user) :
            /\ endpoints' = [endpoints EXCEPT ![e] = b.record]
            /\ tunnel' = [tunnel EXCEPT ![e] = b.tunnel]
      BY <2>1
    <2>3. /\ a.record \in Record /\ a.tunnel \in TunnelState
          /\ a.record.owner = record.owner /\ a.record.count = record.count
          /\ \/ a.record = record /\ a.tunnel = tunnel[e]
             \/ Started(a.record, a.tunnel) /\ Legs(a.record, a.tunnel)
      BY <1>4, <1>5, EventLegEffect
    <2>4. Started(record, tunnel[e])
      BY <1>1, <1>3, <1>4 DEF IInv, Good, UnitAt, Started
    <2>5. Started(a.record, a.tunnel)
      BY <2>3, <2>4
    <2>6. /\ b.record \in Record /\ b.tunnel \in TunnelState
          /\ b.record.count = record.count
          /\ Started(b.record, b.tunnel)
          /\ sessions[s].user # record.owner => b.record = a.record /\ b.tunnel = a.tunnel
          /\ sessions[s].user = record.owner =>
               \E r \in rest : /\ b.record.owner = sessions[r].user
                               /\ sessions[r].identity => Legs(b.record, b.tunnel)
      BY <1>1, <1>5, <2>3, <2>5, TakeoverEffect
    <2>7. /\ endpoints'[e] = b.record /\ tunnel'[e] = b.tunnel /\ b.record # NoRecord
          /\ \A x \in Endpoints \ {e} : endpoints'[x] = endpoints[x] /\ tunnel'[x] = tunnel[x]
      BY <1>1, <2>2, <2>6, AbsentAssumption DEF TypeOK
    <2>8. TypeOK'
      BY <1>1, <1>2, <2>2, <2>6 DEF TypeOK
    <2>9. CountAt(e)'
      BY <1>2, <1>4, <1>7, <2>6, <2>7 DEF CountAt
    <2>10. ASSUME Legs(b.record, b.tunnel) \/ KeylessOwner(e)'
           PROVE  UnitAt(e)'
      <3>1. Started(endpoints'[e], tunnel'[e])
        BY <2>6, <2>7
      <3>2. Legs(endpoints'[e], tunnel'[e]) \/ KeylessOwner(e)'
        BY <2>7, <2>10
      <3>3. endpoints'[e] # NoRecord
        BY <2>7
      <3> QED
        BY <3>1, <3>2, <3>3 DEF UnitAt, Started, Legs
    <2>11. ASSUME sessions[s].user = record.owner
           PROVE  OwnerAt(e)' /\ UnitAt(e)'
      <3>1. PICK r \in rest : /\ b.record.owner = sessions[r].user
                              /\ sessions[r].identity => Legs(b.record, b.tunnel)
        BY <2>6, <2>11
      <3>2. r \in LeasesOn(e)' /\ sessions'[r] = sessions[r]
        BY <1>2, <1>5
      <3>3. OwnerAt(e)'
        BY <2>7, <3>1, <3>2 DEF OwnerAt
      <3>4. Legs(b.record, b.tunnel) \/ KeylessOwner(e)'
        BY <2>7, <3>1, <3>2 DEF KeylessOwner
      <3>5. UnitAt(e)'
        BY <2>10, <3>4
      <3> QED
        BY <3>3, <3>5
    <2>12. ASSUME sessions[s].user # record.owner
           PROVE  OwnerAt(e)' /\ UnitAt(e)'
      <3>1. b.record = a.record /\ b.tunnel = a.tunnel
        BY <2>6, <2>12
      <3>2. ASSUME NEW q \in LeasesOn(e), sessions[q].user = endpoints[e].owner
            PROVE  q \in LeasesOn(e)' /\ sessions'[q] = sessions[q]
        BY <1>2, <1>4, <1>5, <2>12, <3>2 DEF rest
      <3>3. b.record.owner = endpoints[e].owner
        BY <1>4, <2>3, <3>1
      <3>4. OwnerAt(e)'
        BY <1>1, <1>3, <2>7, <3>2, <3>3 DEF IInv, Good, OwnerAt
      <3>5. Legs(b.record, b.tunnel) \/ KeylessOwner(e)
        BY <1>1, <1>3, <1>4, <2>3, <3>1 DEF IInv, Good, UnitAt, Legs
      <3>6. KeylessOwner(e) => KeylessOwner(e)'
        BY <2>7, <3>2, <3>3 DEF KeylessOwner
      <3>7. UnitAt(e)'
        BY <2>10, <3>5, <3>6
      <3> QED
        BY <3>4, <3>7
    <2>13. ASSUME NEW x \in Endpoints, x # e PROVE Good(x)'
      BY <1>1, <1>2, <2>7, <2>13, LeasesOnFacts, Frame DEF IInv
    <2> QED
      BY <1>1, <2>8, <2>9, <2>11, <2>12, <2>13 DEF IInv, DownIsEmpty, Good
  <1> QED
    BY <1>1, <1>6, <1>7 DEF Drop

(* A successful retry changes the owner, but neither count nor legs.       *)
LEMMA ReconciledEffect ==
  ASSUME NEW r \in Record, NEW u \in Users
  PROVE  /\ Reconciled(r, u) \in Record
         /\ Reconciled(r, u).event = r.event
         /\ Reconciled(r, u).owner = u
         /\ Reconciled(r, u).count = r.count
  <1>1. 0 \in 0..Len(RetryDelays)
    BY DelaysAssumption
  <1>2. Reconciled(r, u).event = r.event
    BY DEF Reconciled, Record
  <1> QED
    BY <1>1, <1>2 DEF Reconciled, Record

(* The retry of an endpoint preserves the invariant.                       *)
LEMMA ReconcileGood ==
  ASSUME IInv, NEW e \in Endpoints, Reconcile(e)
  PROVE  IInv'
  <1> DEFINE record == endpoints[e]
  <1>1. /\ TypeOK /\ running /\ running' = running /\ sessions' = sessions
        /\ record # NoRecord /\ record \in Record /\ tunnel[e] \in TunnelState
        /\ record.event \in BOOLEAN
    BY DEF IInv, TypeOK, Reconcile, Due, Record
  <1>2. PICK r \in Candidates(e), o \in Outcomes :
          Settle(e, o, sessions[r].user, record.event,
                 Reconciled(record, sessions[r].user), record)
    BY DEF Reconcile
  <1>3. r \in LeasesOn(e) /\ sessions[r] \in Lease /\ sessions[r].user \in Users
    BY <1>1, LeasesOnFacts DEF Candidates, FirstByUser, WithIdentity, Lease
  <1> DEFINE user == sessions[r].user
             ok == Reconciled(record, user)
             after == AfterStart(o, ok, record)
             unit == TunnelAfter(o, tunnel[e], user, record.event)
  <1>4. /\ ok \in Record /\ ok.event = record.event
        /\ ok.owner = user /\ ok.count = record.count
    BY <1>1, <1>3, ReconciledEffect
  <1>5. endpoints' = [endpoints EXCEPT ![e] = after]
    BY <1>2 DEF Settle
  <1>6. tunnel' = [tunnel EXCEPT ![e] = unit]
    BY <1>2 DEF Settle
  <1> HIDE DEF ok, user
  <1>7. /\ after \in Record /\ after.count = record.count
        /\ after.owner \in {user, record.owner}
        /\ Started(after, unit) /\ Legs(after, unit)
    BY <1>1, <1>3, <1>4, AfterStartEffect DEF user
  <1>8. unit \in TunnelState
    BY <1>1, <1>3, TunnelAfterType DEF user
  <1> HIDE DEF after, unit
  <1>9. TypeOK'
    BY <1>1, <1>5, <1>6, <1>7, <1>8 DEF TypeOK
  <1>10. /\ endpoints'[e] = after /\ tunnel'[e] = unit /\ after # NoRecord
         /\ \A x \in Endpoints \ {e} : endpoints'[x] = endpoints[x] /\ tunnel'[x] = tunnel[x]
    BY <1>1, <1>5, <1>6, <1>7, AbsentAssumption DEF TypeOK
  <1>11. ASSUME NEW x \in Endpoints PROVE LeasesOn(x)' = LeasesOn(x)
    BY <1>1 DEF LeasesOn
  <1>12. CountAt(e)'
    BY <1>1, <1>7, <1>10, <1>11 DEF IInv, Good, CountAt
  <1>13. OwnerAt(e)'
    BY <1>1, <1>3, <1>7, <1>10, <1>11 DEF IInv, Good, OwnerAt, user
  <1>14. UnitAt(e)'
    <2>1. Started(endpoints'[e], tunnel'[e]) /\ Legs(endpoints'[e], tunnel'[e])
      BY <1>7, <1>10
    <2> QED
      BY <1>10, <2>1 DEF UnitAt, Started, Legs
  <1>15. ASSUME NEW x \in Endpoints, x # e PROVE Good(x)'
    BY <1>1, <1>10, <1>11, <1>15, Frame DEF IInv
  <1> QED
    BY <1>1, <1>9, <1>12, <1>13, <1>14, <1>15 DEF IInv, DownIsEmpty, Good

(* cleanup preserves the invariant.                                        *)
LEMMA CleanupGood ==
  ASSUME IInv, Cleanup
  PROVE  IInv'
  <1>1. TypeOK'
    BY DEF IInv, Cleanup, TypeOK, TunnelState
  <1>2. ASSUME NEW x \in Endpoints
        PROVE  /\ LeasesOn(x)' = {} /\ endpoints'[x] = NoRecord
               /\ running' /\ tunnel'[x] = NoTunnel
    BY DEF IInv, Cleanup, LeasesOn, Good, UnitAt
  <1> QED
    BY <1>1, <1>2 DEF IInv, DownIsEmpty, Good, CountAt, OwnerAt, UnitAt, Cleanup

(* The exit of the process preserves the invariant.                        *)
LEMMA ExitGood ==
  ASSUME IInv, Exit
  PROVE  IInv'
  BY LoseMemoryGood DEF Exit, IInv, TypeOK

(* The start of the process preserves the invariant.                       *)
LEMMA RestartGood ==
  ASSUME IInv, Restart
  PROVE  IInv'
  <1>1. TypeOK'
    BY DEF IInv, Restart, TypeOK, TunnelState
  <1>2. ASSUME NEW x \in Endpoints
        PROVE  /\ LeasesOn(x)' = {} /\ endpoints'[x] = NoRecord
               /\ running' /\ tunnel'[x] = NoTunnel
    BY DEF IInv, Restart, DownIsEmpty, LeasesOn
  <1> QED
    BY <1>1, <1>2 DEF IInv, DownIsEmpty, Good, CountAt, OwnerAt, UnitAt, Restart

(* A unit that dies on its own preserves the invariant.                    *)
LEMMA TunnelDiesGood ==
  ASSUME IInv, NEW e \in Endpoints, TunnelDies(e)
  PROVE  IInv'
  <1>1. /\ TypeOK /\ tunnel[e] \in Tunnel /\ tunnel[e] # NoTunnel
        /\ sessions' = sessions /\ endpoints' = endpoints /\ running' = running
        /\ tunnel' = [tunnel EXCEPT ![e] = DeadTunnel]
    BY AbsentAssumption DEF IInv, TunnelDies
  <1>2. TypeOK'
    BY <1>1 DEF TypeOK, TunnelState
  <1>3. ASSUME NEW x \in Endpoints PROVE LeasesOn(x)' = LeasesOn(x)
    BY <1>1 DEF LeasesOn
  <1>4. tunnel'[e] # NoTunnel /\ tunnel'[e] \notin Tunnel
    BY <1>1, AbsentAssumption DEF TypeOK
  <1>5. Good(e)'
    BY <1>1, <1>3, <1>4 DEF IInv, Good, CountAt, OwnerAt, UnitAt, Started, Legs
  <1>6. ASSUME NEW x \in Endpoints, x # e PROVE Good(x)'
    <2>1. tunnel'[x] = tunnel[x]
      BY <1>1, <1>6 DEF TypeOK
    <2> QED
      BY <1>1, <1>3, <2>1, Frame DEF IInv
  <1> QED
    BY <1>1, <1>2, <1>5, <1>6 DEF IInv, DownIsEmpty

(* The passing of time preserves the invariant.                            *)
LEMMA TickGood ==
  ASSUME IInv, Tick
  PROVE  IInv'
  <1>1. TypeOK /\ tunnel' = tunnel /\ running' = running
    BY DEF IInv, Tick
  <1>2. ASSUME NEW s \in Sessions
        PROVE  /\ sessions[s] = NoLease => sessions'[s] = NoLease
               /\ sessions[s] # NoLease =>
                    /\ sessions'[s] \in Lease
                    /\ sessions'[s].endpoint = sessions[s].endpoint
                    /\ sessions'[s].user = sessions[s].user
                    /\ sessions'[s].identity = sessions[s].identity
    <2>1. CASE sessions[s] # NoLease
      <3>1. sessions[s] \in Lease
        BY <1>1, <2>1 DEF TypeOK
      <3>2. sessions'[s] = IF sessions[s].age <= LeaseTTL
                           THEN [sessions[s] EXCEPT !.age = @ + 1] ELSE sessions[s]
        BY <2>1 DEF Tick
      <3> QED
        BY <2>1, <3>1, <3>2, TTLAssumption DEF Lease
    <2> QED
      BY <2>1 DEF Tick
  <1>3. ASSUME NEW x \in Endpoints
        PROVE  /\ endpoints[x] = NoRecord => endpoints'[x] = NoRecord
               /\ endpoints[x] # NoRecord =>
                    /\ endpoints'[x] \in Record
                    /\ endpoints'[x].state = endpoints[x].state
                    /\ endpoints'[x].owner = endpoints[x].owner
                    /\ endpoints'[x].count = endpoints[x].count
                    /\ endpoints'[x].event = endpoints[x].event
    <2>1. CASE endpoints[x] # NoRecord
      <3>1. endpoints[x] \in Record
        BY <1>1, <2>1 DEF TypeOK
      <3>2. endpoints'[x] = IF endpoints[x].wait > 0
                            THEN [endpoints[x] EXCEPT !.wait = @ - 1] ELSE endpoints[x]
        BY <2>1 DEF Tick
      <3> QED
        BY <2>1, <3>1, <3>2 DEF Record
    <2> QED
      BY <2>1 DEF Tick
  <1>4. TypeOK'
    BY <1>1, <1>2, <1>3 DEF TypeOK, Tick
  <1>5. ASSUME NEW x \in Endpoints
        PROVE  /\ LeasesOn(x)' = LeasesOn(x)
               /\ \A s \in LeasesOn(x) : /\ sessions'[s].user = sessions[s].user
                                         /\ sessions'[s].identity = sessions[s].identity
    BY <1>2, AbsentAssumption DEF LeasesOn
  <1>6. ASSUME NEW x \in Endpoints PROVE CountAt(x)' /\ OwnerAt(x)'
    BY <1>3, <1>5, AbsentAssumption DEF IInv, Good, CountAt, OwnerAt
  <1>7. ASSUME NEW x \in Endpoints PROVE UnitAt(x)'
    <2>1. KeylessOwner(x) /\ endpoints[x] # NoRecord => KeylessOwner(x)'
      BY <1>3, <1>5 DEF KeylessOwner
    <2> QED
      BY <1>1, <1>3, <2>1, AbsentAssumption DEF IInv, Good, UnitAt, Started, Legs
  <1>8. DownIsEmpty'
    <2>1. ASSUME ~running
          PROVE  /\ sessions' = [s \in Sessions |-> NoLease]
                 /\ endpoints' = [x \in Endpoints |-> NoRecord]
      BY <2>1 DEF Tick, IInv, DownIsEmpty
    <2> QED
      BY <1>1, <2>1 DEF DownIsEmpty
  <1> QED
    BY <1>4, <1>6, <1>7, <1>8 DEF IInv, Good

-----------------------------------------------------------------------------
(* The theorems. *)

(* The empty tables satisfy the invariant.                                 *)
LEMMA InitGood == Init => IInv
  <1> SUFFICES ASSUME Init PROVE IInv
    OBVIOUS
  <1>1. ASSUME NEW e \in Endpoints PROVE LeasesOn(e) = {}
    BY DEF Init, LeasesOn
  <1> QED
    BY <1>1
    DEF Init, IInv, TypeOK, TunnelState, DownIsEmpty, Good, CountAt, OwnerAt, UnitAt

(* Every step of the table preserves the invariant.                        *)
LEMMA NextGood == IInv /\ [Next]_leaseVars => IInv'
  <1> SUFFICES ASSUME IInv, [Next]_leaseVars PROVE IInv'
    OBVIOUS
  <1>1. ASSUME NEW s \in Sessions, NEW e \in Endpoints, Request(s, e) PROVE IInv'
    <2>1. ASSUME Release(s, e) PROVE IInv'
      BY <2>1, DropGood DEF Release
    <2> QED
      BY <1>1, <2>1, AcquireGood, ReacquireGood, HeartbeatGood DEF Request
  <1>2. ASSUME NEW s \in Sessions, Expire(s) PROVE IInv'
    <2>1. /\ sessions[s] \in Lease /\ sessions[s].endpoint \in Endpoints
          /\ s \in LeasesOn(sessions[s].endpoint)
      BY <1>2 DEF Expire, Stale, IInv, TypeOK, Lease, LeasesOn
    <2> QED
      BY <1>2, <2>1, DropGood DEF Expire
  <1>3. CASE UNCHANGED leaseVars
    <2>1. /\ sessions' = sessions /\ endpoints' = endpoints
          /\ tunnel' = tunnel /\ running' = running
      BY <1>3 DEF leaseVars
    <2>2. TypeOK' /\ DownIsEmpty'
      BY <2>1 DEF IInv, TypeOK, DownIsEmpty
    <2>3. ASSUME NEW e \in Endpoints PROVE Good(e)'
      <3>1. LeasesOn(e)' = LeasesOn(e)
        BY <2>1 DEF LeasesOn
      <3> QED
        BY <2>1, <3>1, Frame DEF IInv
    <2> QED
      BY <2>2, <2>3 DEF IInv
  <1> QED
    BY <1>1, <1>2, <1>3, ReconcileGood, TunnelDiesGood, CleanupGood, ExitGood,
       RestartGood, TickGood DEF Next

(* All parts of the inductive invariant hold in every state: types, counts *)
(* and the per-endpoint facts that handlers rely on when they index the    *)
(* tables.                                                                 *)
THEOREM Invariance == Spec => []IInv
  BY InitGood, NextGood, PTL DEF Spec

(* Every variable keeps its type: in particular no release or retry builds *)
(* a record out of a lease that is not there.                              *)
THEOREM TypeCorrect == Spec => []TypeOK
  <1>1. IInv => TypeOK
    BY DEF IInv
  <1> QED
    BY <1>1, Invariance, PTL

(* session_count counts the leases, and records and leases come and go     *)
(* together, so the lookups of release and re-acquire cannot fail.         *)
THEOREM CountIsRight == Spec => []CountMatchesLeases
  <1>1. IInv => CountMatchesLeases
    BY DEF IInv, Good, CountAt, CountMatchesLeases
  <1> QED
    BY <1>1, Invariance, PTL

(* Whoever the table names as owner of an endpoint has a lease on it.      *)
THEOREM OwnerIsHolder == Spec => []OwnerHoldsLease
  <1>1. IInv => OwnerHoldsLease
    BY DEF IInv, Good, OwnerAt, OwnerHoldsLease
  <1> QED
    BY <1>1, Invariance, PTL

(* A serving orchestrator has no unit for an endpoint nobody leases.       *)
THEOREM NoOrphanTunnel == Spec => []TunnelOnlyWhileLeased
  <1>1. IInv => TunnelOnlyWhileLeased
    BY DEF IInv, Good, UnitAt, TunnelOnlyWhileLeased
  <1> QED
    BY <1>1, Invariance, PTL

(* READY is never shown for a unit the server itself has removed.          *)
THEOREM ReadyIsEarned == Spec => []ReadyWasStarted
  <1>1. IInv => ReadyWasStarted
    BY DEF IInv, Good, UnitAt, Started, ReadyWasStarted
  <1> QED
    BY <1>1, Invariance, PTL

(* With keys on every lease, a READY unit has the legs that the record     *)
(* promises.                                                               *)
THEOREM EventLegIsRight == Spec => []EventLegMatches
  <1>1. IInv => EventLegMatches
    <2> SUFFICES ASSUME IInv, NEW e \in Endpoints,
                        endpoints[e] # NoRecord,
                        endpoints[e].state = "READY",
                        WithIdentity(LeasesOn(e)) = LeasesOn(e),
                        tunnel[e] \in Tunnel
                 PROVE  tunnel[e].event = endpoints[e].event
      BY DEF EventLegMatches
    <2>1. ~KeylessOwner(e)
      BY DEF KeylessOwner, WithIdentity
    <2> QED
      BY <2>1 DEF IInv, Good, UnitAt, Legs
  <1> QED
    BY <1>1, Invariance, PTL

-----------------------------------------------------------------------------
(* Refinement: every handler is one step of EndpointLease, or a stutter.   *)

(* A step that touches the unit of e only is an attempt on e. *)
LEMMA AttemptRefined ==
  ASSUME NEW e \in Endpoints, TypeOK, TypeOK',
         \A x \in Endpoints \ {e} : tunnel'[x] = tunnel[x]
  PROVE  Abstract!Attempt(e)
  <1>1. [x \in Endpoints |-> tunnel'[x] # NoTunnel]
          = [[x \in Endpoints |-> tunnel[x] # NoTunnel]
               EXCEPT ![e] = (tunnel'[e] # NoTunnel)]
    OBVIOUS
  <1>2. (tunnel'[e] # NoTunnel) \in BOOLEAN
    OBVIOUS
  <1> QED
    BY <1>1, <1>2 DEF Abstract!Attempt

(* A step that keeps lease sets, units and process is a stutter.           *)
LEMMA StutterRefined ==
  ASSUME running' = running,
         \A x \in Endpoints : LeasesOn(x)' = LeasesOn(x),
         \A x \in Endpoints : (tunnel'[x] = NoTunnel) <=> (tunnel[x] = NoTunnel)
  PROVE  UNCHANGED Abstract!vars
  BY DEF Abstract!vars

(* acquire is Join.                                                        *)
LEMMA AcquireRefined ==
  ASSUME IInv, IInv', NEW s \in Sessions, NEW e \in Endpoints, NEW p \in Profiles,
         Acquire(s, e, p)
  PROVE  Abstract!Join(s, e)
  <1>1. /\ TypeOK /\ TypeOK' /\ running /\ running' = running
        /\ sessions[s] = NoLease
        /\ sessions' = [sessions EXCEPT ![s] = NewLease(e, p)]
    BY DEF IInv, Acquire
  <1>2. \A x \in Endpoints \ {e} : tunnel'[x] = tunnel[x]
    BY <1>1 DEF Acquire, Settle, TypeOK
  <1>3. Abstract!Attempt(e)
    BY <1>1, <1>2, AttemptRefined
  <1>4. Abstract!Free(s)
    BY <1>1 DEF Abstract!Free, LeasesOn
  <1>5. [x \in Endpoints |-> LeasesOn(x)']
          = [[x \in Endpoints |-> LeasesOn(x)] EXCEPT ![e] = @ \cup {s}]
    <2>1. LeasesOn(e)' = LeasesOn(e) \cup {s}
      BY <1>1, NewLeaseFacts
    <2>2. \A x \in Endpoints \ {e} : LeasesOn(x)' = LeasesOn(x)
      BY <1>1, NewLeaseFacts
    <2> QED
      BY <2>1, <2>2
  <1> QED
    BY <1>1, <1>3, <1>4, <1>5 DEF Abstract!Join

(* release and expiry are Leave.                                           *)
LEMMA DropRefined ==
  ASSUME IInv, IInv', NEW s \in Sessions, NEW e \in Endpoints,
         running, s \in LeasesOn(e), Drop(s)
  PROVE  Abstract!Leave(s, e)
  <1>1. /\ TypeOK /\ TypeOK' /\ running /\ running' = running
        /\ sessions[s] # NoLease /\ e = sessions[s].endpoint
        /\ sessions' = [sessions EXCEPT ![s] = NoLease]
    BY DEF IInv, Drop, LeasesOn
  <1>2. \A x \in Endpoints \ {e} : tunnel'[x] = tunnel[x]
    BY <1>1 DEF Drop, TypeOK
  <1>3. Abstract!Attempt(e)
    BY <1>1, <1>2, AttemptRefined
  <1>4. [x \in Endpoints |-> LeasesOn(x)']
          = [[x \in Endpoints |-> LeasesOn(x)] EXCEPT ![e] = @ \ {s}]
    BY <1>1, DropFacts
  <1>5. LeasesOn(e)' = {} => tunnel'[e] = NoTunnel
    BY <1>1 DEF IInv, Good, CountAt, OwnerAt, UnitAt
  <1> QED
    BY <1>1, <1>3, <1>4, <1>5 DEF Abstract!Leave

(* A repeated acquire is Retune, Exit or a stutter.                        *)
LEMMA ReacquireRefined ==
  ASSUME IInv, IInv', NEW s \in Sessions, NEW e \in Endpoints, Reacquire(s, e)
  PROVE  [Abstract!Next]_(Abstract!vars)
  <1>1. /\ TypeOK /\ TypeOK' /\ running /\ s \in LeasesOn(e) /\ sessions[s] # NoLease
    BY DEF IInv, Reacquire, LeasesOn
  <1>2. CASE UNCHANGED running /\ Refresh(s)
    <2>1. \A x \in Endpoints : LeasesOn(x)' = LeasesOn(x)
      BY <1>1, <1>2, RefreshFacts
    <2>2. CASE UNCHANGED tunnel
      BY <1>2, <2>1, <2>2, StutterRefined
    <2>3. CASE tunnel' = [tunnel EXCEPT ![e] = tunnel'[e]]
      <3>1. \A x \in Endpoints \ {e} : tunnel'[x] = tunnel[x]
        BY <1>1, <2>3 DEF TypeOK
      <3>2. Abstract!Attempt(e)
        BY <1>1, <3>1, AttemptRefined
      <3>3. Abstract!Retune(e)
        BY <1>1, <1>2, <2>1, <3>2 DEF Abstract!Retune
      <3> QED
        BY <3>3 DEF Abstract!Next
    <2> QED
      BY <1>1, <1>2, <2>2, <2>3 DEF Reacquire, TypeOK, LoseMemory
  <1>3. CASE LoseMemory /\ \A x \in Endpoints \ {e} : tunnel'[x] = tunnel[x]
    <2>1. Abstract!Attempt(e)
      BY <1>1, <1>3, AttemptRefined
    <2>2. \A x \in Endpoints : LeasesOn(x)' = {}
      BY <1>3 DEF LoseMemory, LeasesOn
    <2>3. Abstract!Exit
      BY <1>1, <1>3, <2>1, <2>2 DEF Abstract!Exit, LoseMemory
    <2> QED
      BY <2>3 DEF Abstract!Next
  <1> QED
    BY <1>1, <1>2, <1>3 DEF Reacquire, TypeOK, Refresh, LoseMemory

(* A retry is Retune.                                                      *)
LEMMA ReconcileRefined ==
  ASSUME IInv, IInv', NEW e \in Endpoints, Reconcile(e)
  PROVE  Abstract!Retune(e)
  <1>1. /\ TypeOK /\ TypeOK' /\ running /\ running' = running /\ sessions' = sessions
        /\ LeasesOn(e) # {}
    BY DEF IInv, Reconcile, Candidates, FirstByUser, WithIdentity
  <1>2. \A x \in Endpoints \ {e} : tunnel'[x] = tunnel[x]
    BY <1>1 DEF Reconcile, Settle, TypeOK
  <1>3. Abstract!Attempt(e)
    BY <1>1, <1>2, AttemptRefined
  <1>4. \A x \in Endpoints : LeasesOn(x)' = LeasesOn(x)
    BY <1>1 DEF LeasesOn
  <1> QED
    BY <1>1, <1>3, <1>4 DEF Abstract!Retune

(* cleanup, exit and restart are Clear, Exit and Boot.                     *)
LEMMA ServerRefined ==
  ASSUME IInv, IInv', Cleanup \/ Exit \/ Restart
  PROVE  Abstract!Next
  <1>1. CASE Cleanup
    <2>1. ASSUME NEW x \in Endpoints PROVE LeasesOn(x)' = {} /\ tunnel'[x] = NoTunnel
      BY <1>1 DEF IInv, Cleanup, LeasesOn, Good, UnitAt
    <2>2. Abstract!Clear
      BY <1>1, <2>1 DEF Abstract!Clear, Cleanup
    <2> QED
      BY <2>2 DEF Abstract!Next
  <1>2. CASE Exit
    <2>1. \A x \in Endpoints : LeasesOn(x)' = {}
      BY <1>2 DEF Exit, LoseMemory, LeasesOn
    <2>2. Abstract!Exit
      BY <1>2, <2>1 DEF Abstract!Exit, Exit, LoseMemory
    <2> QED
      BY <2>2 DEF Abstract!Next
  <1>3. CASE Restart
    <2>1. ASSUME NEW x \in Endpoints
          PROVE  LeasesOn(x)' = LeasesOn(x) /\ tunnel'[x] = NoTunnel
      BY <1>3 DEF Restart, LeasesOn
    <2>2. Abstract!Boot
      BY <1>3, <2>1 DEF Abstract!Boot, Restart
    <2> QED
      BY <2>2 DEF Abstract!Next
  <1> QED
    BY <1>1, <1>2, <1>3

(* Every step of the table is a step of EndpointLease or a stutter.        *)
LEMMA NextRefined ==
  IInv /\ IInv' /\ [Next]_leaseVars => [Abstract!Next]_(Abstract!vars)
  <1> SUFFICES ASSUME IInv, IInv', [Next]_leaseVars
               PROVE  [Abstract!Next]_(Abstract!vars)
    OBVIOUS
  <1>1. ASSUME NEW s \in Sessions, NEW e \in Endpoints, Request(s, e)
        PROVE  [Abstract!Next]_(Abstract!vars)
    <2>1. ASSUME Heartbeat(s, e) PROVE UNCHANGED Abstract!vars
      <3>1. /\ TypeOK /\ sessions[s] # NoLease /\ Refresh(s)
            /\ tunnel' = tunnel /\ running' = running
        BY <2>1 DEF IInv, Heartbeat, LeasesOn
      <3> QED
        BY <3>1, RefreshFacts, StutterRefined
    <2>2. ASSUME Release(s, e) PROVE Abstract!Leave(s, e)
      BY <2>2, DropRefined DEF Release
    <2> QED
      BY <1>1, <2>1, <2>2, AcquireRefined, ReacquireRefined
      DEF Request, Abstract!Next
  <1>2. ASSUME NEW s \in Sessions, Expire(s) PROVE Abstract!Next
    <2>1. PICK e \in Endpoints : s \in LeasesOn(e)
      BY <1>2 DEF Expire, Stale, IInv, TypeOK, Lease, LeasesOn
    <2>2. Abstract!Leave(s, e)
      BY <1>2, <2>1, DropRefined DEF Expire
    <2> QED
      BY <2>1, <2>2 DEF Abstract!Next
  <1>3. ASSUME NEW e \in Endpoints, TunnelDies(e) PROVE UNCHANGED Abstract!vars
    <2>1. \A x \in Endpoints : LeasesOn(x)' = LeasesOn(x)
      BY <1>3 DEF TunnelDies, LeasesOn
    <2>2. \A x \in Endpoints : (tunnel'[x] = NoTunnel) <=> (tunnel[x] = NoTunnel)
      BY <1>3, AbsentAssumption DEF TunnelDies, IInv, TypeOK
    <2> QED
      BY <1>3, <2>1, <2>2, StutterRefined DEF TunnelDies
  <1>4. ASSUME Tick PROVE UNCHANGED Abstract!vars
    <2>1. ASSUME NEW s \in Sessions, sessions[s] # NoLease
          PROVE  sessions'[s] # NoLease /\ sessions'[s].endpoint = sessions[s].endpoint
      <3>1. sessions[s] \in Lease
        BY <2>1 DEF IInv, TypeOK
      <3>2. sessions'[s] = IF sessions[s].age <= LeaseTTL
                           THEN [sessions[s] EXCEPT !.age = @ + 1] ELSE sessions[s]
        BY <1>4, <2>1 DEF Tick
      <3>3. [sessions[s] EXCEPT !.age = @ + 1].endpoint = sessions[s].endpoint
        BY <3>1 DEF Lease
      <3>4. sessions'[s] \in Lease \cup {NoLease}
        BY DEF IInv, TypeOK
      <3>5. sessions[s].age <= LeaseTTL => [sessions[s] EXCEPT !.age = @ + 1] \in Lease
        BY <3>1, TTLAssumption DEF Lease
      <3> QED
        BY <2>1, <3>1, <3>2, <3>3, <3>5, AbsentAssumption
    <2>2. ASSUME NEW s \in Sessions, sessions[s] = NoLease PROVE sessions'[s] = NoLease
      BY <1>4, <2>2 DEF Tick
    <2>3. \A x \in Endpoints : LeasesOn(x)' = LeasesOn(x)
      BY <2>1, <2>2 DEF LeasesOn
    <2> QED
      BY <1>4, <2>3, StutterRefined DEF Tick
  <1>5. CASE UNCHANGED leaseVars
    BY <1>5, StutterRefined DEF leaseVars, LeasesOn
  <1> QED
    BY <1>1, <1>2, <1>3, <1>4, <1>5, ReconcileRefined, ServerRefined
    DEF Next, Abstract!Next

(* The empty tables are an initial state of EndpointLease.                 *)
LEMMA InitRefined == Init => Abstract!Init
  BY DEF Init, Abstract!Init, LeasesOn

(* The lease table implements EndpointLease: sessions hold one endpoint    *)
(* each, the last departure takes the unit down in the same step, no       *)
(* handler disturbs another endpoint, and a restart clears what a crash    *)
(* left.                                                                   *)
THEOREM Refinement == Spec => ImplementsEndpointLease
  BY InitRefined, NextRefined, Invariance, PTL
  DEF Spec, ImplementsEndpointLease, Abstract!Spec
=============================================================================
