--------------------------- MODULE RegistryProofs ---------------------------
(***************************************************************************)
(* The target registry, the callback and the snapshots of the passes, for  *)
(* any number of sessions, endpoints, users and Codex processes.  They     *)
(* take little from the lease table: which leases there are and, for the   *)
(* callback that is kept, that the table's count finds the last of them.   *)
(***************************************************************************)
EXTENDS OrchestratorProofs, FiniteSetTheorems

Types ==
  /\ sessions \in [Sessions -> L!Lease \cup {NoLease}]
  /\ DOMAIN endpoints = Endpoints
  /\ T!TypeOK
  /\ codex \in [Targets -> Nat]
  /\ alive \subseteq Sessions

(* The snapshots are empty where nobody walks them.                        *)
LoopOK ==
  /\ ~running => pc = "down"
  /\ pc \in {"select", "dispatch", "down"} => expiring = {} /\ retrying = {}
  /\ pc = "expire" => retrying = {}
  /\ pc = "retry" => expiring = {}

Uses(t) == Cardinality(KeyedLeases(t)) + codex[t]

(* The count is never too high: a Codex that was missed or forgotten is    *)
(* not in it, but its exit is still subtracted.  It is right for a target  *)
(* in use of which nothing was missed.                                     *)
CountAt(t) ==
  /\ T!Registered(t) => targets[t].count <= Uses(t)
  /\ t \notin missed /\ Uses(t) > 0 => T!Registered(t) /\ targets[t].count = Uses(t)

(* Who holds the callback is in use.                                       *)
CallbackAt(t) ==
  ~Cleanups /\ callback = t =>
    /\ T!Registered(t)
    /\ t \in identityFiles
    /\ targets[t].forward = "READY"
    /\ Uses(t) > 0

Unmanaged == Targets \ ManagedTargets

RegistryTypes == T!TypeOK /\ codex \in [Targets -> Nat]

RegistryOK == \A t \in Unmanaged : CountAt(t) /\ CallbackAt(t)

IInv == Types /\ LoopOK /\ SnapshotsHold /\ RegistryOK

-----------------------------------------------------------------------------
(* The leases with keys of a target are finitely many.                     *)
LEMMA KeyedFacts ==
  ASSUME NEW t \in Targets
  PROVE  /\ KeyedLeases(t) \subseteq Sessions
         /\ IsFiniteSet(KeyedLeases(t))
         /\ Cardinality(KeyedLeases(t)) \in Nat
         /\ Cardinality(KeyedLeases(t)) = 0 <=> KeyedLeases(t) = {}
<1>1. KeyedLeases(t) \subseteq Sessions
  BY DEF KeyedLeases, L!LeasesOn
<1>2. IsFiniteSet(KeyedLeases(t))
  BY <1>1, RegistryAssumption, FS_Subset
<1>3. QED
  BY <1>1, <1>2, FS_CardinalityType, FS_EmptySet

(* A lease goes: it counted for its target if it had a key.                *)
LEMMA GoneFacts ==
  ASSUME Types, NEW s \in Sessions, sessions[s] # NoLease,
         sessions' = [sessions EXCEPT ![s] = NoLease],
         NEW t \in Targets
  PROVE  IF t = <<sessions[s].endpoint, sessions[s].user>> /\ sessions[s].identity
         THEN /\ Cardinality(KeyedLeases(t))' = Cardinality(KeyedLeases(t)) - 1
              /\ Cardinality(KeyedLeases(t))' \in Nat
         ELSE KeyedLeases(t)' = KeyedLeases(t)
<1>1. sessions[s] \in L!Lease
  BY DEF Types
<1>2. /\ sessions'[s] = NoLease
      /\ \A x \in Sessions \ {s} : sessions'[x] = sessions[x]
  BY DEF Types
<1>3. KeyedLeases(t)' = KeyedLeases(t) \ {s}
  BY <1>2 DEF KeyedLeases, L!LeasesOn
<1>4. t = <<t[1], t[2]>>
  BY DEF Targets
<1>5. s \in KeyedLeases(t) <=>
        t = <<sessions[s].endpoint, sessions[s].user>> /\ sessions[s].identity
  BY <1>4 DEF KeyedLeases, L!LeasesOn
<1>6. s \in KeyedLeases(t) =>
        /\ Cardinality(KeyedLeases(t) \ {s}) = Cardinality(KeyedLeases(t)) - 1
        /\ Cardinality(KeyedLeases(t) \ {s}) \in Nat
  BY KeyedFacts, FS_RemoveElement, FS_CardinalityType
<1>7. QED
  BY <1>3, <1>5, <1>6

(* A lease comes.                                                          *)
LEMMA CameFacts ==
  ASSUME Types, NEW s \in Sessions, sessions[s] = NoLease,
         NEW l \in L!Lease, sessions' = [sessions EXCEPT ![s] = l],
         NEW t \in Targets
  PROVE  IF t = <<l.endpoint, l.user>> /\ l.identity
         THEN Cardinality(KeyedLeases(t))' = Cardinality(KeyedLeases(t)) + 1
         ELSE KeyedLeases(t)' = KeyedLeases(t)
<1>1. l # NoLease
  BY RegistryAssumption
<1>2. /\ sessions'[s] = l
      /\ \A x \in Sessions \ {s} : sessions'[x] = sessions[x]
  BY DEF Types
<1>3. s \notin KeyedLeases(t)
  BY DEF KeyedLeases, L!LeasesOn
<1>4. t = <<t[1], t[2]>>
  BY DEF Targets
<1>5. KeyedLeases(t)' =
        IF t = <<l.endpoint, l.user>> /\ l.identity
        THEN KeyedLeases(t) \cup {s} ELSE KeyedLeases(t)
  <2>1. s \in KeyedLeases(t)' <=> t = <<l.endpoint, l.user>> /\ l.identity
    BY <1>1, <1>2, <1>4 DEF KeyedLeases, L!LeasesOn
  <2>2. \A x \in Sessions \ {s} : x \in KeyedLeases(t)' <=> x \in KeyedLeases(t)
    BY <1>2 DEF KeyedLeases, L!LeasesOn
  <2>3. KeyedLeases(t)' \subseteq Sessions /\ KeyedLeases(t) \subseteq Sessions
    BY DEF KeyedLeases, L!LeasesOn
  <2>4. QED
    BY <1>3, <2>1, <2>2, <2>3
<1>6. Cardinality(KeyedLeases(t) \cup {s}) = Cardinality(KeyedLeases(t)) + 1
  BY <1>3, KeyedFacts, FS_AddElement
<1>7. QED
  BY <1>5, <1>6

(* Ages play no part.                                                      *)
LEMMA AgeFacts ==
  ASSUME Types,
         \A s \in Sessions :
           /\ sessions'[s] = NoLease <=> sessions[s] = NoLease
           /\ sessions[s] # NoLease =>
                /\ sessions'[s].endpoint = sessions[s].endpoint
                /\ sessions'[s].user = sessions[s].user
                /\ sessions'[s].identity = sessions[s].identity,
         NEW t \in Targets
  PROVE  KeyedLeases(t)' = KeyedLeases(t)
BY DEF KeyedLeases, L!LeasesOn

(* The table is lost.                                                      *)
LEMMA LostFacts ==
  ASSUME sessions' = [s \in Sessions |-> NoLease], NEW t \in Targets
  PROVE  Cardinality(KeyedLeases(t)') = 0
<1>1. KeyedLeases(t)' = {}
  BY DEF KeyedLeases, L!LeasesOn
<1>2. QED
  BY <1>1, FS_EmptySet

-----------------------------------------------------------------------------
(* What each operation of the registry does to the other targets and to    *)
(* its own.                                                                *)

(* What was missed is only forgotten of targets that nobody uses.          *)
Remembered == \A t \in Targets : t \in missed /\ Uses(t)' > 0 => t \in missed'

LEMMA MissFacts ==
  ASSUME NEW ts, Miss(ts)
  PROVE  /\ Remembered
         /\ \A t \in ts : Uses(t)' > 0 => t \in missed'
<1>1. ASSUME NEW t, Quiet(t)' PROVE Uses(t)' = 0
  <2>1. KeyedLeases(t)' = {} /\ codex'[t] = 0
    BY <1>1 DEF Quiet
  <2>2. Uses(t)' = Cardinality(KeyedLeases(t)') + codex'[t]
    BY DEF Uses
  <2>3. QED
    BY <2>1, <2>2, FS_EmptySet
<1>2. ASSUME NEW t \in missed \cup ts, Uses(t)' > 0 PROVE t \in missed'
  <2>1. ~Quiet(t)'
    BY <1>1, <1>2
  <2>2. QED
    BY <1>2, <2>1 DEF Miss
<1>3. QED
  BY <1>2 DEF Remembered

(* A target with the same leases, count and Codex processes is as before.  *)
LEMMA SameUses ==
  ASSUME RegistryOK,
         \A t \in Unmanaged : KeyedLeases(t)' = KeyedLeases(t),
         UNCHANGED <<targets, identityFiles, callback, codex, missed>>
  PROVE  RegistryOK'
BY DEF RegistryOK, CountAt, CallbackAt, Uses, T!Registered

(* acquire: a lease with a key counts, and the first registers.            *)
LEMMA JoinKeeps ==
  ASSUME Types, RegistryOK, NEW s \in Sessions, NEW e \in Endpoints,
         NEW p \in Profiles, AcquireLease(s, e, p), UNCHANGED codex
  PROVE  T!TypeOK' /\ RegistryOK'
<1> DEFINE l == L!NewLease(e, p)
           tt == <<e, p.user>>
<1>1. /\ l \in L!Lease /\ l.endpoint = e /\ l.user = p.user /\ l.identity = p.identity
      /\ tt \in Targets
  BY RegistryAssumption DEF L!NewLease, L!Profile, L!Lease, Targets
<1>2. sessions[s] = NoLease /\ sessions' = [sessions EXCEPT ![s] = l]
  BY DEF AcquireLease, L!Acquire
<1>3. \A t \in Targets :
        IF t = tt /\ p.identity
        THEN Cardinality(KeyedLeases(t))' = Cardinality(KeyedLeases(t)) + 1
        ELSE KeyedLeases(t)' = KeyedLeases(t)
  <2> HIDE DEF l
  <2>1. QED
    BY <1>1, <1>2, CameFacts
<1> HIDE DEF l, tt
<1>0. UNCHANGED missed
  BY DEF AcquireLease
<1>4. CASE ~p.identity
  <2>1. UNCHANGED targetVars
    BY <1>4 DEF AcquireLease
  <2>2. QED
    BY <1>0, <1>3, <1>4, <2>1, SameUses DEF Unmanaged, Types, T!TypeOK, targetVars
<1>5. CASE p.identity
  <2>1. /\ targets' = [targets EXCEPT ![tt] = T!Counted(tt)]
        /\ identityFiles' = identityFiles \cup {tt}
        /\ UNCHANGED <<browserOpened, callback>>
    BY <1>5 DEF AcquireLease, T!Join, tt
  <2>2. /\ T!Counted(tt) \in T!Status /\ T!Counted(tt) # NoStatus
        /\ T!Registered(tt) =>
             /\ T!Counted(tt).count = targets[tt].count + 1
             /\ T!Counted(tt).forward = targets[tt].forward
        /\ ~T!Registered(tt) => T!Counted(tt).count = 1
    <3>1. CASE T!Registered(tt)
      <4>1. targets[tt] \in T!Status
        BY <1>1, <3>1 DEF Types, T!TypeOK, T!Registered
      <4>2. T!Counted(tt) = [targets[tt] EXCEPT !.count = @ + 1]
        BY <3>1 DEF T!Counted
      <4>3. T!Counted(tt) \in T!Status
        BY <4>1, <4>2 DEF T!Status
      <4>4. QED
        BY <3>1, <4>1, <4>2, <4>3, RegistryAssumption DEF T!Status
    <3>2. CASE ~T!Registered(tt)
      <4>1. T!Counted(tt) = [control |-> FALSE, count |-> 1, forward |-> "ABSENT"]
        BY <3>2 DEF T!Counted
      <4>2. T!Counted(tt) \in T!Status /\ T!Counted(tt).count = 1
        BY <4>1 DEF T!Status
      <4>3. QED
        BY <3>2, <4>2, RegistryAssumption
    <3>3. QED
      BY <3>1, <3>2
  <2>3. T!TypeOK'
    BY <1>1, <2>1, <2>2 DEF Types, T!TypeOK
  <2>4. /\ targets'[tt] = T!Counted(tt)
        /\ \A t \in Targets \ {tt} : targets'[t] = targets[t]
    BY <1>1, <2>1 DEF Types, T!TypeOK
  <2>5. ASSUME NEW t \in Unmanaged, t # tt PROVE (CountAt(t) /\ CallbackAt(t))'
    BY <1>0, <1>3, <2>1, <2>4, <2>5
       DEF RegistryOK, Unmanaged, CountAt, CallbackAt, Uses, T!Registered
  <2>6. ASSUME tt \in Unmanaged PROVE (CountAt(tt) /\ CallbackAt(tt))'
    <3>1. /\ Cardinality(KeyedLeases(tt)) \in Nat /\ codex[tt] \in Nat
          /\ Cardinality(KeyedLeases(tt))' = Cardinality(KeyedLeases(tt)) + 1
          /\ T!Registered(tt) => targets[tt].count \in Nat
      BY <1>1, <1>3, <1>5, KeyedFacts DEF Types, T!TypeOK, T!Status, T!Registered
    <3>2. CountAt(tt) /\ CallbackAt(tt)
      BY <2>6 DEF RegistryOK
    <3>3. CountAt(tt)'
      BY <1>0, <2>2, <2>4, <3>1, <3>2 DEF CountAt, Uses, T!Registered
    <3>4. CallbackAt(tt)'
      BY <2>1, <2>2, <2>4, <3>1, <3>2 DEF CallbackAt, Uses, T!Registered
    <3>5. QED
      BY <3>3, <3>4
  <2>7. QED
    BY <2>3, <2>5, <2>6 DEF RegistryOK
<1>6. QED
  BY <1>4, <1>5

(* release, expiry: a lease with a key is subtracted, the last use pops.   *)
LEMMA LeaveKeeps ==
  ASSUME Types, RegistryOK, NEW s \in Sessions, NEW e \in Endpoints,
         ReleaseLease(s, e), UNCHANGED codex
  PROVE  T!TypeOK' /\ RegistryOK'
<1>1. /\ sessions[s] # NoLease /\ sessions[s].endpoint = e
      /\ sessions' = [sessions EXCEPT ![s] = NoLease]
  BY DEF ReleaseLease, L!Release, L!Drop, L!LeasesOn
<1>2. PICK tt \in Targets : tt = <<e, sessions[s].user>>
  BY <1>1 DEF Types, L!Lease, Targets
<1>0. PICK keyed \in BOOLEAN : keyed = sessions[s].identity
  BY <1>1 DEF Types, L!Lease
<1>3. \A t \in Targets :
        IF t = tt /\ keyed
        THEN Cardinality(KeyedLeases(t))' = Cardinality(KeyedLeases(t)) - 1
        ELSE KeyedLeases(t)' = KeyedLeases(t)
  BY <1>0, <1>1, <1>2, GoneFacts
<1>4. PICK last \in BOOLEAN : T!Leave(tt, keyed, last)
  BY <1>0, <1>2 DEF ReleaseLease
<1>5. ASSUME NEW t \in Targets
      PROVE  /\ Cardinality(KeyedLeases(t)) \in Nat /\ codex[t] \in Nat
             /\ Cardinality(KeyedLeases(t))' \in Nat
  BY <1>1, <1>5, KeyedFacts, GoneFacts DEF Types
<1>6. callback' = callback \/ (callback = tt /\ callback' = NoCallback)
  BY <1>4 DEF T!Leave, T!Finished
<1>11. Remembered
  BY MissFacts DEF ReleaseLease
<1>7. CASE keyed /\ T!LastCount(tt)
  <2>1. /\ targets' = [targets EXCEPT ![tt] = NoStatus]
        /\ identityFiles' = identityFiles \ {tt}
        /\ callback' # tt
        /\ UNCHANGED browserOpened
    BY <1>2, <1>4, <1>7, RegistryAssumption
       DEF T!Leave, T!Pop, T!Finished, T!LastCount
  <2>2. T!TypeOK'
    BY <1>6, <2>1 DEF Types, T!TypeOK
  <2>3. /\ targets'[tt] = NoStatus
        /\ \A t \in Targets \ {tt} : targets'[t] = targets[t]
    BY <1>2, <2>1 DEF Types, T!TypeOK
  <2>4. ASSUME NEW t \in Unmanaged, t # tt PROVE (CountAt(t) /\ CallbackAt(t))'
    <3>1. callback' = t => callback = t
      BY <1>6, <2>4, RegistryAssumption DEF Unmanaged
    <3>2. QED
      BY <1>3, <1>11, <2>1, <2>3, <2>4, <3>1
         DEF RegistryOK, Unmanaged, CountAt, CallbackAt, Uses, T!Registered, Remembered
  <2>5. ASSUME tt \in Unmanaged PROVE (CountAt(tt) /\ CallbackAt(tt))'
    <3>1. Uses(tt)' = Uses(tt) - 1 /\ Uses(tt) \in Nat /\ Uses(tt) > 0
      BY <1>2, <1>3, <1>5, <1>7 DEF Uses
    <3>2. CountAt(tt) /\ T!Registered(tt) /\ targets[tt].count <= 1
      BY <1>7, <2>5 DEF RegistryOK, T!LastCount
    <3>3. tt \in missed \/ Uses(tt)' = 0
      BY <3>1, <3>2 DEF CountAt
    <3>4. CountAt(tt)'
      BY <1>2, <1>11, <2>3, <3>1, <3>3 DEF CountAt, T!Registered, Remembered
    <3>5. CallbackAt(tt)'
      BY <2>1 DEF CallbackAt
    <3>6. QED
      BY <3>4, <3>5
  <2>6. QED
    BY <2>2, <2>4, <2>5 DEF RegistryOK
<1>8. CASE keyed /\ T!Registered(tt) /\ ~T!LastCount(tt)
  <2>1. /\ targets' = [targets EXCEPT ![tt].count = @ - 1]
        /\ UNCHANGED <<identityFiles, browserOpened>>
    BY <1>4, <1>8 DEF T!Leave
  <2>2. /\ targets[tt] \in T!Status /\ targets[tt].count \in Nat
        /\ targets[tt].count > 1
    BY <1>2, <1>8 DEF Types, T!TypeOK, T!Status, T!Registered, T!LastCount
  <2>3. /\ targets'[tt] \in T!Status /\ targets'[tt] # NoStatus
        /\ targets'[tt].count = targets[tt].count - 1
        /\ targets'[tt].forward = targets[tt].forward
        /\ \A t \in Targets \ {tt} : targets'[t] = targets[t]
    BY <1>2, <2>1, <2>2, RegistryAssumption DEF Types, T!TypeOK, T!Status
  <2>4. T!TypeOK'
    BY <1>2, <1>6, <2>1, <2>3 DEF Types, T!TypeOK
  <2>5. ASSUME NEW t \in Unmanaged, t # tt PROVE (CountAt(t) /\ CallbackAt(t))'
    <3>1. callback' = t => callback = t
      BY <1>6, <2>5, RegistryAssumption DEF Unmanaged
    <3>2. QED
      BY <1>3, <1>11, <2>1, <2>3, <2>5, <3>1
         DEF RegistryOK, Unmanaged, CountAt, CallbackAt, Uses, T!Registered, Remembered
  <2>6. ASSUME tt \in Unmanaged PROVE (CountAt(tt) /\ CallbackAt(tt))'
    <3>1. Uses(tt)' = Uses(tt) - 1 /\ Uses(tt) \in Nat
      BY <1>2, <1>3, <1>5, <1>8 DEF Uses
    <3>2. callback' = tt => callback = tt
      BY <1>2, <1>6, RegistryAssumption
    <3>3. CountAt(tt) /\ CallbackAt(tt)
      BY <2>6 DEF RegistryOK
    <3>4. QED
      BY <1>2, <1>8, <1>11, <2>1, <2>2, <2>3, <3>1, <3>2, <3>3
         DEF CountAt, CallbackAt, T!Registered, Remembered
  <2>7. QED
    BY <2>4, <2>5, <2>6 DEF RegistryOK
<1>9. CASE ~keyed \/ ~T!Registered(tt)
  <2>1. UNCHANGED <<targets, identityFiles, browserOpened>>
    BY <1>4, <1>9 DEF T!Leave, T!LastCount
  <2>2. T!TypeOK'
    BY <1>6, <2>1 DEF Types, T!TypeOK
  <2>3. ASSUME NEW t \in Unmanaged PROVE (CountAt(t) /\ CallbackAt(t))'
    <3>1. callback' = t => callback = t
      BY <1>6, <2>3, RegistryAssumption DEF Unmanaged
    <3>2. CASE t # tt \/ ~keyed
      BY <1>3, <1>11, <2>1, <2>3, <3>1, <3>2
         DEF RegistryOK, Unmanaged, CountAt, CallbackAt, Uses, T!Registered, Remembered
    <3>3. CASE t = tt /\ keyed
      <4>1. Uses(tt) > 0
        BY <1>3, <1>5, <3>3 DEF Uses
      <4>2. CountAt(t) /\ CallbackAt(t) /\ ~T!Registered(tt)
        BY <1>9, <2>3, <3>3 DEF RegistryOK
      <4>3. callback # tt \/ Cleanups
        BY <3>3, <4>1, <4>2 DEF CountAt, CallbackAt
      <4>4. tt \in missed
        BY <3>3, <4>1, <4>2 DEF CountAt
      <4>5. CountAt(tt)'
        BY <1>2, <1>11, <2>1, <4>2, <4>4 DEF CountAt, T!Registered, Remembered
      <4>6. CallbackAt(tt)'
        BY <3>1, <3>3, <4>3 DEF CallbackAt
      <4>7. QED
        BY <3>3, <4>5, <4>6
    <3>4. QED
      BY <3>2, <3>3
  <2>4. QED
    BY <2>2, <2>3 DEF RegistryOK
<1>10. QED
  BY <1>7, <1>8, <1>9 DEF T!LastCount

(* A managed session touches no target but its own.                        *)
LEMMA ManagedKeeps ==
  ASSUME Types, RegistryOK, TargetRequest
  PROVE  T!TypeOK' /\ RegistryOK'
<1>1. PICK m \in ManagedTargets :
        (\E key \in BOOLEAN : T!Register(m, key)) \/ T!Unregister(m)
  BY DEF TargetRequest
<1>2. m \in Targets /\ m \notin Unmanaged
  BY RegistryAssumption DEF Unmanaged
<1>3. UNCHANGED <<sessions, codex, missed, browserOpened, callback>>
  BY <1>1 DEF TargetRequest, leaseVars, worldVars, T!Register, T!Unregister
<1>4. /\ \E v \in T!Status \cup {NoStatus} : targets' = [targets EXCEPT ![m] = v]
      /\ identityFiles' \in {identityFiles, identityFiles \cup {m}, identityFiles \ {m}}
  <2>1. ASSUME NEW key \in BOOLEAN, T!Register(m, key)
        PROVE  \E v \in T!Status \cup {NoStatus} : targets' = [targets EXCEPT ![m] = v]
    <3>1. CASE T!Registered(m)
      <4>1. targets[m] \in T!Status
        BY <1>2, <3>1 DEF Types, T!TypeOK, T!Registered
      <4>2. [targets[m] EXCEPT !.control = TRUE] \in T!Status
        BY <4>1 DEF T!Status
      <4>3. QED
        BY <2>1, <3>1, <4>2 DEF T!Register
    <3>2. CASE ~T!Registered(m)
      <4>1. [control |-> TRUE, count |-> 0, forward |-> "ABSENT"] \in T!Status
        BY DEF T!Status
      <4>2. QED
        BY <2>1, <3>2, <4>1 DEF T!Register
    <3>3. QED
      BY <3>1, <3>2
  <2>2. QED
    BY <1>1, <2>1 DEF T!Register, T!Unregister, T!Pop
<1>5. T!TypeOK'
  BY <1>2, <1>3, <1>4 DEF Types, T!TypeOK
<1>6. \A t \in Unmanaged :
        targets'[t] = targets[t] /\ (t \in identityFiles' <=> t \in identityFiles)
  BY <1>2, <1>4 DEF Types, T!TypeOK, Unmanaged
<1>7. \A t \in Unmanaged : KeyedLeases(t)' = KeyedLeases(t)
  BY <1>3 DEF KeyedLeases, L!LeasesOn
<1>8. QED
  BY <1>3, <1>5, <1>6, <1>7
     DEF RegistryOK, CountAt, CallbackAt, Uses, T!Registered

(* A start of Codex counts, whether it gets the callback or not.           *)
LEMMA CodexStartKeeps ==
  ASSUME Types, RegistryOK, NEW tt \in Targets, T!Registered(tt), T!CodexStart(tt),
         codex' = [codex EXCEPT ![tt] = @ + 1], UNCHANGED <<sessions, missed>>
  PROVE  T!TypeOK' /\ RegistryOK'
<1>1. PICK held \in T!CallbackAfterStart(tt) :
        /\ callback' = held
        /\ targets' = [targets EXCEPT ![tt].count = @ + 1,
                                      ![tt].forward = T!ForwardAfterStart(tt, held)]
  BY DEF T!CodexStart
<1>2. /\ held \in {callback, NoCallback, tt}
      /\ held = tt => tt \in identityFiles \/ callback = tt
  BY DEF T!CallbackAfterStart
<1>3. targets[tt] \in T!Status
  BY DEF Types, T!TypeOK, T!Registered
<1>4. T!ForwardAfterStart(tt, held) \in {"ABSENT", "READY", "FAILED"}
  BY <1>3 DEF T!ForwardAfterStart, T!Status
<1>5. /\ targets'[tt] \in T!Status
      /\ targets'[tt].count = targets[tt].count + 1
      /\ targets'[tt].forward = T!ForwardAfterStart(tt, held)
      /\ \A t \in Targets \ {tt} : targets'[t] = targets[t]
      /\ targets' \in [Targets -> T!Status \cup {NoStatus}]
  <2>1. PICK n \in Nat, f \in {"ABSENT", "READY", "FAILED"} :
          n = targets[tt].count + 1 /\ f = T!ForwardAfterStart(tt, held)
    BY <1>3, <1>4 DEF T!Status
  <2>2. targets' = [targets EXCEPT ![tt] = [targets[tt] EXCEPT !.count = n, !.forward = f]]
    BY <1>1, <2>1 DEF Types, T!TypeOK
  <2>3. PICK r : r = [targets[tt] EXCEPT !.count = n, !.forward = f]
    OBVIOUS
  <2>4. r \in T!Status /\ r.count = n /\ r.forward = f
    BY <1>3, <2>3 DEF T!Status
  <2>5. targets' = [targets EXCEPT ![tt] = r]
    BY <2>2, <2>3
  <2>6. QED
    BY <2>1, <2>4, <2>5 DEF Types, T!TypeOK
<1>6. UNCHANGED identityFiles /\ browserOpened' = browserOpened \ {tt}
  BY DEF T!CodexStart
<1>7. T!TypeOK'
  BY <1>1, <1>2, <1>5, <1>6 DEF Types, T!TypeOK
<1>8. \A t \in Targets :
        /\ KeyedLeases(t)' = KeyedLeases(t)
        /\ Cardinality(KeyedLeases(t)) \in Nat /\ codex[t] \in Nat
  BY KeyedFacts DEF KeyedLeases, L!LeasesOn, Types
<1>9. ASSUME NEW t \in Unmanaged, t # tt PROVE (CountAt(t) /\ CallbackAt(t))'
  <2>1. callback' = t => callback = t
    BY <1>1, <1>2, <1>9, RegistryAssumption DEF Unmanaged
  <2>2. Uses(t)' = Uses(t)
    BY <1>8, <1>9 DEF Uses, Types, Unmanaged
  <2>3. QED
    BY <1>5, <1>6, <1>9, <2>1, <2>2
       DEF RegistryOK, Unmanaged, CountAt, CallbackAt, T!Registered
<1>10. ASSUME tt \in Unmanaged PROVE (CountAt(tt) /\ CallbackAt(tt))'
  <2>1. /\ Uses(tt)' = Uses(tt) + 1 /\ Uses(tt) \in Nat
        /\ targets[tt].count \in Nat
    BY <1>3, <1>8 DEF Uses, Types, T!Status
  <2>2. CountAt(tt) /\ CallbackAt(tt)
    BY <1>10 DEF RegistryOK
  <2>3. CountAt(tt)'
    BY <1>5, <2>1, <2>2, RegistryAssumption DEF CountAt, T!Registered
  <2>4. CallbackAt(tt)'
    <3>1. SUFFICES ASSUME ~Cleanups, held = tt
                   PROVE  /\ T!Registered(tt)' /\ tt \in identityFiles'
                          /\ targets'[tt].forward = "READY" /\ Uses(tt)' > 0
      BY <1>1 DEF CallbackAt
    <3>2. tt \in identityFiles
      BY <1>2, <2>2, <3>1 DEF CallbackAt
    <3>3. T!ForwardAfterStart(tt, held) = "READY"
      BY <3>1, <3>2 DEF T!ForwardAfterStart
    <3>4. QED
      BY <1>5, <1>6, <2>1, <3>2, <3>3, RegistryAssumption DEF T!Registered
  <2>5. QED
    BY <2>3, <2>4
<1>11. QED
  BY <1>7, <1>9, <1>10 DEF RegistryOK

(* A start of Codex that is missed: there is one more use than before.     *)
LEMMA MissedStartKeeps ==
  ASSUME Types, RegistryOK, NEW tt \in Targets, Begin(tt), Miss({tt}),
         UNCHANGED <<sessions, targetVars>>
  PROVE  RegistryTypes' /\ RegistryOK'
<1>1. codex' = [codex EXCEPT ![tt] = @ + 1] /\ UNCHANGED <<targets, identityFiles, callback>>
  BY DEF Begin, targetVars
<1>2. RegistryTypes'
  BY <1>1 DEF Types, RegistryTypes, T!TypeOK, targetVars
<1>3. \A t \in Targets :
        /\ KeyedLeases(t)' = KeyedLeases(t)
        /\ Cardinality(KeyedLeases(t)) \in Nat /\ codex[t] \in Nat
  BY KeyedFacts DEF KeyedLeases, L!LeasesOn, Types
<1>4. /\ Uses(tt)' = Uses(tt) + 1 /\ Uses(tt) \in Nat
      /\ \A t \in Targets \ {tt} : Uses(t)' = Uses(t)
  BY <1>1, <1>3 DEF Uses, Types
<1>5. Remembered /\ (Uses(tt)' > 0 => tt \in missed')
  BY MissFacts
<1>6. ASSUME NEW t \in Unmanaged, t # tt PROVE (CountAt(t) /\ CallbackAt(t))'
  BY <1>1, <1>4, <1>5, <1>6
     DEF RegistryOK, Unmanaged, CountAt, CallbackAt, T!Registered, Remembered
<1>7. ASSUME tt \in Unmanaged PROVE (CountAt(tt) /\ CallbackAt(tt))'
  <2>1. CountAt(tt) /\ CallbackAt(tt)
    BY <1>7 DEF RegistryOK
  <2>2. T!Registered(tt) => targets[tt].count \in Nat
    BY DEF Types, T!TypeOK, T!Registered, T!Status
  <2>3. QED
    BY <1>1, <1>4, <1>5, <2>1, <2>2 DEF CountAt, CallbackAt, T!Registered
<1>8. QED
  BY <1>2, <1>6, <1>7 DEF RegistryOK

(* An exit of Codex, of a target that may not be registered any more.      *)
LEMMA CodexExitKeeps ==
  ASSUME Types, RegistryOK, NEW tt \in Targets, codex[tt] > 0,
         IF T!Registered(tt) THEN T!CodexExit(tt) ELSE UNCHANGED targetVars,
         codex' = [codex EXCEPT ![tt] = @ - 1], UNCHANGED sessions, Miss({})
  PROVE  T!TypeOK' /\ RegistryOK'
<1>1. \A t \in Targets :
        /\ KeyedLeases(t)' = KeyedLeases(t)
        /\ Cardinality(KeyedLeases(t)) \in Nat /\ codex[t] \in Nat
  BY KeyedFacts DEF KeyedLeases, L!LeasesOn, Types
<1>2. /\ Uses(tt)' = Uses(tt) - 1 /\ Uses(tt) \in Nat /\ Uses(tt) > 0
      /\ \A t \in Targets \ {tt} : Uses(t)' = Uses(t)
  BY <1>1 DEF Uses, Types
<1>6. Remembered
  BY MissFacts
<1>3. CASE ~T!Registered(tt)
  BY <1>2, <1>3, <1>6
     DEF RegistryOK, Unmanaged, CountAt, CallbackAt, T!Registered, targetVars, Types, T!TypeOK,
         Remembered
<1>4. CASE T!Registered(tt)
  <2>1. /\ targets' = [targets EXCEPT ![tt] = T!AfterExit(@)]
        /\ callback' = IF targets[tt].count <= 2 THEN T!Finished(tt) ELSE callback
        /\ browserOpened' = browserOpened \ {tt}
        /\ UNCHANGED identityFiles
    BY <1>4 DEF T!CodexExit
  <2>2. targets[tt] \in T!Status /\ targets[tt].count \in Nat
    BY <1>4 DEF Types, T!TypeOK, T!Registered, T!Status
  <2>3. /\ T!AfterExit(targets[tt]) \in T!Status
        /\ T!AfterExit(targets[tt]).count =
              (IF targets[tt].count > 0 THEN targets[tt].count - 1 ELSE 0)
        /\ targets[tt].count > 1 =>
              T!AfterExit(targets[tt]).forward = targets[tt].forward
    <3>1. PICK n \in Nat, f \in {"ABSENT", "READY", "FAILED"} :
            /\ n = IF targets[tt].count > 0 THEN targets[tt].count - 1 ELSE 0
            /\ f = IF targets[tt].count <= 1 THEN "ABSENT" ELSE targets[tt].forward
      BY <2>2 DEF T!Status
    <3>2. T!AfterExit(targets[tt]) = [targets[tt] EXCEPT !.count = n, !.forward = f]
      BY <3>1 DEF T!AfterExit
    <3>3. /\ T!AfterExit(targets[tt]) \in T!Status
          /\ T!AfterExit(targets[tt]).count = n /\ T!AfterExit(targets[tt]).forward = f
      BY <2>2, <3>2 DEF T!Status
    <3>4. QED
      BY <2>2, <3>1, <3>3
  <2>4. /\ targets'[tt] = T!AfterExit(targets[tt])
        /\ \A t \in Targets \ {tt} : targets'[t] = targets[t]
        /\ targets' \in [Targets -> T!Status \cup {NoStatus}]
    BY <2>1, <2>3 DEF Types, T!TypeOK
  <2>5. /\ callback' \in {callback, NoCallback}
        /\ targets[tt].count <= 2 => callback' # tt
    BY <2>1, RegistryAssumption DEF T!Finished
  <2>6. T!TypeOK'
    BY <2>1, <2>4, <2>5 DEF Types, T!TypeOK
  <2>7. ASSUME NEW t \in Unmanaged, t # tt PROVE (CountAt(t) /\ CallbackAt(t))'
    <3>1. callback' = t => callback = t
      BY <2>5, <2>7, RegistryAssumption DEF Unmanaged
    <3>2. QED
      BY <1>2, <1>6, <2>1, <2>4, <2>7, <3>1
         DEF RegistryOK, Unmanaged, CountAt, CallbackAt, T!Registered, Remembered
  <2>8. ASSUME tt \in Unmanaged PROVE (CountAt(tt) /\ CallbackAt(tt))'
    <3>1. CountAt(tt) /\ CallbackAt(tt)
      BY <2>8 DEF RegistryOK
    <3>2. targets'[tt] # NoStatus
      BY <2>3, <2>4, RegistryAssumption
    <3>3. CountAt(tt)'
      BY <1>2, <1>4, <1>6, <2>2, <2>3, <2>4, <3>1, <3>2
         DEF CountAt, T!Registered, Remembered
    <3>4. callback' = tt => callback = tt /\ targets[tt].count > 2
      BY <2>2, <2>5, RegistryAssumption
    <3>5. CallbackAt(tt)'
      BY <1>2, <1>4, <2>1, <2>2, <2>3, <2>4, <3>1, <3>2, <3>4
         DEF CountAt, CallbackAt, T!Registered
    <3>6. QED
      BY <3>3, <3>5
  <2>9. QED
    BY <2>6, <2>7, <2>8 DEF RegistryOK
<1>5. QED
  BY <1>3, <1>4

(* Nothing is in use when the tables are lost; only the Codex processes    *)
(* are still there.                                                        *)
LEMMA LostKeeps ==
  ASSUME Types, sessions' = [s \in Sessions |-> NoLease], Miss(Targets),
         targets' = [t \in Targets |-> NoStatus],
         Cleanups \/ callback' = NoCallback
  PROVE  RegistryOK'
<1>1. \A t \in Unmanaged : ~T!Registered(t)'
  BY DEF Unmanaged, T!Registered
<1>2. \A t \in Unmanaged : Cleanups \/ callback' # t
  BY RegistryAssumption DEF Unmanaged
<1>3. \A t \in Unmanaged : Uses(t)' > 0 => t \in missed'
  BY MissFacts DEF Unmanaged
<1>4. QED
  BY <1>1, <1>2, <1>3 DEF RegistryOK, CountAt, CallbackAt

-----------------------------------------------------------------------------
(* Types                                                                   *)

(* The handlers of the lease table keep what is needed of it here.         *)
LEMMA TableTypes ==
  ASSUME Types, [L!Next]_(L!leaseVars)
  PROVE  /\ sessions' \in [Sessions -> L!Lease \cup {NoLease}]
         /\ DOMAIN endpoints' = Endpoints
<1> USE DEF Types
<1>1. ASSUME NEW s \in Sessions, NEW e \in Endpoints, NEW p \in Profiles, L!Acquire(s, e, p)
      PROVE  /\ sessions' \in [Sessions -> L!Lease \cup {NoLease}]
             /\ DOMAIN endpoints' = Endpoints
  <2>1. L!NewLease(e, p) \in L!Lease
    BY RegistryAssumption DEF L!NewLease, L!Lease, L!Profile
  <2>2. sessions' \in [Sessions -> L!Lease \cup {NoLease}]
    BY <1>1, <2>1 DEF L!Acquire
  <2>3. DOMAIN endpoints' = Endpoints
    BY <1>1 DEF L!Acquire, L!Settle
  <2>4. QED
    BY <2>2, <2>3
<1>2. ASSUME NEW s \in Sessions, sessions[s] # NoLease
      PROVE  [sessions EXCEPT ![s].age = 0] \in [Sessions -> L!Lease \cup {NoLease}]
  <2>1. sessions[s] \in L!Lease
    BY <1>2
  <2>2. [sessions[s] EXCEPT !.age = 0] \in L!Lease
    BY <2>1, RegistryAssumption DEF L!Lease
  <2>3. QED
    BY <2>2
<1>3. [s \in Sessions |-> NoLease] \in [Sessions -> L!Lease \cup {NoLease}]
  OBVIOUS
<1>4. ASSUME NEW s \in Sessions, NEW e \in Endpoints, L!Reacquire(s, e) \/ L!Heartbeat(s, e)
      PROVE  /\ sessions' \in [Sessions -> L!Lease \cup {NoLease}]
             /\ DOMAIN endpoints' = Endpoints
  <2>1. s \in L!LeasesOn(e) /\ sessions[s] # NoLease
    BY <1>4 DEF L!Reacquire, L!Heartbeat, L!LeasesOn
  <2>2. sessions' = [sessions EXCEPT ![s].age = 0] \/ sessions' = [x \in Sessions |-> NoLease]
    BY <1>4 DEF L!Reacquire, L!Heartbeat, L!Refresh, L!LoseMemory
  <2>3. DOMAIN endpoints' = Endpoints
    BY <1>4 DEF L!Reacquire, L!Heartbeat, L!LoseMemory
  <2>4. QED
    BY <1>2, <1>3, <2>1, <2>2, <2>3
<1>5. ASSUME NEW s \in Sessions, L!Drop(s)
      PROVE  /\ sessions' \in [Sessions -> L!Lease \cup {NoLease}]
             /\ DOMAIN endpoints' = Endpoints
  BY <1>5 DEF L!Drop
<1>6. ASSUME NEW e \in Endpoints, L!Reconcile(e) \/ L!TunnelDies(e)
      PROVE  /\ sessions' \in [Sessions -> L!Lease \cup {NoLease}]
             /\ DOMAIN endpoints' = Endpoints
  BY <1>6 DEF L!Reconcile, L!TunnelDies, L!Settle
<1>7. CASE L!Cleanup \/ L!Exit \/ L!Restart
  BY <1>3, <1>7 DEF L!Cleanup, L!Exit, L!Restart, L!LoseMemory
<1>8. CASE L!Tick
  <2>1. ASSUME NEW s \in Sessions, sessions[s] # NoLease, sessions[s].age <= LeaseTTL
        PROVE  [sessions[s] EXCEPT !.age = @ + 1] \in L!Lease
    <3>1. sessions[s] \in L!Lease
      BY <2>1
    <3>2. QED
      BY <2>1, <3>1, RegistryAssumption DEF L!Lease
  <2>2. QED
    BY <1>8, <2>1 DEF L!Tick
<1>9. CASE UNCHANGED L!leaseVars
  BY <1>9 DEF L!leaseVars
<1>10. QED
  BY <1>1, <1>4, <1>5, <1>6, <1>7, <1>8, <1>9 DEF L!Next, L!Request, L!Release, L!Expire

-----------------------------------------------------------------------------
(* A step that does not touch the registry.                                *)
Untouched == UNCHANGED <<targetVars, codex, missed>>

(* What neither leases nor the registry notice changes nothing.            *)
LEMMA UntouchedKeeps ==
  ASSUME Types, RegistryOK, Untouched,
         \A t \in Unmanaged : KeyedLeases(t)' = KeyedLeases(t)
  PROVE  RegistryTypes' /\ RegistryOK'
BY SameUses DEF Untouched, Types, RegistryTypes, T!TypeOK, targetVars

(* Leases are the same while sessions is.                                  *)
LEMMA SameSessions ==
  ASSUME UNCHANGED sessions
  PROVE  \A t \in Unmanaged : KeyedLeases(t)' = KeyedLeases(t)
BY DEF KeyedLeases, L!LeasesOn

(* The process ends.                                                       *)
LEMMA ForgetKeeps ==
  ASSUME Types, sessions' = [s \in Sessions |-> NoLease], T!Forget,
         Miss(Targets), UNCHANGED codex
  PROVE  RegistryTypes' /\ RegistryOK'
<1>1. RegistryTypes'
  BY DEF T!Forget, RegistryTypes, Types, T!TypeOK
<1>2. QED
  BY <1>1, LostKeeps DEF T!Forget

(* A heartbeat changes nothing but an age.                                 *)
LEMMA RefreshFacts ==
  ASSUME Types, NEW s \in Sessions, sessions[s] # NoLease, L!Refresh(s)
  PROVE  \A t \in Unmanaged : KeyedLeases(t)' = KeyedLeases(t)
<1>1. sessions[s] \in L!Lease
  BY DEF Types
<1>2. PICK l : l = [sessions[s] EXCEPT !.age = 0]
  OBVIOUS
<1>3. /\ l \in L!Lease /\ l.endpoint = sessions[s].endpoint
      /\ l.user = sessions[s].user /\ l.identity = sessions[s].identity
  BY <1>1, <1>2, RegistryAssumption DEF L!Lease
<1>4. sessions' = [sessions EXCEPT ![s] = l]
  BY <1>2 DEF L!Refresh
<1>5. sessions'[s] = l /\ l # NoLease /\ \A x \in Sessions \ {s} : sessions'[x] = sessions[x]
  BY <1>3, <1>4, RegistryAssumption DEF Types
<1>6. QED
  BY <1>3, <1>5, AgeFacts DEF Unmanaged

(* The four requests of a client.                                          *)
LEMMA RequestKeeps ==
  ASSUME Types, RegistryOK, LeaseRequest
  PROVE  RegistryTypes' /\ RegistryOK'
<1>1. PICK s \in Sessions, e \in Endpoints :
        \/ \E p \in Profiles : AcquireLease(s, e, p)
        \/ ReacquireLease(s, e)
        \/ HeartbeatLease(s, e)
        \/ ReleaseLease(s, e)
  BY DEF LeaseRequest, Types
<1>2. UNCHANGED codex /\ codex \in [Targets -> Nat]
  BY DEF LeaseRequest, Types
<1>3. ASSUME NEW p \in Profiles, AcquireLease(s, e, p)
      PROVE  RegistryTypes' /\ RegistryOK'
  BY <1>2, <1>3, JoinKeeps DEF RegistryTypes
<1>4. CASE ReleaseLease(s, e)
  BY <1>2, <1>4, LeaveKeeps DEF RegistryTypes
<1>5. CASE HeartbeatLease(s, e)
  <2>1. sessions[s] # NoLease /\ L!Refresh(s) /\ UNCHANGED <<targetVars, missed>>
    BY <1>5 DEF HeartbeatLease, L!Heartbeat, L!LeasesOn
  <2>2. QED
    BY <1>2, <1>5, <2>1, RefreshFacts, UntouchedKeeps DEF Untouched
<1>6. CASE ReacquireLease(s, e)
  <2>1. /\ sessions[s] # NoLease
        /\ \/ L!Refresh(s) /\ running'
           \/ sessions' = [x \in Sessions |-> NoLease] /\ ~running'
    BY <1>6 DEF ReacquireLease, L!Reacquire, L!LeasesOn, L!LoseMemory
  <2>2. CASE running'
    <3>1. UNCHANGED <<targetVars, missed>>
      BY <1>6, <2>2 DEF ReacquireLease
    <3>2. QED
      BY <1>2, <2>1, <2>2, <3>1, RefreshFacts, UntouchedKeeps DEF Untouched
  <2>3. CASE ~running'
    <3>1. T!Forget /\ Miss(Targets)
      BY <1>6, <2>3 DEF ReacquireLease
    <3>2. QED
      BY <1>2, <2>1, <2>3, <3>1, ForgetKeeps
  <2>4. QED
    BY <2>2, <2>3
<1>7. QED
  BY <1>1, <1>3, <1>4, <1>5, <1>6

(* The three events of the remote shim.                                    *)
LEMMA CodexKeeps ==
  ASSUME Types, RegistryOK, CodexRequest
  PROVE  RegistryTypes' /\ RegistryOK'
<1>1. UNCHANGED sessions
  BY DEF CodexRequest, leaseVars
<1>2. PICK t \in Targets :
        \/ /\ T!Registered(t) /\ T!CodexStart(t)
           /\ codex' = [codex EXCEPT ![t] = @ + 1]
           /\ UNCHANGED missed
        \/ Begin(t) /\ Miss({t}) /\ UNCHANGED targetVars
        \/ T!CodexOAuthUrl(t) /\ UNCHANGED <<codex, missed>>
        \/ /\ codex[t] > 0
           /\ IF T!Registered(t) THEN T!CodexExit(t) ELSE UNCHANGED targetVars
           /\ codex' = [codex EXCEPT ![t] = @ - 1]
           /\ Miss({})
  BY DEF CodexRequest, Begin, T!CodexStart
<1>3. codex' \in [Targets -> Nat]
  BY <1>2 DEF Types, Begin
<1>4. CASE T!CodexOAuthUrl(t) /\ UNCHANGED <<codex, missed>>
  <2>1. T!TypeOK'
    BY <1>4 DEF Types, T!TypeOK, T!CodexOAuthUrl
  <2>2. QED
    BY <1>1, <1>3, <1>4, <2>1, SameSessions, SameUses DEF T!CodexOAuthUrl, RegistryTypes
<1>5. QED
  BY <1>1, <1>2, <1>3, <1>4, CodexStartKeeps, MissedStartKeeps, CodexExitKeeps
     DEF RegistryTypes

(* Whatever is dispatched.                                                 *)
LEMMA DispatchKeeps ==
  ASSUME Types, RegistryOK, Dispatch
  PROVE  RegistryTypes' /\ RegistryOK'
<1>1. CASE TargetRequest
  <2>1. codex' \in [Targets -> Nat]
    BY <1>1 DEF TargetRequest, worldVars, Types
  <2>2. QED
    BY <1>1, <2>1, ManagedKeeps DEF RegistryTypes
<1>2. CASE CleanupRequest
  <2>1. /\ Cleanups /\ sessions' = [s \in Sessions |-> NoLease] /\ Miss(Targets)
        /\ UNCHANGED codex /\ T!Clear(Owners)
    BY <1>2 DEF CleanupRequest, L!Cleanup
  <2>2. RegistryTypes'
    BY <2>1 DEF T!Clear, Types, RegistryTypes, T!TypeOK
  <2>3. QED
    BY <2>1, <2>2, LostKeeps DEF T!Clear
<1>3. CASE Inquiry
  BY <1>3, SameSessions, UntouchedKeeps DEF Inquiry, Untouched, leaseVars, worldVars
<1>4. QED
  BY <1>1, <1>2, <1>3, RequestKeeps, CodexKeeps DEF Dispatch

(* Every step of the process.                                              *)
LEMMA RegistryKeeps ==
  ASSUME Types, RegistryOK, [Next]_vars
  PROVE  RegistryTypes' /\ RegistryOK'
<1>1. ASSUME UNCHANGED sessions, Untouched PROVE RegistryTypes' /\ RegistryOK'
  BY <1>1, SameSessions, UntouchedKeeps
<1>2. ASSUME NEW request \in BOOLEAN, BeginPass(request) PROVE UNCHANGED sessions /\ Untouched
  BY <1>2 DEF BeginPass, leaseVars, worldVars, Untouched
<1>3. ASSUME NEW s \in Sessions, NEW e \in Endpoints, ExpireOne(s, e)
      PROVE  RegistryTypes' /\ RegistryOK'
  BY <1>3, LeaveKeeps DEF ExpireOne, RegistryTypes, Types
<1>4. ASSUME EndExpire \/ EndRetry PROVE UNCHANGED sessions /\ Untouched
  BY <1>4 DEF EndExpire, EndRetry, leaseVars, worldVars, Untouched
<1>5. ASSUME NEW e \in Endpoints, RetryOne(e) PROVE UNCHANGED sessions /\ Untouched
  BY <1>5 DEF RetryOne, L!Reconcile, leaseVars, worldVars, Untouched
<1>6. CASE Exit
  BY <1>6, ForgetKeeps DEF Exit, L!Exit, L!LoseMemory
<1>7. CASE Restart
  BY <1>1, <1>7 DEF Restart, L!Restart, worldVars, Untouched
<1>8. CASE Tick
  <2>1. /\ Untouched
        /\ sessions' = [s \in Sessions |->
             IF sessions[s] # NoLease /\ sessions[s].age <= LeaseTTL
             THEN [sessions[s] EXCEPT !.age = @ + 1] ELSE sessions[s]]
    BY <1>8 DEF Tick, L!Tick, worldVars, Untouched
  <2>2. ASSUME NEW s \in Sessions
        PROVE  /\ sessions'[s] = NoLease <=> sessions[s] = NoLease
               /\ sessions[s] # NoLease =>
                    /\ sessions'[s].endpoint = sessions[s].endpoint
                    /\ sessions'[s].user = sessions[s].user
                    /\ sessions'[s].identity = sessions[s].identity
    <3>1. CASE sessions[s] # NoLease /\ sessions[s].age <= LeaseTTL
      <4>1. sessions[s] \in L!Lease
        BY <3>1 DEF Types
      <4>2. PICK l : l = [sessions[s] EXCEPT !.age = @ + 1]
        OBVIOUS
      <4>3. /\ l \in L!Lease /\ l.endpoint = sessions[s].endpoint
            /\ l.user = sessions[s].user /\ l.identity = sessions[s].identity
        BY <3>1, <4>1, <4>2, RegistryAssumption DEF L!Lease
      <4>4. sessions'[s] = l
        BY <2>1, <3>1, <4>2
      <4>5. QED
        BY <3>1, <4>3, <4>4, RegistryAssumption
    <3>2. CASE ~(sessions[s] # NoLease /\ sessions[s].age <= LeaseTTL)
      BY <2>1, <3>2
    <3>3. QED
      BY <3>1, <3>2
  <2>3. \A t \in Unmanaged : KeyedLeases(t)' = KeyedLeases(t)
    BY <2>2, AgeFacts DEF Unmanaged
  <2>4. QED
    BY <2>1, <2>3, UntouchedKeeps
<1>9. ASSUME NEW s \in Sessions, Die(s) PROVE UNCHANGED sessions /\ Untouched
  BY <1>9 DEF Die, leaseVars, Untouched
<1>10. ASSUME NEW e \in Endpoints, TunnelDies(e) PROVE UNCHANGED sessions /\ Untouched
  BY <1>10 DEF TunnelDies, L!TunnelDies, worldVars, Untouched
<1>11. CASE UNCHANGED vars
  BY <1>1, <1>11 DEF vars, leaseVars, worldVars, Untouched
<1>12. CASE Dispatch
  BY <1>12, DispatchKeeps
<1>13. ASSUME NEW t \in Targets, LoseStart(t) PROVE RegistryTypes' /\ RegistryOK'
  BY <1>13, MissedStartKeeps DEF LoseStart, leaseVars
<1>14. QED
  BY <1>1, <1>2, <1>3, <1>4, <1>5, <1>6, <1>7, <1>8, <1>9, <1>10, <1>11, <1>12, <1>13
     DEF Next, Serve

-----------------------------------------------------------------------------
(* The steps of the process, as to the snapshots.                          *)

LoopInv == LoopOK /\ SnapshotsHold

(* No lease and no endpoint leaves a snapshot but by its own visit.        *)
LEMMA ListedStay ==
  ASSUME LoopInv, UNCHANGED <<pc, expiring, retrying>>, running' = running,
         \A s \in expiring : sessions'[s] = sessions[s],
         \A e \in retrying : endpoints'[e] = endpoints[e]
  PROVE  LoopInv'
BY DEF LoopInv, LoopOK, SnapshotsHold, StaleSessions, DueEndpoints, L!Stale, L!Due

(* A pass snapshots what is so, and takes off what it visits.              *)
LEMMA PassKeeps ==
  ASSUME Types, LoopInv,
         \/ \E request \in BOOLEAN : BeginPass(request)
         \/ \E s \in Sessions, e \in Endpoints : ExpireOne(s, e)
         \/ EndExpire
         \/ \E e \in Endpoints : RetryOne(e)
         \/ EndRetry
  PROVE  LoopInv'
<1>1. ASSUME NEW request \in BOOLEAN, BeginPass(request) PROVE LoopInv'
  BY <1>1 DEF BeginPass, leaseVars, LoopInv, LoopOK, SnapshotsHold, StaleSessions, L!Stale
<1>2. ASSUME NEW s \in Sessions, NEW e \in Endpoints, ExpireOne(s, e) PROVE LoopInv'
  <2>1. /\ pc = "expire" /\ retrying = {} /\ running' = running
        /\ UNCHANGED <<pc, retrying>> /\ expiring' = expiring \ {s}
        /\ sessions' = [sessions EXCEPT ![s] = NoLease]
    BY <1>2 DEF ExpireOne, ReleaseLease, L!Release, L!Drop, LoopInv, LoopOK
  <2>2. \A x \in Sessions \ {s} : sessions'[x] = sessions[x]
    BY <2>1 DEF Types
  <2>3. QED
    BY <2>1, <2>2 DEF LoopInv, LoopOK, SnapshotsHold, StaleSessions, L!Stale
<1>3. CASE EndExpire
  BY <1>3 DEF EndExpire, leaseVars, LoopInv, LoopOK, SnapshotsHold, DueEndpoints, L!Due
<1>4. ASSUME NEW e \in Endpoints, RetryOne(e) PROVE LoopInv'
  <2>1. /\ pc = "retry" /\ expiring = {} /\ running' = running
        /\ UNCHANGED <<pc, expiring>> /\ retrying' = retrying \ {e}
        /\ \A x \in Endpoints \ {e} : endpoints'[x] = endpoints[x]
    BY <1>4 DEF RetryOne, L!Reconcile, L!Settle, leaseVars, LoopInv, LoopOK, Types
  <2>2. QED
    BY <2>1 DEF LoopInv, LoopOK, SnapshotsHold, DueEndpoints, L!Due
<1>5. CASE EndRetry
  BY <1>5 DEF EndRetry, leaseVars, LoopInv, LoopOK, SnapshotsHold
<1>6. QED
  BY <1>1, <1>2, <1>3, <1>4, <1>5

(* Every step of the process; time makes no stale lease fresh.             *)
LEMMA LoopKeeps ==
  ASSUME Types, LoopInv, [Next]_vars
  PROVE  LoopInv'
<1>1. CASE Serve /\ ~Dispatch
  BY <1>1, PassKeeps DEF Serve
<1>2. CASE Dispatch
  BY <1>2 DEF Dispatch, LoopInv, LoopOK, SnapshotsHold
<1>3. CASE Exit
  BY <1>3 DEF Exit, LoopInv, LoopOK, SnapshotsHold
<1>4. CASE Restart
  BY <1>4 DEF Restart, L!Restart, LoopInv, LoopOK, SnapshotsHold
<1>5. CASE Tick
  <2>1. /\ UNCHANGED <<pc, expiring, retrying, running>>
        /\ sessions' = [s \in Sessions |->
             IF sessions[s] # NoLease /\ sessions[s].age <= LeaseTTL
             THEN [sessions[s] EXCEPT !.age = @ + 1] ELSE sessions[s]]
        /\ endpoints' = [e \in Endpoints |->
             IF endpoints[e] # NoRecord /\ endpoints[e].wait > 0
             THEN [endpoints[e] EXCEPT !.wait = @ - 1] ELSE endpoints[e]]
    BY <1>5 DEF Tick, L!Tick, loopVars
  <2>2. ASSUME NEW s \in expiring PROVE sessions'[s] = sessions[s]
    <3>1. s \in Sessions /\ sessions[s] \in L!Lease /\ sessions[s].age > LeaseTTL
      BY DEF LoopInv, SnapshotsHold, StaleSessions, L!Stale, Types
    <3>2. ~(sessions[s].age <= LeaseTTL)
      BY <3>1, RegistryAssumption DEF L!Lease
    <3>3. QED
      BY <2>1, <3>1, <3>2
  <2>3. ASSUME NEW e \in retrying PROVE endpoints'[e] = endpoints[e]
    <3>1. e \in Endpoints /\ ~(endpoints[e].wait > 0)
      BY DEF LoopInv, SnapshotsHold, DueEndpoints, L!Due
    <3>2. QED
      BY <2>1, <3>1
  <2>4. QED
    BY <2>1, <2>2, <2>3, ListedStay
<1>6. ASSUME NEW s \in Sessions, Die(s) PROVE LoopInv'
  BY <1>6, ListedStay DEF Die, leaseVars, loopVars
<1>7. ASSUME NEW e \in Endpoints, TunnelDies(e) PROVE LoopInv'
  BY <1>7, ListedStay DEF TunnelDies, L!TunnelDies, loopVars
<1>8. ASSUME NEW t \in Targets, LoseStart(t) PROVE LoopInv'
  BY <1>8, ListedStay DEF LoseStart, leaseVars, loopVars
<1>9. CASE UNCHANGED vars
  BY <1>9, ListedStay DEF vars, leaseVars, loopVars
<1>10. QED
  BY <1>1, <1>2, <1>3, <1>4, <1>5, <1>6, <1>7, <1>8, <1>9 DEF Next

-----------------------------------------------------------------------------
(* The theorems                                                            *)

(* Nothing is used at first.                                               *)
LEMMA InitInv == Init => IInv
<1> SUFFICES ASSUME Init PROVE IInv
  OBVIOUS
<1>1. Types
  BY DEF Init, L!Init, T!Init, Types, T!TypeOK
<1>2. LoopOK /\ SnapshotsHold
  BY DEF Init, L!Init, LoopOK, SnapshotsHold
<1>3. ASSUME NEW t \in Unmanaged PROVE CountAt(t) /\ CallbackAt(t)
  <2>1. KeyedLeases(t) = {} /\ codex[t] = 0
    BY DEF Init, L!Init, KeyedLeases, L!LeasesOn, Unmanaged
  <2>2. Uses(t) = 0
    BY <2>1, FS_EmptySet DEF Uses
  <2>3. ~T!Registered(t) /\ callback # t
    BY RegistryAssumption DEF Init, T!Init, T!Registered, Unmanaged
  <2>4. QED
    BY <2>2, <2>3 DEF CountAt, CallbackAt
<1>4. QED
  BY <1>1, <1>2, <1>3 DEF IInv, RegistryOK

(* The invariant is inductive.                                             *)
LEMMA NextInv == IInv /\ [Next]_vars => IInv'
<1> SUFFICES ASSUME IInv, [Next]_vars PROVE IInv'
  OBVIOUS
<1>1. AliveAreSessions'
  BY AliveStays DEF IInv, Types, AliveAreSessions
<1>2. [L!Next]_(L!leaseVars)
  BY NextRefined DEF IInv, Types, AliveAreSessions
<1>3. Types'
  BY <1>1, <1>2, TableTypes, RegistryKeeps
     DEF IInv, Types, RegistryTypes, AliveAreSessions
<1>4. QED
  BY <1>3, RegistryKeeps, LoopKeeps DEF IInv, LoopInv

(* Hence it holds always.                                                  *)
LEMMA Invariance == Spec => []IInv
BY InitInv, NextInv, PTL DEF Spec

(* It gives the three properties of the registry.                          *)
LEMMA IInvFacts ==
  ASSUME IInv
  PROVE  TargetCountMatches /\ CallbackIsShown /\ QuietTargetFreesCallback
<1>1. ASSUME NEW t \in Unmanaged
      PROVE  /\ CountAt(t) /\ CallbackAt(t)
             /\ Uses(t) = 0 <=> KeyedLeases(t) = {} /\ codex[t] = 0
  BY <1>1, KeyedFacts DEF IInv, RegistryOK, Types, Uses, Unmanaged
<1>2. TargetCountMatches
  <2>1. ASSUME NEW t \in Unmanaged
        PROVE  /\ Uses(t) \in Nat
               /\ T!Registered(t) => targets[t].count \in Nat
    BY <2>1, KeyedFacts DEF IInv, Types, T!TypeOK, T!Status, T!Registered, Uses, Unmanaged
  <2>2. ASSUME NEW t \in Unmanaged, t \notin missed
        PROVE  IF T!Registered(t) THEN targets[t].count = Uses(t) ELSE Quiet(t)
    BY <1>1, <2>1, <2>2 DEF CountAt, Quiet
  <2>3. QED
    BY <1>1, <2>2 DEF TargetCountMatches, CountAt, Uses, Unmanaged
<1>3. CallbackIsShown
  BY <1>1 DEF CallbackIsShown, CallbackAt, Unmanaged
<1>4. QuietTargetFreesCallback
  <2>1. SUFFICES ASSUME ~Cleanups, NEW t \in Unmanaged,
                        Quiet(t), callback = t
                 PROVE  FALSE
    BY DEF QuietTargetFreesCallback, Unmanaged
  <2>2. Uses(t) = 0 /\ Uses(t) > 0
    BY <1>1, <2>1 DEF CallbackAt, Quiet
  <2>3. QED
    BY <2>2
<1>5. QED
  BY <1>2, <1>3, <1>4

(* The passes of serve() and handle() never release a fresh lease or       *)
(* restart a tunnel that is not due, although their snapshots are as old   *)
(* as the starts and stops they have waited for.                           *)
THEOREM SnapshotsAreCurrent == Spec => []SnapshotsHold
BY Invariance, PTL DEF IInv

(* Joins, leaves, CODEX_START and CODEX_EXIT in any order, with starts     *)
(* that are lost or refused and tables that are lost, never take the one   *)
(* counter of a target above its leases with keys plus its Codex           *)
(* processes, and it is wrong for no longer than the target is in use.     *)
THEOREM TargetCountIsRight == Spec => []TargetCountMatches
BY Invariance, IInvFacts, PTL

(* The target that holds the one callback is registered, has a key and     *)
(* says so in its status.                                                  *)
THEOREM CallbackIsVisible == Spec => []CallbackIsShown
BY Invariance, IInvFacts, PTL

(* The callback is not held for a target that nobody uses.                 *)
THEOREM CallbackIsFreed == Spec => []QuietTargetFreesCallback
BY Invariance, IInvFacts, PTL

-----------------------------------------------------------------------------
(* The callback that is kept                                               *)

(* The target keeps its lease with a key, and two uses at least.           *)
StillUsed(t) ==
  /\ t \in Unmanaged
  /\ callback = t
  /\ t \notin missed
  /\ KeyedLeases(t)' # {}
  /\ Uses(t)' >= 2

(* A departure ends the callback of the leaver's target only, and only     *)
(* with the last use or the last lease of the endpoint.                    *)
LEMMA LeaveSpares ==
  ASSUME IInv, L!CountMatchesLeases, NEW s \in Sessions, NEW e \in Endpoints,
         ReleaseLease(s, e), UNCHANGED codex, NEW t, StillUsed(t)
  PROVE  callback' = t
<1>1. /\ s \in L!LeasesOn(e) /\ sessions[s] # NoLease /\ sessions[s].endpoint = e
      /\ sessions' = [sessions EXCEPT ![s] = NoLease]
  BY DEF ReleaseLease, L!Release, L!Drop, L!LeasesOn
<1>2. PICK tt \in Targets : tt = <<e, sessions[s].user>>
  BY <1>1 DEF IInv, Types, L!Lease, Targets
<1>3. PICK keyed \in BOOLEAN : keyed = sessions[s].identity
  BY <1>1 DEF IInv, Types, L!Lease
<1>4. T!Leave(tt, keyed, endpoints[e].count = 1)
  BY <1>2, <1>3 DEF ReleaseLease
<1>5. t \in Targets /\ callback = t
  BY DEF StillUsed, Unmanaged
<1>6. CASE t # tt
  BY <1>4, <1>5, <1>6 DEF T!Leave, T!Finished
<1>7. CASE t = tt
  <2>1. endpoints[e].count # 1
    <3>1. SUFFICES ASSUME endpoints[e].count = 1 PROVE KeyedLeases(t)' = {}
      BY DEF StillUsed
    <3>2. L!LeasesOn(e) = {s}
      <4>1. /\ IsFiniteSet(L!LeasesOn(e)) /\ {s} \subseteq L!LeasesOn(e)
        BY <1>1, RegistryAssumption, FS_Subset DEF L!LeasesOn
      <4>2. Cardinality(L!LeasesOn(e)) = 1
        BY <1>1, <3>1 DEF L!CountMatchesLeases, L!Cardinality, Cardinality
      <4>3. QED
        BY <4>1, <4>2, FS_Subset, FS_Singleton
    <3>3. \A x \in Sessions : x # s => sessions'[x] = sessions[x]
      BY <1>1 DEF IInv, Types
    <3>4. sessions'[s] = NoLease
      BY <1>1 DEF IInv, Types
    <3>5. t[1] = e
      BY <1>2, <1>7
    <3>6. QED
      BY <3>2, <3>3, <3>4, <3>5 DEF KeyedLeases, L!LeasesOn
  <2>2. ~(keyed /\ T!LastCount(t))
    <3>1. SUFFICES ASSUME keyed, T!Registered(t), targets[t].count <= 1 PROVE FALSE
      BY DEF T!LastCount
    <3>2. Cardinality(KeyedLeases(t))' = Cardinality(KeyedLeases(t)) - 1
      BY <1>1, <1>2, <1>3, <1>5, <1>7, <3>1, GoneFacts DEF IInv
    <3>3. Cardinality(KeyedLeases(t)) \in Nat /\ codex[t] \in Nat /\ codex'[t] = codex[t]
      BY <1>5, KeyedFacts DEF IInv, Types
    <3>4. Uses(t) > 2 /\ Uses(t) \in Nat
      BY <3>2, <3>3 DEF StillUsed, Uses
    <3>5. targets[t].count = Uses(t)
      BY <3>4 DEF IInv, RegistryOK, CountAt, StillUsed
    <3>6. QED
      BY <3>1, <3>3, <3>4, <3>5 DEF Uses
  <2>3. QED
    BY <1>4, <1>5, <1>7, <2>1, <2>2 DEF T!Leave
<1>8. QED
  BY <1>6, <1>7

(* An exit of Codex ends it at "SSH + Codex" and below only.               *)
LEMMA ExitSpares ==
  ASSUME IInv, NEW tt \in Targets, codex[tt] > 0,
         IF T!Registered(tt) THEN T!CodexExit(tt) ELSE UNCHANGED targetVars,
         codex' = [codex EXCEPT ![tt] = @ - 1], UNCHANGED sessions,
         NEW t, StillUsed(t)
  PROVE  callback' = t
<1>1. t \in Unmanaged /\ t \in Targets /\ callback = t /\ t \notin missed
  BY DEF StillUsed, Unmanaged
<1>2. CASE ~T!Registered(tt) \/ t # tt
  BY <1>1, <1>2 DEF T!CodexExit, T!Finished, targetVars
<1>3. CASE T!Registered(tt) /\ t = tt
  <2>1. KeyedLeases(t)' = KeyedLeases(t)
    BY DEF KeyedLeases, L!LeasesOn
  <2>2. Cardinality(KeyedLeases(t)) \in Nat /\ codex[t] \in Nat
    BY <1>1, KeyedFacts DEF IInv, Types
  <2>3. codex'[t] = codex[t] - 1
    BY <1>1, <1>3 DEF IInv, Types
  <2>4. Uses(t) > 2 /\ Uses(t) \in Nat
    BY <2>1, <2>2, <2>3 DEF StillUsed, Uses
  <2>5. targets[t].count = Uses(t)
    BY <1>1, <2>4 DEF IInv, RegistryOK, CountAt
  <2>6. ~(targets[t].count <= 2)
    BY <2>4, <2>5
  <2>7. QED
    BY <1>1, <1>3, <2>6 DEF T!CodexExit
<1>4. QED
  BY <1>2, <1>3

(* No other step ends it while a lease with a key is left.                 *)
LEMMA StepSpares ==
  ASSUME IInv, L!CountMatchesLeases, [Next]_vars, NEW t, StillUsed(t)
  PROVE  callback' = t
<1>1. callback = t /\ t \in Targets /\ KeyedLeases(t)' # {}
  BY DEF StillUsed, Unmanaged
<1>2. ASSUME UNCHANGED targetVars PROVE callback' = t
  BY <1>1, <1>2 DEF targetVars
<1>3. ASSUME sessions' = [s \in Sessions |-> NoLease] PROVE FALSE
  BY <1>1, <1>3 DEF KeyedLeases, L!LeasesOn
<1>4. ASSUME NEW s \in Sessions, NEW e \in Endpoints, ExpireOne(s, e) PROVE callback' = t
  BY <1>4, LeaveSpares DEF ExpireOne
<1>5. CASE LeaseRequest
  <2>1. PICK s \in Sessions, e \in Endpoints :
          \/ \E p \in Profiles : AcquireLease(s, e, p)
          \/ ReacquireLease(s, e)
          \/ HeartbeatLease(s, e)
          \/ ReleaseLease(s, e)
    BY <1>5 DEF LeaseRequest, IInv, Types
  <2>2. UNCHANGED codex
    BY <1>5 DEF LeaseRequest
  <2>3. ASSUME NEW p \in Profiles, AcquireLease(s, e, p) PROVE callback' = t
    BY <1>1, <2>3 DEF AcquireLease, T!Join, targetVars
  <2>4. CASE ReacquireLease(s, e)
    BY <1>2, <1>3, <2>4 DEF ReacquireLease, L!Reacquire, L!LoseMemory
  <2>5. CASE HeartbeatLease(s, e)
    BY <1>2, <2>5 DEF HeartbeatLease
  <2>6. CASE ReleaseLease(s, e)
    BY <2>2, <2>6, LeaveSpares
  <2>7. QED
    BY <2>1, <2>3, <2>4, <2>5, <2>6
<1>6. CASE TargetRequest
  BY <1>1, <1>6 DEF TargetRequest, T!Register, T!Unregister
<1>7. CASE CodexRequest
  <2>1. UNCHANGED sessions
    BY <1>7 DEF CodexRequest, leaseVars
  <2>2. PICK tt \in Targets :
          \/ T!CodexStart(tt)
          \/ UNCHANGED targetVars
          \/ T!CodexOAuthUrl(tt)
          \/ /\ codex[tt] > 0
             /\ IF T!Registered(tt) THEN T!CodexExit(tt) ELSE UNCHANGED targetVars
             /\ codex' = [codex EXCEPT ![tt] = @ - 1]
    BY <1>7 DEF CodexRequest
  <2>3. CASE T!CodexStart(tt)
    <3>1. callback' \in T!CallbackAfterStart(tt) /\ callback # NoCallback
      BY <1>1, <2>3, RegistryAssumption DEF T!CodexStart
    <3>2. QED
      BY <1>1, <3>1 DEF T!CallbackAfterStart
  <2>4. CASE T!CodexOAuthUrl(tt)
    BY <1>1, <2>4 DEF T!CodexOAuthUrl
  <2>5. QED
    BY <1>2, <2>1, <2>2, <2>3, <2>4, ExitSpares
<1>8. CASE CleanupRequest \/ Exit
  BY <1>3, <1>8 DEF CleanupRequest, L!Cleanup, Exit, L!Exit, L!LoseMemory
<1>9. CASE Dispatch
  BY <1>2, <1>5, <1>6, <1>7, <1>8, <1>9 DEF Dispatch, Inquiry
<1>10. CASE Serve /\ ~Dispatch
  BY <1>2, <1>4, <1>10 DEF Serve, BeginPass, EndExpire, RetryOne, EndRetry
<1>11. CASE Next /\ ~Serve
  BY <1>2, <1>8, <1>11 DEF Next, Restart, Tick, Die, LoseStart, TunnelDies
<1>12. CASE UNCHANGED vars
  BY <1>2, <1>12 DEF vars
<1>13. QED
  BY <1>9, <1>10, <1>11, <1>12

(* The counter tells "SSH + Codex" from more participants, and one target  *)
(* from another: nobody's departure takes the callback from those who stay *)
(* with a lease and at least one more use of their target.                 *)
THEOREM CallbackStays == Spec => CallbackIsKept
<1>1. ASSUME IInv, L!CountMatchesLeases, [Next]_vars
      PROVE  \A t \in Targets \ ManagedTargets :
               /\ callback = t
               /\ t \notin missed
               /\ KeyedLeases(t)' # {}
               /\ Cardinality(KeyedLeases(t)') + codex'[t] >= 2
               => callback' = t
  BY <1>1, StepSpares DEF StillUsed, Uses, Unmanaged
<1>2. Spec => []L!CountMatchesLeases
  BY TableIsRight, PTL
<1>3. QED
  BY <1>1, <1>2, Invariance, PTL DEF Spec, CallbackIsKept

-----------------------------------------------------------------------------
(* The types                                                               *)

(* What Types leaves open: L!TypeOK, which OrchestratorProofs has, and the *)
(* variables that nothing above depends on.                                *)
LoopTypes ==
  /\ pc \in {"select", "expire", "retry", "dispatch", "down"}
  /\ answering \in BOOLEAN
  /\ codex \in [Targets -> 0..MaxCodex]
  /\ missed \subseteq Targets

(* A Codex only starts below the bound.                                    *)
LEMMA BeginTyped ==
  ASSUME LoopTypes, NEW t \in Targets, Begin(t)
  PROVE  codex' \in [Targets -> 0..MaxCodex]
<1>1. codex[t] \in 0..MaxCodex /\ MaxCodex \in Nat /\ codex[t] < MaxCodex
  BY RegistryAssumption DEF LoopTypes, Begin
<1>2. PICK n \in 0..MaxCodex : n = codex[t] + 1
  BY <1>1
<1>3. codex' = [codex EXCEPT ![t] = n]
  BY <1>2 DEF Begin
<1>4. QED
  BY <1>3 DEF LoopTypes

(* Events keep the bound too: a Codex only ends where one runs.            *)
LEMMA CodexTyped ==
  ASSUME LoopTypes, CodexRequest
  PROVE  codex' \in [Targets -> 0..MaxCodex] /\ missed' \subseteq Targets
<1>1. PICK t \in Targets :
        \/ codex[t] < MaxCodex /\ codex' = [codex EXCEPT ![t] = @ + 1]
        \/ codex' = codex
        \/ codex[t] > 0 /\ codex' = [codex EXCEPT ![t] = @ - 1]
  BY DEF CodexRequest, Begin
<1>2. codex[t] \in 0..MaxCodex /\ MaxCodex \in Nat
  BY RegistryAssumption DEF LoopTypes
<1>3. PICK n : n = codex'[t]
  OBVIOUS
<1>4. n \in 0..MaxCodex
  BY <1>1, <1>2, <1>3 DEF LoopTypes
<1>5. codex' = [codex EXCEPT ![t] = n]
  BY <1>1, <1>3 DEF LoopTypes
<1>6. missed' \subseteq Targets
  BY DEF CodexRequest, LoopTypes, Miss
<1>7. QED
  BY <1>4, <1>5, <1>6 DEF LoopTypes

(* The other variables of the loop and the world.                          *)
LEMMA LoopTyped ==
  ASSUME LoopTypes, [Next]_vars
  PROVE  LoopTypes'
<1>1. ASSUME NEW request \in BOOLEAN, BeginPass(request) PROVE LoopTypes'
  BY <1>1 DEF BeginPass, worldVars, LoopTypes
<1>2. ASSUME NEW s \in Sessions, NEW e \in Endpoints, ExpireOne(s, e) PROVE LoopTypes'
  BY <1>2 DEF ExpireOne, ReleaseLease, Miss, LoopTypes
<1>3. CASE EndExpire
  BY <1>3 DEF EndExpire, worldVars, LoopTypes
<1>4. ASSUME NEW e \in Endpoints, RetryOne(e) PROVE LoopTypes'
  BY <1>4 DEF RetryOne, worldVars, LoopTypes
<1>5. CASE EndRetry
  BY <1>5 DEF EndRetry, worldVars, LoopTypes
<1>6. CASE Dispatch
  <2>1. pc' \in {"select", "down"} /\ answering' = answering
    BY <1>6 DEF Dispatch
  <2>2. CASE LeaseRequest
    <3>1. codex' = codex /\ missed' \subseteq Targets
      BY <2>2 DEF LeaseRequest, AcquireLease, ReacquireLease, HeartbeatLease,
                  ReleaseLease, Miss, LoopTypes
    <3>2. QED
      BY <2>1, <3>1 DEF LoopTypes
  <2>3. CASE TargetRequest \/ Inquiry
    BY <2>1, <2>3 DEF TargetRequest, Inquiry, worldVars, LoopTypes
  <2>4. CASE CodexRequest
    BY <2>1, <2>4, CodexTyped DEF LoopTypes
  <2>5. CASE CleanupRequest
    BY <2>1, <2>5 DEF CleanupRequest, Miss, LoopTypes
  <2>6. QED
    BY <1>6, <2>2, <2>3, <2>4, <2>5 DEF Dispatch
<1>7. CASE Exit
  BY <1>7 DEF Exit, Miss, LoopTypes
<1>8. CASE Restart
  BY <1>8 DEF Restart, worldVars, LoopTypes
<1>9. CASE Tick
  BY <1>9 DEF Tick, loopVars, worldVars, LoopTypes
<1>10. ASSUME NEW s \in Sessions, Die(s) PROVE LoopTypes'
  BY <1>10 DEF Die, loopVars, LoopTypes
<1>11. ASSUME NEW e \in Endpoints, TunnelDies(e) PROVE LoopTypes'
  BY <1>11 DEF TunnelDies, loopVars, worldVars, LoopTypes
<1>12. ASSUME NEW t \in Targets, LoseStart(t) PROVE LoopTypes'
  <2>1. codex' \in [Targets -> 0..MaxCodex]
    BY <1>12, BeginTyped DEF LoseStart
  <2>2. QED
    BY <1>12, <2>1 DEF LoseStart, loopVars, Miss, LoopTypes
<1>13. CASE UNCHANGED vars
  BY <1>13 DEF vars, loopVars, worldVars, LoopTypes
<1>14. QED
  BY <1>1, <1>2, <1>3, <1>4, <1>5, <1>6, <1>7, <1>8, <1>9, <1>10, <1>11, <1>12, <1>13
     DEF Next, Serve

(* Every variable of the server keeps its type: the records of the lease   *)
(* table, the statuses of the registry, the snapshots of the passes, which *)
(* list sessions and endpoints only, and the bounded Codex processes.      *)
THEOREM TypeCorrect == Spec => []TypeOK
<1>1. ASSUME Init PROVE LoopTypes
  <2>1. 0 \in 0..MaxCodex
    BY RegistryAssumption
  <2>2. codex \in [Targets -> 0..MaxCodex]
    BY <1>1, <2>1 DEF Init
  <2>3. answering = FALSE /\ missed = {} /\ pc = "select"
    BY <1>1 DEF Init
  <2>4. QED
    BY <2>2, <2>3 DEF LoopTypes
<1>2. Spec => []LoopTypes
  BY <1>1, LoopTyped, PTL DEF Spec
<1>3. IInv /\ LoopTypes /\ L!TypeOK => TypeOK
  BY DEF IInv, Types, LoopTypes, SnapshotsHold, StaleSessions, DueEndpoints, TypeOK
<1>4. QED
  BY <1>2, <1>3, Invariance, TableTypeCorrect, PTL
=============================================================================
