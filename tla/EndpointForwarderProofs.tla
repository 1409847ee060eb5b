------------------------ MODULE EndpointForwarderProofs ------------------------
(***************************************************************************)
(* The safety properties of EndpointForwarder, for any set of users, and   *)
(* that it implements EndpointStart.                                       *)
(***************************************************************************)
EXTENDS EndpointForwarder, TLAPS

(* What start() has done so far, from its locals and its position.         *)
CallInv ==
  call # NoCall =>
    /\ up
    /\ record # NoRecord
    /\ call.done.event = call.event
    /\ call.failed.state = "DEGRADED"
    /\ ~call.proxy => external /\ eventOnly
    /\ call.at \in {"check", "probe", "inspect", "write"} => file = call.old
    /\ call.at \in {"launch", "confirm"} => file = Text

(* The manager's memory: no lease, no endpoint in _external; an event-only *)
(* unit is there only while the endpoint is in both sets.                  *)
MemoryInv ==
  /\ record = NoRecord => ~external
  /\ ~up => record = NoRecord /\ call = NoCall
  /\ up /\ file # NoUnit /\ ~file.proxy => external /\ eventOnly

IInv == TypeOK /\ CallInv /\ MemoryInv /\ EventLegIsOurs

-----------------------------------------------------------------------------
(* The remote side, systemd and ssh leave the server's part alone.         *)
LEMMA EnvironmentKeeps ==
  ASSUME TypeOK, Environment
  PROVE  TypeOK' /\ UNCHANGED <<file, memory, record, call, up>>
<1> USE AbsentAssumption DEF TypeOK, memory
<1>1. CASE Bind
  BY <1>1 DEF Bind
<1>2. CASE SshEnds
  BY <1>2 DEF SshEnds, PortAfterSsh
<1>3. CASE AutoRestart
  BY <1>3 DEF AutoRestart
<1>4. CASE GivesUp
  BY <1>4 DEF GivesUp
<1>5. CASE StopJobEnds
  BY <1>5 DEF StopJobEnds, PortAfterSsh
<1>6. CASE PortChanges
  BY <1>6 DEF PortChanges
<1>7. QED
  BY <1>1, <1>2, <1>3, <1>4, <1>5, <1>6 DEF Environment

(* A request of the server begins a start, with the record untouched or    *)
(* new, or is the last release.                                            *)
LEMMA BeginKeeps ==
  ASSUME IInv, NEW u \in Users, NEW e \in BOOLEAN,
         NEW done \in Record, NEW failed \in Record,
         Begin(u, e, done, failed), done.event = e, failed.state = "DEGRADED",
         record' \in Record
  PROVE  IInv'
<1> USE AbsentAssumption DEF IInv, TypeOK, Begin, environment, memory
<1>1. call' \in Call
  BY DEF Call, Steps
<1>2. TypeOK'
  BY <1>1
<1>3. CallInv'
  BY DEF CallInv
<1>4. MemoryInv'
  BY DEF MemoryInv
<1>5. EventLegIsOurs'
  BY <1>1 DEF EventLegIsOurs, Idle
<1>6. QED
  BY <1>2, <1>3, <1>4, <1>5

LEMMA StopKeeps == IInv /\ Stop => IInv'
<1> SUFFICES ASSUME IInv, Stop PROVE IInv'
  OBVIOUS
<1> USE AbsentAssumption
    DEF IInv, TypeOK, Stop, Remove, AfterStop, environment, memory
<1>1. TypeOK'
  <2>1. CASE Remove /\ eventOnly' \in BOOLEAN
    <3>1. file' = NoUnit /\ UNCHANGED <<ssh, port, call, up>>
      BY <2>1
    <3>2. /\ service' \in {"inactive", "stopping"}
          /\ (service' = "stopping") = (service \in {"active", "stopping"})
      BY <2>1
    <3>3. (ssh' # NoUnit) = (service' \in {"active", "stopping"})
      <4>1. (ssh # NoUnit) <=> service \in {"active", "stopping"}
        OBVIOUS
      <4>2. QED
        BY <3>1, <3>2, <4>1
    <3>4. record' = NoRecord /\ external' \in BOOLEAN
      OBVIOUS
    <3>5. QED
      BY <2>1, <3>1, <3>2, <3>3, <3>4
  <2>2. CASE UNCHANGED <<file, environment, eventOnly>>
    BY <2>2
  <2>3. QED
    BY <2>1, <2>2
<1>2. CallInv'
  BY DEF CallInv
<1>3. MemoryInv'
  BY DEF MemoryInv
<1>4. EventLegIsOurs'
  BY DEF EventLegIsOurs, Idle
<1>5. QED
  BY <1>1, <1>2, <1>3, <1>4

LEMMA RequestKeeps == IInv /\ Request => IInv'
<1> SUFFICES ASSUME IInv, Request PROVE IInv'
  OBVIOUS
<1>1. record # NoRecord => record \in Record
  BY DEF IInv, TypeOK
<1>2. \A r \in Record : Degraded(r) \in Record /\ Degraded(r).state = "DEGRADED"
  BY DEF Record, Degraded
<1>3. CASE Stop
  BY <1>3, StopKeeps
<1>4. ASSUME NEW u \in Users, NEW e \in BOOLEAN, FirstStart(u, e)
      PROVE  IInv'
  <2> DEFINE r == [state |-> "STARTING", owner |-> u, event |-> e]
             done == [r EXCEPT !.state = "READY"]
  <2>1. r \in Record /\ done \in Record /\ done.event = e
    BY DEF Record
  <2>2. Begin(u, e, done, Degraded(r)) /\ record' = r
    BY <1>4 DEF FirstStart
  <2> HIDE DEF r, done
  <2>3. QED
    BY <1>2, <2>1, <2>2, BeginKeeps
<1>5. ASSUME NEW u \in Users, NEW e \in BOOLEAN, Retune(u, e)
      PROVE  IInv'
  <2> DEFINE done == [record EXCEPT !.event = e]
  <2>1. record \in Record
    BY <1>1, <1>5 DEF Retune
  <2>2. done \in Record /\ done.event = e
    BY <2>1 DEF Record
  <2>3. Begin(u, e, done, Degraded(record)) /\ record' = record
    BY <1>5 DEF Retune
  <2> HIDE DEF done
  <2>4. QED
    BY <1>2, <2>1, <2>2, <2>3, BeginKeeps
<1>6. ASSUME NEW u \in Users, NEW e \in BOOLEAN, TakeOver(u, e)
      PROVE  IInv'
  <2> DEFINE r == [record EXCEPT !.owner = u, !.event = e]
             done == [r EXCEPT !.state = "READY"]
  <2>1. record \in Record
    BY <1>1, <1>6 DEF TakeOver
  <2>2. r \in Record /\ done \in Record /\ done.event = e
    BY <2>1 DEF Record
  <2>3. Begin(u, e, done, Degraded(r)) /\ record' = record
    BY <1>6 DEF TakeOver
  <2> HIDE DEF r, done
  <2>4. QED
    BY <1>2, <2>1, <2>2, <2>3, BeginKeeps
<1>7. ASSUME NEW u \in Users, NEW e \in BOOLEAN, Retry(u, e)
      PROVE  IInv'
  <2> DEFINE done == [record EXCEPT !.owner = u, !.state = "READY"]
  <2>1. record \in Record /\ record.event = e
    BY <1>1, <1>7 DEF Retry
  <2>2. done \in Record /\ done.event = e
    BY <2>1 DEF Record
  <2>3. Begin(u, e, done, Degraded(record)) /\ record' = record
    BY <1>7 DEF Retry
  <2> HIDE DEF done
  <2>4. QED
    BY <1>2, <2>1, <2>2, <2>3, BeginKeeps
<1>8. QED
  BY <1>3, <1>4, <1>5, <1>6, <1>7 DEF Request

-----------------------------------------------------------------------------
(* The end of a call: it has reused a proxy, or left its unit.             *)
LEMMA ReturnKeeps ==
  ASSUME IInv, call # NoCall, Return,
         UNCHANGED <<file, environment, up>>,
         external' \in BOOLEAN, eventOnly' \in BOOLEAN,
         external => external', eventOnly => eventOnly',
         \/ ~call.event /\ external'
         \/ call.at = "confirm"
  PROVE  IInv' /\ OutcomeOK
<1> USE AbsentAssumption
<1>1. call \in Call /\ call.done \in Record /\ record' = call.done /\ call' = NoCall
  BY DEF IInv, TypeOK, Call, Return
<1>2. TypeOK'
  BY <1>1 DEF IInv, TypeOK, environment
<1>3. CallInv'
  BY <1>1 DEF CallInv
<1>4. record' # NoRecord /\ up' /\ call.done.event = call.event
  BY <1>1 DEF IInv, CallInv
<1>5. MemoryInv'
  BY <1>4 DEF IInv, MemoryInv
<1>6. external' \/ file' = [user |-> call.user, proxy |-> TRUE, event |-> call.event]
  <2>1. CASE ~call.event /\ external'
    BY <2>1
  <2>2. CASE call.at = "confirm" /\ call.proxy
    BY <1>1, <2>2 DEF IInv, CallInv, Text, Call
  <2>3. CASE ~call.proxy
    BY <2>3 DEF IInv, CallInv
  <2>4. QED
    BY <2>1, <2>2, <2>3
<1>7. EventLegIsOurs'
  <2>1. CASE ~call.event /\ external'
    BY <1>1, <1>4, <2>1 DEF EventLegIsOurs
  <2>2. CASE call.at = "confirm"
    <3>1. file' = Text /\ Text \in Unit /\ Text.event = call.event
      BY <1>1, <2>2 DEF IInv, CallInv, Text, Call, Unit
    <3>2. QED
      BY <1>1, <1>4, <3>1 DEF EventLegIsOurs
  <2>3. QED
    BY <2>1, <2>2
<1>8. OutcomeOK
  BY <1>1, <1>6 DEF OutcomeOK
<1>9. QED
  BY <1>2, <1>3, <1>5, <1>7, <1>8 DEF IInv

(* The other end: the record is degraded, the unit is gone or as it was.   *)
LEMMA RaiseKeeps ==
  ASSUME IInv, call # NoCall, Raise,
         UNCHANGED <<memory, up>>,
         \/ Remove
         \/ UNCHANGED <<file, environment>> /\ call.at = "probe"
  PROVE  IInv' /\ OutcomeOK
<1> USE AbsentAssumption
<1>1. /\ call \in Call /\ call.failed \in Record
      /\ record' = call.failed /\ call' = NoCall
  BY DEF IInv, TypeOK, Call, Raise
<1>2. file' \in {NoUnit, call.old} /\ file' \in {NoUnit, file}
  BY DEF IInv, CallInv, Remove
<1>3. TypeOK'
  <2>1. CASE Remove
    <3>1. file' = NoUnit /\ UNCHANGED <<ssh, port>>
      BY <2>1 DEF Remove, AfterStop
    <3>2. /\ service' \in {"inactive", "stopping"}
          /\ (service' = "stopping") <=> (service \in {"active", "stopping"})
      BY <2>1 DEF Remove, AfterStop, IInv, TypeOK
    <3>3. (ssh' # NoUnit) = (service' \in {"active", "stopping"})
      BY <3>1, <3>2 DEF IInv, TypeOK
    <3>4. /\ ssh' \in Unit \cup {NoUnit}
          /\ port' \in {"free", "ours", "foreign", "stuck"}
          /\ external' \in BOOLEAN /\ eventOnly' \in BOOLEAN /\ up' \in BOOLEAN
      BY <3>1 DEF IInv, TypeOK, memory
    <3>5. QED
      BY <1>1, <3>1, <3>2, <3>3, <3>4 DEF TypeOK
  <2>2. CASE UNCHANGED <<file, environment>>
    BY <1>1, <2>2 DEF IInv, TypeOK, environment, memory
  <2>3. QED
    BY <2>1, <2>2
<1>4. CallInv'
  BY <1>1 DEF CallInv
<1>5. record' # NoRecord /\ up' /\ record'.state = "DEGRADED"
  BY <1>1 DEF IInv, CallInv
<1>6. MemoryInv'
  BY <1>2, <1>5 DEF IInv, MemoryInv, memory
<1>7. EventLegIsOurs'
  BY <1>5 DEF EventLegIsOurs
<1>8. OutcomeOK
  BY <1>1, <1>2 DEF OutcomeOK
<1>9. QED
  BY <1>3, <1>4, <1>6, <1>7, <1>8 DEF IInv

(* Any other step of start() stays in the call.                            *)
LEMMA GoesOn ==
  ASSUME IInv, call # NoCall, call' \in Call, UNCHANGED <<record, up>>,
         TypeOK', MemoryInv',
         /\ call'.done = call.done /\ call'.failed = call.failed
         /\ call'.event = call.event,
         ~call'.proxy => external' /\ eventOnly',
         call'.at \in {"check", "probe", "inspect", "write"} => file' = call'.old,
         call'.at \in {"launch", "confirm"} => file' = Text'
  PROVE  IInv' /\ OutcomeOK
<1>1. call' # NoCall
  BY AbsentAssumption
<1>2. CallInv'
  BY <1>1 DEF IInv, CallInv
<1>3. EventLegIsOurs'
  BY <1>1 DEF EventLegIsOurs, Idle
<1>4. OutcomeOK
  BY <1>1 DEF OutcomeOK
<1>5. QED
  BY <1>2, <1>3, <1>4 DEF IInv

LEMMA CheckKeeps == IInv /\ Check => IInv' /\ OutcomeOK
<1> SUFFICES ASSUME IInv, Check PROVE IInv' /\ OutcomeOK
  OBVIOUS
<1>1. /\ call # NoCall /\ call \in Call /\ call.at = "check"
      /\ file = call.old /\ UNCHANGED <<file, environment, up>>
  BY DEF Check, At, IInv, TypeOK, CallInv
<1>2. CASE call' = NoCall
  <2>1. /\ Return /\ external' = TRUE /\ eventOnly' = eventOnly
        /\ ~call.event
    BY <1>1, <1>2, AbsentAssumption DEF Check, Goto, Call, Steps
  <2>2. eventOnly' \in BOOLEAN
    BY <2>1 DEF IInv, TypeOK
  <2>3. QED
    BY <1>1, <2>1, <2>2, ReturnKeeps
<1>3. CASE call' # NoCall
  <2>1. /\ call' \in Call /\ call'.at \in {"probe", "inspect"}
        /\ call'.done = call.done /\ call'.failed = call.failed
        /\ call'.event = call.event /\ call'.old = call.old
        /\ record' = record
    BY <1>1, <1>3 DEF Check, Goto, Return, Call, Steps
  <2>2. \/ memory' = memory /\ call'.proxy = call.proxy
        \/ external' /\ eventOnly' /\ external' \in BOOLEAN /\ eventOnly' \in BOOLEAN
    BY <1>1, <1>3 DEF Check, Goto, Return, Call, memory
  <2>3. TypeOK'
    BY <1>1, <2>1, <2>2 DEF IInv, TypeOK, environment, memory
  <2>4. MemoryInv'
    BY <1>1, <1>3, <2>1, <2>2 DEF IInv, MemoryInv, CallInv, memory
  <2>5. ~call'.proxy => external' /\ eventOnly'
    BY <1>1, <2>2 DEF IInv, CallInv, memory
  <2>6. QED
    BY <1>1, <2>1, <2>3, <2>4, <2>5, GoesOn
<1>4. QED
  BY <1>2, <1>3

LEMMA ProbeKeeps == IInv /\ Probe => IInv' /\ OutcomeOK
<1> SUFFICES ASSUME IInv, Probe PROVE IInv' /\ OutcomeOK
  OBVIOUS
<1>1. /\ call # NoCall /\ call \in Call /\ call.at = "probe"
      /\ file = call.old /\ UNCHANGED <<file, environment, up>>
  BY DEF Probe, At, IInv, TypeOK, CallInv
<1>2. CASE Raise /\ UNCHANGED memory
  BY <1>1, <1>2, RaiseKeeps
<1>3. CASE Reuse /\ Return
  <2>1. external' = TRUE /\ (~call.event /\ eventOnly' = eventOnly)
    BY <1>1, <1>3, AbsentAssumption DEF Reuse, Return, Call, Steps
  <2>2. eventOnly' \in BOOLEAN
    BY <2>1 DEF IInv, TypeOK
  <2>3. QED
    BY <1>1, <1>3, <2>1, <2>2, ReturnKeeps
<1>4. CASE \/ call' = [call EXCEPT !.at = "inspect", !.proxy = FALSE]
             /\ external' = TRUE /\ eventOnly' = TRUE /\ record' = record
           \/ Goto("inspect") /\ UNCHANGED <<memory, record>>
  <2>1. /\ call' \in Call /\ call'.at = "inspect"
        /\ call'.done = call.done /\ call'.failed = call.failed
        /\ call'.event = call.event /\ call'.old = call.old
        /\ record' = record
    BY <1>1, <1>4 DEF Goto, Call, Steps
  <2>2. \/ memory' = memory /\ call'.proxy = call.proxy
        \/ external' /\ eventOnly' /\ external' \in BOOLEAN /\ eventOnly' \in BOOLEAN
    BY <1>1, <1>4 DEF Goto, Call, memory
  <2>3. TypeOK'
    BY <1>1, <2>1, <2>2 DEF IInv, TypeOK, environment, memory
  <2>4. MemoryInv'
    BY <1>1, <2>1, <2>2 DEF IInv, MemoryInv, CallInv, memory
  <2>5. ~call'.proxy => external' /\ eventOnly'
    BY <1>1, <2>2 DEF IInv, CallInv, memory
  <2>6. QED
    BY <1>1, <2>1, <2>3, <2>4, <2>5, GoesOn
<1>5. QED
  BY <1>2, <1>3, <1>4 DEF Probe, Reuse

LEMMA EnsureInspectKeeps == IInv /\ EnsureInspect => IInv' /\ OutcomeOK
<1> SUFFICES ASSUME IInv, EnsureInspect PROVE IInv' /\ OutcomeOK
  OBVIOUS
<1>1. /\ call # NoCall /\ call \in Call /\ file = call.old
      /\ UNCHANGED <<file, environment, memory, record, up>>
  BY DEF EnsureInspect, At, IInv, TypeOK, CallInv
<1>2. /\ call' \in Call /\ call'.at = "write"
      /\ call'.done = call.done /\ call'.failed = call.failed
      /\ call'.event = call.event /\ call'.old = call.old
      /\ call'.proxy = call.proxy
  BY <1>1 DEF EnsureInspect, Call, Steps
<1>3. TypeOK'
  BY <1>1, <1>2 DEF IInv, TypeOK, environment, memory
<1>4. MemoryInv'
  BY <1>1 DEF IInv, MemoryInv, CallInv, memory
<1>5. ~call'.proxy => external' /\ eventOnly'
  BY <1>1, <1>2 DEF IInv, CallInv, memory
<1>6. QED
  BY <1>1, <1>2, <1>3, <1>4, <1>5, GoesOn

LEMMA EnsureWriteKeeps == IInv /\ EnsureWrite => IInv' /\ OutcomeOK
<1> SUFFICES ASSUME IInv, EnsureWrite PROVE IInv' /\ OutcomeOK
  OBVIOUS
<1>1. /\ call # NoCall /\ call \in Call /\ file' = Text
      /\ UNCHANGED <<environment, memory, record, up>>
  BY DEF EnsureWrite, At, IInv, TypeOK
<1>2. /\ call' \in Call /\ call'.at = "launch"
      /\ call'.done = call.done /\ call'.failed = call.failed
      /\ call'.event = call.event /\ call'.proxy = call.proxy
      /\ call'.user = call.user
  BY <1>1 DEF EnsureWrite, Goto, Call, Steps
<1>3. Text \in Unit /\ Text.proxy = call.proxy /\ file' = Text'
  BY <1>1, <1>2 DEF Text, Unit, Call
<1>4. TypeOK'
  BY <1>1, <1>2, <1>3, AbsentAssumption DEF IInv, TypeOK, environment, memory
<1>5. MemoryInv'
  BY <1>1, <1>3 DEF IInv, MemoryInv, CallInv, memory
<1>6. ~call'.proxy => external' /\ eventOnly'
  BY <1>1, <1>2 DEF IInv, CallInv, memory
<1>7. QED
  BY <1>1, <1>2, <1>3, <1>4, <1>5, <1>6, GoesOn

LEMMA EnsureLaunchKeeps == IInv /\ EnsureLaunch => IInv' /\ OutcomeOK
<1> SUFFICES ASSUME IInv, EnsureLaunch PROVE IInv' /\ OutcomeOK
  OBVIOUS
<1>1. /\ call # NoCall /\ call \in Call /\ file = Text
      /\ UNCHANGED <<file, memory, record, up>>
  BY DEF EnsureLaunch, At, IInv, TypeOK, CallInv
<1>2. /\ call' \in Call /\ call'.at = "confirm"
      /\ call'.done = call.done /\ call'.failed = call.failed
      /\ call'.event = call.event /\ call'.proxy = call.proxy
      /\ call'.user = call.user
  BY <1>1 DEF EnsureLaunch, Goto, Call, Steps
<1>3. Text \in Unit /\ file' = Text'
  BY <1>1, <1>2 DEF Text, Unit, Call
<1>4. TypeOK'
  <2>1. /\ port' \in {"free", "ours", "foreign", "stuck"}
        /\ \/ service' = "active" /\ ssh' = file
           \/ service' = service /\ ssh' = ssh
    BY DEF EnsureLaunch, PortAfterSsh, environment, IInv, TypeOK
  <2>2. file \in Unit /\ file # NoUnit
    BY <1>1, <1>3, AbsentAssumption
  <2>3. /\ service' \in {"inactive", "active", "restarting", "stopping"}
        /\ ssh' \in Unit \cup {NoUnit}
    BY <2>1, <2>2 DEF IInv, TypeOK
  <2>4. (ssh' # NoUnit) = (service' \in {"active", "stopping"})
    BY <2>1, <2>2 DEF IInv, TypeOK
  <2>5. QED
    BY <1>1, <1>2, <2>1, <2>2, <2>3, <2>4 DEF IInv, TypeOK, memory
<1>5. MemoryInv'
  BY <1>1 DEF IInv, MemoryInv, CallInv, memory
<1>6. ~call'.proxy => external' /\ eventOnly'
  BY <1>1, <1>2 DEF IInv, CallInv, memory
<1>7. QED
  BY <1>1, <1>2, <1>3, <1>4, <1>5, <1>6, GoesOn

(* The last look at the unit, and the failures that remove it.             *)
LEMMA EndsKeep ==
  IInv /\ (Confirm \/ ConfirmFails \/ EnsureFails) => IInv' /\ OutcomeOK
<1>1. IInv /\ Confirm => IInv' /\ OutcomeOK
  <2> SUFFICES ASSUME IInv, Confirm PROVE IInv' /\ OutcomeOK
    OBVIOUS
  <2>1. /\ call # NoCall /\ call.at = "confirm" /\ Return
        /\ UNCHANGED <<file, environment, up>>
        /\ external' = external /\ eventOnly' = eventOnly
    BY DEF Confirm, At, memory
  <2>2. external' \in BOOLEAN /\ eventOnly' \in BOOLEAN
    BY <2>1 DEF IInv, TypeOK
  <2>3. QED
    BY <2>1, <2>2, ReturnKeeps
<1>2. IInv /\ ConfirmFails => IInv' /\ OutcomeOK
  BY RaiseKeeps DEF ConfirmFails, At
<1>3. IInv /\ EnsureFails => IInv' /\ OutcomeOK
  BY RaiseKeeps DEF EnsureFails, At
<1>4. QED
  BY <1>1, <1>2, <1>3

LEMMA ExitKeeps == IInv /\ Exit => IInv' /\ OutcomeOK
<1> SUFFICES ASSUME IInv, Exit PROVE IInv' /\ OutcomeOK
  OBVIOUS
<1>1. /\ up' = FALSE /\ record' = NoRecord /\ call' = NoCall
      /\ external' = FALSE /\ eventOnly' = FALSE
      /\ UNCHANGED <<file, environment>>
  BY DEF Exit
<1>2. TypeOK'
  BY <1>1 DEF IInv, TypeOK, environment
<1>3. QED
  BY <1>1, <1>2 DEF IInv, CallInv, MemoryInv, EventLegIsOurs, Idle, OutcomeOK

LEMMA RestartKeeps == IInv /\ Restart => IInv' /\ OutcomeOK
<1> SUFFICES ASSUME IInv, Restart PROVE IInv' /\ OutcomeOK
  OBVIOUS
<1>1. /\ file' = NoUnit /\ service' = "inactive" /\ ssh' = NoUnit
      /\ port' \in {"free", "ours", "foreign", "stuck"}
      /\ up' = TRUE
      /\ UNCHANGED <<external, eventOnly, record, call>>
  BY DEF Restart, PortAfterSsh, memory, IInv, TypeOK
<1>2. call = NoCall /\ record = NoRecord
  BY DEF Restart, IInv, MemoryInv
<1>3. TypeOK'
  BY <1>1 DEF IInv, TypeOK
<1>4. MemoryInv'
  BY <1>1, <1>2 DEF IInv, MemoryInv
<1>5. QED
  BY <1>1, <1>2, <1>3, <1>4 DEF IInv, CallInv, EventLegIsOurs, Idle, OutcomeOK

-----------------------------------------------------------------------------
LEMMA InitInv == Init => IInv
<1> SUFFICES ASSUME Init PROVE IInv
  OBVIOUS
<1>1. (ssh # NoUnit) = (service \in {"active", "stopping"})
  <2>1. ~(ssh # NoUnit) /\ ~(service \in {"active", "stopping"})
    BY DEF Init
  <2>2. QED
    BY <2>1
<1>2. TypeOK
  BY <1>1 DEF Init, TypeOK
<1>3. QED
  BY <1>2 DEF Init, IInv, CallInv, MemoryInv, EventLegIsOurs, Idle

LEMMA NextInv == IInv /\ [Next]_vars => IInv' /\ [OutcomeOK]_vars
<1> SUFFICES ASSUME IInv, [Next]_vars PROVE IInv' /\ [OutcomeOK]_vars
  OBVIOUS
<1>1. CASE Environment
  <2>1. TypeOK' /\ UNCHANGED <<file, memory, record, call, up>>
    BY <1>1, EnvironmentKeeps DEF IInv
  <2>2. CallInv' /\ MemoryInv' /\ EventLegIsOurs' /\ OutcomeOK
    BY <2>1 DEF IInv, CallInv, MemoryInv, EventLegIsOurs, Idle, OutcomeOK, Text,
                memory
  <2>3. QED
    BY <2>1, <2>2 DEF IInv
<1>2. CASE Request
  <2>1. call = NoCall
    BY <1>2 DEF Request, FirstStart, Retune, TakeOver, Retry, Begin, Stop
  <2>2. QED
    BY <1>2, <2>1, RequestKeeps DEF OutcomeOK
<1>3. CASE StartStep
  BY <1>3, CheckKeeps, ProbeKeeps, EnsureInspectKeeps, EnsureWriteKeeps,
     EnsureLaunchKeeps, EndsKeep DEF StartStep
<1>4. CASE EnsureFails
  BY <1>4, EndsKeep
<1>5. CASE Exit
  BY <1>5, ExitKeeps
<1>6. CASE Restart
  BY <1>6, RestartKeeps
<1>7. CASE UNCHANGED vars
  BY <1>7 DEF vars, environment, memory, IInv, TypeOK, CallInv, MemoryInv,
              EventLegIsOurs, Idle, Text
<1>8. QED
  BY <1>1, <1>2, <1>3, <1>4, <1>5, <1>6, <1>7 DEF Next

LEMMA Invariance == Spec => []IInv
BY InitInv, NextInv, PTL DEF Spec

(* Types, and that an ssh process runs exactly while the unit is active or *)
(* being stopped.                                                          *)
THEOREM TypeCorrect == Spec => []TypeOK
BY Invariance, PTL DEF IInv

(* LeaseTable's three outcomes of a start are all there are, whatever      *)
(* systemd, ssh and the remote host do between its commands.               *)
THEOREM StartIsRight == Spec => StartOutcome
BY Invariance, InitInv, NextInv, PTL DEF Spec, StartOutcome

(* Interactive sessions on a READY endpoint have an event leg of our own:  *)
(* reuse of a foreign proxy, changes of legs and failures never lose it.   *)
THEOREM EventLegIsRight == Spec => []EventLegIsOurs
BY Invariance, PTL DEF IInv

(* stop() leaves no unit with an event leg alone behind.                   *)
THEOREM StopRemovesEventUnit == Spec => []NoEventUnitLeft
<1>1. IInv => NoEventUnitLeft
  BY DEF IInv, MemoryInv, NoEventUnitLeft, Idle
<1>2. QED
  BY <1>1, Invariance, PTL

-----------------------------------------------------------------------------
(* EndpointForwarder implements EndpointStart.                             *)

(* What a call will make of the record was asked for on the record as it   *)
(* is seen, and stays so until the call ends; an event leg alone is only   *)
(* made for an interactive session.                                        *)
SeenInv ==
  /\ call = NoCall /\ record # NoRecord => record.state # "STARTING"
  /\ call # NoCall =>
       /\ Abstract!Asked(call.user, call.event, call.done, call.failed)
       /\ call.done \in Abstract!Settled
       /\ call.failed \in Abstract!Settled
       /\ ~call.proxy => call.event

(* A step that leaves the call's purpose alone is not seen, unless a 4227  *)
(* is found in it.                                                         *)
Onward ==
  /\ call # NoCall /\ call' # NoCall
  /\ UNCHANGED <<record, up>>
  /\ UNCHANGED <<call.user, call.event, call.done, call.failed, call.old>>
  /\ call'.proxy # call.proxy => call.event
  /\ external' \in {external, TRUE}

LEMMA OnwardSeen ==
  ASSUME IInv, SeenInv, Onward
  PROVE  SeenInv' /\ [Abstract!Next]_(Abstract!vars)
<1>1. call.proxy \in BOOLEAN
  BY DEF IInv, TypeOK, Call, Onward
<1>2. UNCHANGED <<UnitSeen, RecordSeen>>
  BY DEF Onward, UnitSeen, RecordSeen
<1>3. Abstract!Asked(call.user, call.event, call.done, call.failed)'
  BY <1>2 DEF Onward, SeenInv, Abstract!Asked, Abstract!First, Abstract!Retune,
              Abstract!TakeOver, Abstract!Retry
<1>4. SeenInv'
  BY <1>1, <1>3 DEF Onward, SeenInv, Abstract!Settled
<1>5. Abstract!Find \/ UNCHANGED Abstract!vars
  BY <1>2 DEF Onward, Abstract!Find, Abstract!vars, IInv, CallInv
<1>6. QED
  BY <1>4, <1>5 DEF Abstract!Next

(* The end of a call is the start of EndpointStart.                        *)
Ended ==
  /\ call # NoCall /\ call' = NoCall /\ UNCHANGED up
  /\ \/ /\ record' = call.done
        /\ \/ file' = Abstract!Legs(call.user, TRUE, call.event) /\ external' = external
           \/ /\ external' = TRUE
              /\ IF call.event THEN file' = Abstract!Legs(call.user, FALSE, TRUE)
                               ELSE file' = call.old
     \/ /\ record' = call.failed
        /\ file' \in {NoUnit, call.old}
        /\ external' = external

LEMMA EndedSeen ==
  ASSUME IInv, SeenInv, Ended
  PROVE  SeenInv' /\ [Abstract!Next]_(Abstract!vars)
<1>1. /\ UnitSeen = call.old /\ UnitSeen' = file'
      /\ RecordSeen' = record'
      /\ up
  BY DEF Ended, UnitSeen, RecordSeen, IInv, CallInv
<1>2. call.user \in Users /\ call.event \in BOOLEAN
  BY DEF IInv, TypeOK, Call, Ended
<1>3. \/ Abstract!Returns(call.user, call.event, call.done)
      \/ Abstract!Raises(call.failed)
  BY <1>1 DEF Ended, Abstract!Returns, Abstract!Raises, Abstract!Completed
<1>4. Abstract!Start(call.user, call.event)
  BY <1>1, <1>3 DEF Ended, SeenInv, Abstract!Start
<1>5. SeenInv'
  BY DEF Ended, SeenInv, Abstract!Settled
<1>6. QED
  BY <1>2, <1>4, <1>5 DEF Abstract!Next

(* The beginning of a call is not seen.                                    *)
LEMMA BegunSeen ==
  ASSUME IInv, SeenInv, NEW user \in Users, NEW event \in BOOLEAN,
         NEW done \in Abstract!Settled, NEW failed \in Abstract!Settled,
         Begin(user, event, done, failed),
         Abstract!Asked(user, event, done, failed),
         \/ record' = record
         \/ record = NoRecord /\ record'.state = "STARTING"
  PROVE  SeenInv' /\ UNCHANGED Abstract!vars
<1> DEFINE new == [at |-> "check", user |-> user, event |-> event, proxy |-> TRUE,
                   active |-> FALSE, changed |-> FALSE, done |-> done,
                   failed |-> failed, old |-> file]
<1>1. call' = new /\ call = NoCall /\ UNCHANGED <<file, external, up>>
  BY DEF Begin, environment, memory
<1>2. new \in Call
  BY DEF Call, Steps, Abstract!Settled, Record, IInv, TypeOK
<1>3. call' # NoCall
  BY <1>1, <1>2, AbsentAssumption
<1>4. /\ call'.user = user /\ call'.event = event /\ call'.proxy = TRUE
      /\ call'.done = done /\ call'.failed = failed /\ call'.old = file
  BY <1>1
<1> HIDE DEF new
<1>5. UnitSeen' = UnitSeen
  BY <1>1, <1>3, <1>4 DEF UnitSeen
<1>6. RecordSeen' = RecordSeen
  BY <1>1, <1>3 DEF RecordSeen, SeenInv
<1>7. Abstract!Asked(call.user, call.event, call.done, call.failed)'
  BY <1>4, <1>6 DEF Abstract!Asked, Abstract!First, Abstract!Retune,
                    Abstract!TakeOver, Abstract!Retry
<1>8. QED
  BY <1>1, <1>3, <1>4, <1>5, <1>6, <1>7 DEF SeenInv, Abstract!vars, Abstract!Settled

(* Each of the four starts asks for what EndpointStart lets it ask for.    *)
LEMMA BeginSeen ==
  ASSUME IInv, SeenInv, NEW user \in Users, NEW event \in BOOLEAN,
         \/ FirstStart(user, event) \/ Retune(user, event)
         \/ TakeOver(user, event) \/ Retry(user, event)
  PROVE  SeenInv' /\ UNCHANGED Abstract!vars
<1>1. call = NoCall
  BY DEF FirstStart, Retune, TakeOver, Retry, Begin
<1>2. RecordSeen = record /\ (record # NoRecord => record \in Abstract!Settled)
  BY <1>1 DEF RecordSeen, IInv, TypeOK, Record, SeenInv, Abstract!Settled
<1>3. CASE FirstStart(user, event)
  <2> DEFINE r == [state |-> "STARTING", owner |-> user, event |-> event]
             done == [r EXCEPT !.state = "READY"]
             failed == Degraded(r)
  <2>1. /\ record = NoRecord /\ record' = r /\ r.state = "STARTING"
        /\ Begin(user, event, done, failed)
    BY <1>3 DEF FirstStart
  <2>2. done \in Abstract!Settled /\ failed \in Abstract!Settled
    BY DEF Abstract!Settled, Degraded
  <2>3. Abstract!First(user, event, done, failed)
    <3>1. done = [state |-> "READY", owner |-> user, event |-> event]
      OBVIOUS
    <3>2. failed = [done EXCEPT !.state = "DEGRADED"]
      BY DEF Degraded
    <3>3. QED
      BY <1>2, <2>1, <3>1, <3>2 DEF Abstract!First
  <2> HIDE DEF r, done, failed
  <2>4. QED
    BY <2>1, <2>2, <2>3, BegunSeen DEF Abstract!Asked
<1>4. CASE Retune(user, event)
  <2> DEFINE done == [record EXCEPT !.event = event]
             failed == Degraded(record)
  <2>1. record # NoRecord /\ record' = record /\ Begin(user, event, done, failed)
    BY <1>4 DEF Retune
  <2>2. done \in Abstract!Settled /\ failed \in Abstract!Settled
    BY <1>2, <2>1 DEF Abstract!Settled, Degraded
  <2>3. Abstract!Retune(user, event, done, failed)
    BY <1>2, <1>4 DEF Retune, Abstract!Retune, Degraded
  <2> HIDE DEF done, failed
  <2>4. QED
    BY <2>1, <2>2, <2>3, BegunSeen DEF Abstract!Asked
<1>5. CASE TakeOver(user, event)
  <2> DEFINE r == [record EXCEPT !.owner = user, !.event = event]
             done == [r EXCEPT !.state = "READY"]
             failed == Degraded(r)
  <2>1. record # NoRecord /\ record' = record /\ Begin(user, event, done, failed)
    BY <1>5 DEF TakeOver
  <2>2. done \in Abstract!Settled /\ failed \in Abstract!Settled
    BY <1>2, <2>1 DEF Abstract!Settled, Degraded
  <2>3. Abstract!TakeOver(user, event, done, failed)
    BY <1>2, <2>1 DEF Abstract!TakeOver, Abstract!Settled, Degraded
  <2> HIDE DEF r, done, failed
  <2>4. QED
    BY <2>1, <2>2, <2>3, BegunSeen DEF Abstract!Asked
<1>6. CASE Retry(user, event)
  <2> DEFINE done == [record EXCEPT !.owner = user, !.state = "READY"]
             failed == Degraded(record)
  <2>1. record # NoRecord /\ record' = record /\ Begin(user, event, done, failed)
    BY <1>6 DEF Retry
  <2>2. done \in Abstract!Settled /\ failed \in Abstract!Settled
    BY <1>2, <2>1 DEF Abstract!Settled, Degraded
  <2>3. Abstract!Retry(user, event, done, failed)
    BY <1>2, <1>6 DEF Retry, Abstract!Retry, Degraded
  <2> HIDE DEF done, failed
  <2>4. QED
    BY <2>1, <2>2, <2>3, BegunSeen DEF Abstract!Asked
<1>7. QED
  BY <1>3, <1>4, <1>5, <1>6

(* Each step of start() goes on with the call or ends it.                  *)
LEMMA StartSeen ==
  ASSUME IInv, IInv', SeenInv, StartStep \/ EnsureFails
  PROVE  Onward \/ Ended
<1>1. /\ up /\ call # NoCall /\ call \in Call
      /\ call.user \in Users /\ call.event \in BOOLEAN /\ call.proxy \in BOOLEAN
  BY DEF StartStep, EnsureFails, Check, Probe, EnsureInspect, EnsureWrite, EnsureLaunch,
         Confirm, ConfirmFails, At, IInv, TypeOK, Call
<1>2. /\ call.at \in {"check", "probe", "inspect", "write"} => file = call.old
      /\ call.at \in {"launch", "confirm"} => file = Text
      /\ ~call.proxy => external /\ call.event
  BY <1>1 DEF IInv, CallInv, SeenInv
<1>3. ASSUME NEW step \in Steps, call' = [call EXCEPT !.at = step]
      PROVE  /\ call' # NoCall /\ call'.proxy = call.proxy
             /\ UNCHANGED <<call.user, call.event, call.done, call.failed, call.old>>
  <2>1. call' \in Call
    BY <1>1, <1>3 DEF Call
  <2>2. QED
    BY <1>1, <1>3, <2>1, AbsentAssumption DEF Call
<1>4. ASSUME call' = [call EXCEPT !.at = "inspect", !.proxy = FALSE]
      PROVE  /\ call' # NoCall
             /\ UNCHANGED <<call.user, call.event, call.done, call.failed, call.old>>
  <2>1. call' \in Call
    BY <1>1, <1>4 DEF Call, Steps
  <2>2. QED
    BY <1>1, <1>4, <2>1, AbsentAssumption DEF Call
<1>5. CASE Check
  <2>1. call.at = "check" /\ file' = file /\ up' = up
    BY <1>5 DEF Check, At
  <2>2. CASE Goto("probe") /\ UNCHANGED <<memory, record>>
    BY <1>1, <1>3, <2>1, <2>2 DEF Goto, Onward, memory, Steps
  <2>3. CASE Goto("inspect") /\ UNCHANGED <<memory, record>>
    BY <1>1, <1>3, <2>1, <2>3 DEF Goto, Onward, memory, Steps
  <2>4. CASE external' = TRUE /\ ~call.event /\ Return
    BY <1>1, <1>2, <2>1, <2>4 DEF Return, Ended
  <2>5. CASE /\ external' = TRUE /\ call.event
             /\ call' = [call EXCEPT !.at = "inspect", !.proxy = FALSE]
             /\ UNCHANGED record
    BY <1>1, <1>4, <2>1, <2>5 DEF Onward
  <2>6. QED
    BY <1>5, <2>2, <2>3, <2>4, <2>5 DEF Check
<1>6. CASE Probe
  <2>1. call.at = "probe" /\ file' = file /\ up' = up
    BY <1>6 DEF Probe, At
  <2>2. CASE external' = TRUE /\ ~call.event /\ Return
    BY <1>1, <1>2, <2>1, <2>2 DEF Return, Ended
  <2>3. CASE /\ external' = TRUE /\ call.event
             /\ call' = [call EXCEPT !.at = "inspect", !.proxy = FALSE]
             /\ UNCHANGED record
    BY <1>1, <1>4, <2>1, <2>3 DEF Onward
  <2>4. CASE Raise /\ UNCHANGED memory
    BY <1>1, <1>2, <2>1, <2>4 DEF Raise, Ended, memory
  <2>5. CASE Goto("inspect") /\ UNCHANGED <<memory, record>>
    BY <1>1, <1>3, <2>1, <2>5 DEF Goto, Onward, memory, Steps
  <2>6. QED
    BY <1>6, <2>2, <2>3, <2>4, <2>5 DEF Probe, Reuse
<1>7. CASE EnsureInspect
  <2>1. call' \in Call
    BY <1>1, <1>7 DEF EnsureInspect, Call, Steps
  <2>2. /\ call' # NoCall /\ call'.proxy = call.proxy
        /\ UNCHANGED <<call.user, call.event, call.done, call.failed, call.old>>
    BY <1>1, <1>7, <2>1, AbsentAssumption DEF EnsureInspect, Call
  <2>3. QED
    BY <1>1, <1>7, <2>2 DEF EnsureInspect, Onward, memory
<1>8. CASE EnsureWrite \/ EnsureLaunch
  <2>1. /\ \E step \in Steps : call' = [call EXCEPT !.at = step]
        /\ UNCHANGED <<memory, record, up>>
    BY <1>8 DEF EnsureWrite, EnsureLaunch, Goto, Steps
  <2>2. QED
    BY <1>1, <1>3, <2>1 DEF Onward, memory
<1>9. CASE Confirm
  <2>1. /\ call' = NoCall /\ record' = call.done /\ file' = file /\ file = Text
        /\ external' = external /\ up' = up
    BY <1>2, <1>9 DEF Confirm, At, Return, memory
  <2>2. QED
    BY <1>1, <1>2, <2>1 DEF Ended, Text, Abstract!Legs
<1>10. CASE ConfirmFails \/ EnsureFails
  BY <1>1, <1>10 DEF ConfirmFails, EnsureFails, Remove, Raise, Ended, memory
<1>11. QED
  BY <1>5, <1>6, <1>7, <1>8, <1>9, <1>10 DEF StartStep

(* The steps outside of start(). *)
LEMMA OutsideSeen ==
  ASSUME IInv, SeenInv, Environment \/ Stop \/ Exit \/ Restart \/ UNCHANGED vars
  PROVE  SeenInv' /\ [Abstract!Next]_(Abstract!vars)
<1>1. CASE Environment \/ UNCHANGED vars
  <2>1. UNCHANGED <<file, memory, record, call, up>>
    BY <1>1, EnvironmentKeeps DEF IInv, vars, environment, memory
  <2>2. UNCHANGED <<UnitSeen, RecordSeen, external, up>>
    BY <2>1 DEF UnitSeen, RecordSeen, memory
  <2>3. Abstract!Asked(call.user, call.event, call.done, call.failed)'
          <=> Abstract!Asked(call.user, call.event, call.done, call.failed)
    BY <2>1, <2>2 DEF Abstract!Asked, Abstract!First, Abstract!Retune,
                      Abstract!TakeOver, Abstract!Retry
  <2>4. QED
    BY <2>1, <2>2, <2>3 DEF SeenInv, Abstract!vars, Abstract!Settled
<1>2. CASE Stop
  <2>1. /\ call = NoCall /\ call' = NoCall /\ record' = NoRecord
        /\ UnitSeen = file /\ UnitSeen' = file'
        /\ RecordSeen = record /\ RecordSeen' = NoRecord
    BY <1>2 DEF Stop, UnitSeen, RecordSeen
  <2>2. Abstract!Stop
    BY <1>2, <2>1 DEF Stop, Remove, Abstract!Stop, IInv, MemoryInv
  <2>3. QED
    BY <2>1, <2>2 DEF SeenInv, Abstract!Next
<1>3. CASE Exit
  <2>1. /\ call' = NoCall /\ record' = NoRecord /\ file' = file
        /\ UnitSeen' = file /\ RecordSeen' = NoRecord
    BY <1>3 DEF Exit, UnitSeen, RecordSeen
  <2>2. file = UnitSeen \/ file \in Abstract!Unit
    <3>1. CASE call = NoCall
      BY <3>1 DEF UnitSeen
    <3>2. CASE call # NoCall
      <4>1. call \in Call /\ call.at \in Steps
        BY <3>2 DEF IInv, TypeOK, Call
      <4>2. file = call.old \/ file = Text
        BY <3>2, <4>1 DEF IInv, CallInv, Steps
      <4>3. Text \in Abstract!Unit
        BY <4>1 DEF Text, Call, Abstract!Unit
      <4>4. QED
        BY <3>2, <4>2, <4>3 DEF UnitSeen
    <3>3. QED
      BY <3>1, <3>2
  <2>3. Abstract!Exit
    BY <1>3, <2>1, <2>2 DEF Exit, Abstract!Exit
  <2>4. QED
    BY <2>1, <2>3 DEF SeenInv, Abstract!Next
<1>4. CASE Restart
  <2>1. /\ call = NoCall /\ call' = NoCall /\ record' = NoRecord /\ record = NoRecord
        /\ UnitSeen' = NoUnit /\ RecordSeen' = NoRecord /\ RecordSeen = NoRecord
    BY <1>4 DEF Restart, UnitSeen, RecordSeen, IInv, MemoryInv
  <2>2. Abstract!Restart
    BY <1>4, <2>1 DEF Restart, Abstract!Restart, memory
  <2>3. QED
    BY <2>1, <2>2 DEF SeenInv, Abstract!Next
<1>5. QED
  BY <1>1, <1>2, <1>3, <1>4

(* Start and stop are atomic to their caller: whatever systemd, ssh, the   *)
(* port and failing commands do between the steps of a start, it ends as   *)
(* one step with one of the outcomes of EndpointStart, and a crash in the  *)
(* middle is one of its exits.                                             *)
THEOREM Refinement == Spec => ImplementsEndpointStart
<1>1. Init => SeenInv /\ Abstract!Init
  BY DEF Init, SeenInv, Abstract!Init, UnitSeen, RecordSeen
<1>2. IInv /\ IInv' /\ SeenInv /\ [Next]_vars
        => SeenInv' /\ [Abstract!Next]_(Abstract!vars)
  <2> SUFFICES ASSUME IInv, IInv', SeenInv, [Next]_vars
               PROVE  SeenInv' /\ [Abstract!Next]_(Abstract!vars)
    OBVIOUS
  <2>1. CASE StartStep \/ EnsureFails
    BY <2>1, StartSeen, OnwardSeen, EndedSeen
  <2>2. CASE Request
    <3>1. CASE Stop
      BY <3>1, OutsideSeen
    <3>2. ASSUME NEW user \in Users, NEW event \in BOOLEAN,
                 \/ FirstStart(user, event) \/ Retune(user, event)
                 \/ TakeOver(user, event) \/ Retry(user, event)
          PROVE  SeenInv' /\ UNCHANGED Abstract!vars
      BY <3>2, BeginSeen
    <3>3. QED
      BY <2>2, <3>1, <3>2 DEF Request
  <2>3. QED
    BY <2>1, <2>2, OutsideSeen DEF Next
<1>3. QED
  BY <1>1, <1>2, Invariance, PTL DEF Spec, ImplementsEndpointStart, Abstract!Spec
=============================================================================
