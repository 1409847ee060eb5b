------------------------ MODULE SessionSupervisorProofs ------------------------
(***************************************************************************)
(* The types of SessionSupervisor, that it leaves no ssh process behind,   *)
(* and that it does not tear a healthy session down, for any threshold and *)
(* any intervals.                                                          *)
(***************************************************************************)
EXTENDS SessionSupervisor, TLAPS

(* The old session has been stopped, and the new one is not there yet.     *)
Building == {"check", "launch", "proxy", "event", "poll", "nonce", "register", "exit"}

AllDead == \A k \in Kinds : ~Alive(held[k])

(* Only start() mends this. *)
Broken == ~master \/ \E k \in Kinds : ~Alive(held[k])

(* Which variable may refer to live processes, by the statement to come.   *)
ProcessInv ==
  /\ leaked = {}
  /\ pc \in Building \cup {"off", "failed", "stopped"} => AllDead
  /\ pc \notin {"event", "poll", "nonce", "register"} => fresh = None

(* What the loop has seen stays true until it acts on it.                  *)
LoopInv ==
  /\ pc \in {"beat", "decide"} /\ probe = "failed" => ~master
  /\ pc \in {"beat", "decide"} /\ ~forwardsOk => \E k \in Kinds : ~Alive(held[k])
  /\ failures >= Threshold => Broken
  /\ pc = "recover" => Broken
  /\ pc \in {"quit", "stop", "stopped"} => interrupted
  /\ pc \in {"exiting", "off", "failed"} => ~serving

IInv == TypeOK /\ ProcessInv /\ LoopInv

HealthKept == calm /\ Healthy /\ ~interrupted => Healthy'

-----------------------------------------------------------------------------
LEMMA Helpers ==
  ASSUME TypeOK
  PROVE  /\ None \in [Kinds -> Process] /\ \A k \in Kinds : ~Alive(None[k])
         /\ \A f \in [Kinds -> Process], ks \in SUBSET Kinds :
              /\ Stopped(f, ks) \in [Kinds -> Process]
              /\ \A k \in ks : ~Alive(Stopped(f, ks)[k])
              /\ \A k \in Kinds \ ks : Stopped(f, ks)[k] = f[k]
         /\ \A f \in [Kinds -> Process], ks \in SUBSET Kinds :
              \A p \in Freed(f, ks) :
                /\ p \in [Kinds -> {"free", "ours", "taken"}]
                /\ \A k \in Kinds : (k \in ks /\ f[k] = "bound") \/ p[k] = port[k]
         /\ Left \subseteq {"free", "taken"}
BY DEF TypeOK, None, Process, Stopped, Freed, Left, Alive

(* The end of the process takes everything with it.                        *)
LEMMA UnitEndsKeeps ==
  ASSUME IInv, NEW label \in {"off", "failed"}, UnitEnds(label),
         registered' \in {"no", "up", "degraded"}
  PROVE  IInv'
<1>1. /\ pc' = label /\ ~serving' /\ ~interrupted' /\ serving' \in BOOLEAN
      /\ interrupted' \in BOOLEAN /\ master' = FALSE
      /\ held' = None /\ fresh' = None /\ leaked' = {}
      /\ UNCHANGED <<loop, world>>
  BY DEF UnitEnds
<1>2. None \in [Kinds -> Process] /\ \A k \in Kinds : ~Alive(None[k])
  BY Helpers DEF IInv
<1>3. port' \in [Kinds -> {"free", "ours", "taken"}]
  BY DEF UnitEnds
<1>4. TypeOK'
  BY <1>1, <1>2, <1>3 DEF IInv, TypeOK, loop, world, None
<1>5. ProcessInv'
  BY <1>1, <1>2 DEF ProcessInv, AllDead, Building
<1>6. LoopInv'
  BY <1>1, <1>2 DEF LoopInv, Broken
<1>7. QED
  BY <1>4, <1>5, <1>6 DEF IInv

(* The supervisor's own variables stay; processes only ever end, or come   *)
(* out of dialling.                                                        *)
LEMMA WorldKeeps ==
  ASSUME IInv, TypeOK', UNCHANGED <<supervisor, loop, leaked>>,
         master' => master,
         \A k \in Kinds : Alive(held'[k]) => Alive(held[k]),
         fresh = None => fresh' = None
  PROVE  IInv'
<1>1. ProcessInv'
  BY DEF IInv, ProcessInv, AllDead, supervisor
<1>2. LoopInv'
  BY DEF IInv, LoopInv, Broken, supervisor, loop
<1>3. QED
  BY <1>1, <1>2 DEF IInv

LEMMA DialKeeps ==
  ASSUME IInv, NEW k \in Kinds, Dial(k)
  PROVE  IInv' /\ HealthKept
<1>1. UNCHANGED <<supervisor, loop, leaked, master, registered, world>>
  BY DEF Dial, Dialled
<1>2. port' \in [Kinds -> {"free", "ours", "taken"}]
      /\ \A j \in Kinds : port[j] = "ours" => port'[j] = "ours"
  BY DEF Dial, Dialled, IInv, TypeOK
<1>3. Outcome(k) \in Process /\ Outcome(k) \in {"bound", "dead"}
  BY DEF Outcome, Process
<1>4. Outcome(k) = "bound" => port'[k] = "ours"
  BY DEF Dial, Dialled, Outcome, IInv, TypeOK
<1>5. /\ held' \in [Kinds -> Process] /\ fresh' \in [Kinds -> Process]
      /\ \A j \in Kinds : Alive(held'[j]) => Alive(held[j])
      /\ \A j \in Kinds : held[j] = "bound" => held'[j] = "bound"
      /\ fresh = None => fresh' = None
      /\ \A j \in Kinds : held'[j] = "bound" \/ fresh'[j] = "bound" =>
           (j = k /\ Outcome(k) = "bound") \/ held[j] = "bound" \/ fresh[j] = "bound"
  BY <1>3 DEF Dial, Dialled, Alive, IInv, TypeOK, None
<1>6. \A j \in Kinds : held'[j] = "bound" \/ fresh'[j] = "bound" => port'[j] = "ours"
  BY <1>2, <1>4, <1>5 DEF IInv, TypeOK
<1>7. TypeOK'
  BY <1>1, <1>2, <1>5, <1>6 DEF IInv, TypeOK, supervisor, loop, world
<1>8. IInv'
  BY <1>1, <1>5, <1>7, WorldKeeps
<1>9. HealthKept
  BY <1>1, <1>5 DEF HealthKept, Healthy, supervisor, world
<1>10. QED
  BY <1>8, <1>9

(* The two sessions are never both bound: one port has one owner.          *)
LEMMA OneSessionBound ==
  ASSUME IInv, NEW j \in Kinds, held[j] = "bound"
  PROVE  fresh = None /\ fresh[j] # "bound"
BY DEF IInv, ProcessInv, AllDead, Alive, Building, None

LEMMA ForwardDiesKeeps ==
  ASSUME IInv, NEW k \in Kinds, ForwardDies(k)
  PROVE  IInv' /\ HealthKept
<1>1. UNCHANGED <<supervisor, loop, leaked, master, registered, world>> /\ ~calm
  BY DEF ForwardDies
<1>2. /\ held' \in [Kinds -> Process] /\ fresh' \in [Kinds -> Process]
      /\ \A j \in Kinds : Alive(held'[j]) => Alive(held[j])
      /\ fresh = None => fresh' = None
  BY DEF ForwardDies, Alive, IInv, TypeOK, None, Process
<1>3. port' \in [Kinds -> {"free", "ours", "taken"}]
  BY Helpers DEF ForwardDies, IInv, TypeOK
<1>4. \A j \in Kinds : held'[j] = "bound" \/ fresh'[j] = "bound" => port'[j] = "ours"
  <2>1. CASE held' = [held EXCEPT ![k] = "dead"] /\ port' \in Freed(held, {k})
             /\ UNCHANGED fresh /\ Alive(held[k])
    <3>1. \A j \in Kinds : j # k \/ held[k] # "bound" => port'[j] = port[j]
      BY <2>1 DEF Freed
    <3>2. held'[k] # "bound"
      BY <2>1 DEF IInv, TypeOK
    <3>3. held[k] = "bound" => fresh[k] # "bound"
      BY OneSessionBound
    <3>4. QED
      BY <2>1, <3>1, <3>2, <3>3 DEF IInv, TypeOK
  <2>2. CASE fresh' = [fresh EXCEPT ![k] = "dead"] /\ port' \in Freed(fresh, {k})
             /\ UNCHANGED held /\ Alive(fresh[k])
    <3>1. \A j \in Kinds : j # k \/ fresh[k] # "bound" => port'[j] = port[j]
      BY <2>2 DEF Freed
    <3>2. fresh'[k] # "bound"
      BY <2>2 DEF IInv, TypeOK
    <3>3. fresh[k] = "bound" => held[k] # "bound"
      BY OneSessionBound
    <3>4. QED
      BY <2>2, <3>1, <3>2, <3>3 DEF IInv, TypeOK
  <2>3. QED
    BY <2>1, <2>2 DEF ForwardDies
<1>5. TypeOK'
  BY <1>1, <1>2, <1>3, <1>4 DEF IInv, TypeOK, supervisor, loop, world
<1>6. IInv'
  BY <1>1, <1>2, <1>5, WorldKeeps
<1>7. QED
  BY <1>1, <1>6 DEF HealthKept

(* Other owners of the ports, the master, the network, the orchestrator.   *)
LEMMA OutsideKeeps ==
  ASSUME IInv,
         \/ \E k \in Kinds : PortFreed(k) \/ PortTaken(k)
         \/ MasterDies
         \/ World
  PROVE  IInv' /\ HealthKept
<1>1. /\ UNCHANGED <<supervisor, loop, held, fresh, leaked>>
      /\ master' => master
  BY DEF PortFreed, PortTaken, MasterDies, World, processes
<1>2. TypeOK'
  <2>1. CASE \E k \in Kinds : PortFreed(k) \/ PortTaken(k)
    <3>1. /\ port' \in [Kinds -> {"free", "ours", "taken"}]
          /\ \A j \in Kinds : port[j] = "ours" => port'[j] = "ours"
      BY <2>1 DEF PortFreed, PortTaken, IInv, TypeOK
    <3>2. UNCHANGED <<master, registered, world>>
      BY <2>1 DEF PortFreed, PortTaken
    <3>3. QED
      BY <1>1, <3>1, <3>2 DEF IInv, TypeOK, supervisor, loop, world
  <2>2. CASE MasterDies
    BY <2>2 DEF MasterDies, IInv, TypeOK, supervisor, loop, processes, world
  <2>3. CASE World
    BY <2>3 DEF World, WorldChanges, WorldRecovers, IInv, TypeOK, supervisor, loop,
                processes
  <2>4. QED
    BY <2>1, <2>2, <2>3
<1>3. IInv'
  BY <1>1, <1>2, WorldKeeps
<1>4. HealthKept
  BY <1>1 DEF PortFreed, PortTaken, MasterDies, World, WorldChanges, WorldRecovers,
              HealthKept, Healthy, supervisor, world
<1>5. QED
  BY <1>3, <1>4

-----------------------------------------------------------------------------
(* systemd *)
LEMMA UnitKeeps ==
  ASSUME IInv, UnitStarts \/ UnitGivesUp \/ UnitStops \/ StopTimesOut
  PROVE  IInv' /\ HealthKept
<1>1. CASE UnitStarts \/ UnitGivesUp
  <2>1. /\ pc \in {"off", "failed"} /\ pc' \in {"check", "off"}
        /\ UNCHANGED <<serving, interrupted, loop, processes, master, registered,
                       world>>
    BY <1>1 DEF UnitStarts, UnitGivesUp
  <2>2. TypeOK'
    BY <2>1 DEF IInv, TypeOK, loop, processes, world
  <2>3. ProcessInv'
    BY <2>1 DEF IInv, ProcessInv, AllDead, Building, processes
  <2>4. LoopInv'
    BY <2>1 DEF IInv, LoopInv, Broken, loop, processes
  <2>5. HealthKept
    BY <2>1 DEF IInv, LoopInv, HealthKept, Healthy
  <2>6. QED
    BY <2>2, <2>3, <2>4, <2>5 DEF IInv
<1>2. CASE (UnitStops \/ StopTimesOut) /\ UnitEnds("off") /\ UNCHANGED registered
  <2>1. interrupted \/ ~serving
    BY <1>2 DEF UnitStops, StopTimesOut, UnitEnds
  <2>2. registered' \in {"no", "up", "degraded"}
    BY <1>2 DEF IInv, TypeOK
  <2>3. QED
    BY <1>2, <2>1, <2>2, UnitEndsKeeps DEF HealthKept, Healthy
<1>3. CASE /\ serving /\ interrupted' = TRUE
           /\ UNCHANGED <<pc, serving, loop, processes, master, registered, world>>
  <2>1. TypeOK'
    BY <1>3 DEF IInv, TypeOK, loop, processes, world
  <2>2. ProcessInv'
    BY <1>3 DEF IInv, ProcessInv, AllDead, processes
  <2>3. LoopInv'
    BY <1>3 DEF IInv, LoopInv, Broken, loop, processes
  <2>4. HealthKept
    BY <1>3 DEF HealthKept, Healthy, processes, world
  <2>5. QED
    BY <2>1, <2>2, <2>3, <2>4 DEF IInv
<1>4. QED
  BY <1>1, <1>2, <1>3 DEF UnitStops, StopTimesOut

-----------------------------------------------------------------------------
(* start(): there is no old session to tear down or to lose.               *)
LEMMA BuildingKeeps ==
  ASSUME IInv, pc \in Building, UNCHANGED <<serving, interrupted, loop, held, world>>,
         pc' \in Building \cup {"backoff", "exiting"},
         pc' = "exiting" => ~serving,
         leaked' = {},
         pc' \notin {"event", "poll", "nonce", "register"} => fresh' = None,
         fresh' \in [Kinds -> Process],
         port' \in [Kinds -> {"free", "ours", "taken"}],
         \A k \in Kinds : fresh'[k] = "bound" => port'[k] = "ours",
         master' \in BOOLEAN, UNCHANGED registered
  PROVE  IInv' /\ HealthKept
<1>1. AllDead /\ AllDead'
  BY DEF IInv, ProcessInv, AllDead
<1>2. \A k \in Kinds : held[k] # "bound" /\ held'[k] # "bound"
  BY <1>1 DEF AllDead, Alive
<1>3. TypeOK'
  BY <1>2 DEF IInv, TypeOK, loop, world, Building
<1>4. ProcessInv'
  BY <1>1 DEF ProcessInv, Building
<1>5. LoopInv'
  BY <1>1 DEF IInv, LoopInv, Broken, AllDead, loop, Building, Kinds
<1>6. HealthKept
  BY <1>2 DEF HealthKept, Healthy, Kinds
<1>7. QED
  BY <1>3, <1>4, <1>5, <1>6 DEF IInv

(* An exception leaves nothing behind when the new session has been        *)
(* stopped, or has no process yet.                                         *)
LEMMA RaiseKeeps ==
  ASSUME IInv, pc \in Building, UNCHANGED <<serving, interrupted, loop, held, world>>,
         NEW forwards, \A k \in Kinds : ~Alive(forwards[k]), Raise(forwards),
         port' \in [Kinds -> {"free", "ours", "taken"}],
         master' \in BOOLEAN, UNCHANGED registered
  PROVE  IInv' /\ HealthKept
<1>1. /\ pc' \in {"backoff", "exiting"} /\ (pc' = "exiting" => ~serving)
      /\ leaked' = {} /\ fresh' = None
  BY DEF Raise, IInv, ProcessInv
<1>2. None \in [Kinds -> Process] /\ \A k \in Kinds : None[k] # "bound"
  BY DEF None, Process
<1>3. QED
  BY <1>1, <1>2, BuildingKeeps DEF Building

LEMMA CleanUpKeeps ==
  ASSUME IInv, pc \in Building, UNCHANGED <<serving, interrupted, loop, held, world>>,
         CleanUp, UNCHANGED registered
  PROVE  IInv' /\ HealthKept
<1>1. \A k \in Kinds : ~Alive(Stopped(fresh, Kinds)[k])
  BY DEF IInv, TypeOK, Stopped, Alive
<1>2. port' \in [Kinds -> {"free", "ours", "taken"}]
  BY DEF CleanUp, Freed
<1>3. master' \in BOOLEAN /\ Raise(Stopped(fresh, Kinds))
  BY DEF CleanUp, MasterExits, IInv, TypeOK
<1>4. QED
  BY <1>1, <1>2, <1>3, RaiseKeeps

LEMMA NoneIsDead == \A k \in Kinds : ~Alive(None[k])
BY DEF None, Alive

LEMMA MasterStepsKeep ==
  ASSUME IInv, CheckMaster \/ LaunchMaster \/ ExitMaster
  PROVE  IInv' /\ HealthKept
<1>1. /\ pc \in {"check", "launch", "exit"} /\ pc \in Building /\ fresh = None
      /\ UNCHANGED <<serving, interrupted, loop, held, port, registered, world>>
      /\ master' \in BOOLEAN
  BY DEF CheckMaster, LaunchMaster, ExitMaster, IInv, TypeOK, ProcessInv, Building
<1>2. /\ port' \in [Kinds -> {"free", "ours", "taken"}]
      /\ fresh \in [Kinds -> Process] /\ \A k \in Kinds : fresh[k] # "bound"
  BY <1>1 DEF IInv, TypeOK, None
<1>3. CASE Raise(fresh)
  BY <1>1, <1>2, <1>3, NoneIsDead, RaiseKeeps
<1>4. CASE pc' \in {"proxy", "launch", "check"} /\ UNCHANGED <<fresh, leaked>>
  <2>1. leaked' = {}
    BY <1>4 DEF IInv, ProcessInv
  <2>2. QED
    BY <1>1, <1>2, <1>4, <2>1, BuildingKeeps DEF Building
<1>5. QED
  BY <1>3, <1>4 DEF CheckMaster, LaunchMaster, ExitMaster

LEMMA ForwardStepsKeep ==
  ASSUME IInv, (\E k \in Kinds : StartForward(k)) \/ PollForward \/ WriteNonce
  PROVE  IInv' /\ HealthKept
<1>1. /\ pc \in {"proxy", "event", "poll", "nonce"} /\ pc \in Building
      /\ UNCHANGED <<serving, interrupted, loop, held, registered, world>>
  BY DEF StartForward, PollForward, WriteNonce, Kinds, Building
<1>2. CASE CleanUp
  BY <1>1, <1>2, CleanUpKeeps
<1>3. CASE /\ pc' \in {"event", "poll", "nonce", "register"}
           /\ leaked' = leaked /\ port' = port /\ master' = master
           /\ \/ fresh' = fresh
              \/ \E k \in Kinds : fresh' = [fresh EXCEPT ![k] = "dialling"]
  <2>1. /\ leaked' = {} /\ master' \in BOOLEAN
        /\ port' \in [Kinds -> {"free", "ours", "taken"}]
        /\ fresh' \in [Kinds -> Process]
        /\ \A k \in Kinds : fresh'[k] = "bound" => port'[k] = "ours"
    BY <1>3 DEF IInv, TypeOK, ProcessInv, Process
  <2>2. QED
    BY <1>1, <1>3, <2>1, BuildingKeeps DEF Building
<1>4. QED
  BY <1>2, <1>3 DEF StartForward, PollForward, WriteNonce

(* The session that start() returns replaces one that has no process.      *)
LEMMA RegisterKeeps ==
  ASSUME IInv, Register
  PROVE  IInv' /\ HealthKept
<1>1. pc = "register" /\ pc \in Building /\ AllDead /\ UNCHANGED <<interrupted, world>>
  BY DEF Register, Building, IInv, ProcessInv
<1>2. CASE broker
  <2>1. /\ registered' = "up" /\ pc' = "loop" /\ serving' = TRUE
        /\ held' = fresh /\ fresh' = None /\ leaked' = {}
        /\ failures' = 0 /\ backoff' = 0 /\ due' \in {due, 0}
        /\ UNCHANGED <<probe, forwardsOk, port, master>>
    BY <1>1, <1>2 DEF Register, IInv, ProcessInv, AllDead
  <2>2. None \in [Kinds -> Process] /\ \A k \in Kinds : None[k] # "bound"
    BY DEF None, Process
  <2>3. TypeOK'
    BY <1>1, <2>1, <2>2, SupervisorAssumption DEF IInv, TypeOK, world
  <2>4. ProcessInv'
    BY <2>1 DEF ProcessInv, Building
  <2>5. LoopInv'
    BY <2>1, SupervisorAssumption DEF LoopInv
  <2>6. HealthKept
    BY <1>1 DEF AllDead, HealthKept, Healthy, Alive, Kinds
  <2>7. QED
    BY <2>3, <2>4, <2>5, <2>6 DEF IInv
<1>3. CASE ~broker
  <2>1. CleanUp /\ UNCHANGED <<serving, loop, held, registered>>
    BY <1>3 DEF Register
  <2>2. QED
    BY <1>1, <2>1, CleanUpKeeps
<1>4. QED
  BY <1>2, <1>3 DEF IInv, TypeOK

LEMMA ExitKeeps ==
  ASSUME IInv, Exit
  PROVE  IInv' /\ HealthKept
<1>1. ~serving /\ UnitEnds("failed") /\ registered' \in {"no", "up", "degraded"}
  BY DEF Exit, IInv, LoopInv, TypeOK
<1>2. QED
  BY <1>1, UnitEndsKeeps DEF HealthKept, Healthy

-----------------------------------------------------------------------------
(* serve(): the loop acts on what it has seen.                             *)
LEMMA ProbeKeeps ==
  ASSUME IInv, Probe
  PROVE  IInv' /\ HealthKept
<1>1. /\ pc = "loop" /\ pc' = "beat"
      /\ UNCHANGED <<serving, interrupted, failures, backoff, due, held, fresh, leaked,
                     port, master, registered, world>>
      /\ forwardsOk' = AllAlive(held)
      /\ probe' \in {"ok", "failed", "timeout"} /\ (probe' = "failed" => ~master)
  BY DEF Probe, processes
<1>2. TypeOK'
  BY <1>1 DEF IInv, TypeOK, AllAlive, world
<1>3. ProcessInv'
  BY <1>1 DEF IInv, ProcessInv, Building
<1>4. LoopInv'
  BY <1>1 DEF IInv, LoopInv, Broken, AllAlive
<1>5. HealthKept
  BY <1>1 DEF HealthKept, Healthy, world
<1>6. QED
  BY <1>2, <1>3, <1>4, <1>5 DEF IInv

LEMMA BeatKeeps ==
  ASSUME IInv, Beat
  PROVE  IInv' /\ HealthKept
<1>1. /\ pc = "beat" /\ pc' = "decide"
      /\ UNCHANGED <<serving, interrupted, probe, forwardsOk, failures, backoff, held,
                     fresh, leaked, port, master, world>>
      /\ registered' \in {"up", "degraded", registered}
      /\ registered' # registered => registered' = IF forwardsOk THEN "up" ELSE "degraded"
      /\ due' \in {due, Beats}
  BY DEF Beat, processes
<1>2. TypeOK'
  BY <1>1, SupervisorAssumption DEF IInv, TypeOK, world
<1>3. ProcessInv'
  BY <1>1 DEF IInv, ProcessInv, AllDead, Building
<1>4. LoopInv'
  BY <1>1 DEF IInv, LoopInv, Broken
<1>5. HealthKept
  <2>1. forwardsOk \/ \E k \in Kinds : ~Alive(held[k])
    BY <1>1 DEF IInv, LoopInv
  <2>2. Healthy => forwardsOk
    BY <2>1 DEF Healthy, Alive
  <2>3. Healthy => registered' = "up"
    BY <1>1, <2>2 DEF Healthy
  <2>4. QED
    BY <1>1, <2>3 DEF HealthKept, Healthy, world
<1>6. QED
  BY <1>2, <1>3, <1>4, <1>5 DEF IInv

(* At the threshold, something is broken that does not mend itself: the    *)
(* count rises only for what is broken, and a timeout adds to it only if a *)
(* forward is dead.                                                        *)
LEMMA DecideKeeps ==
  ASSUME IInv, Decide
  PROVE  IInv' /\ HealthKept
<1>1. /\ pc = "decide" /\ pc' \in {"recover", "pause"}
      /\ UNCHANGED <<serving, interrupted, probe, forwardsOk, due, held, fresh, leaked,
                     port, master, registered, world>>
      /\ failures' = Counted /\ backoff' \in {0, backoff}
      /\ pc' = "recover" => Counted >= Threshold
  BY DEF Decide, processes
<1>2. Counted \in 0..Threshold
  BY SupervisorAssumption DEF Counted, IInv, TypeOK
<1>3. Counted >= Threshold => Broken
  <2>1. CASE probe = "failed" \/ ~forwardsOk
    BY <1>1, <2>1 DEF IInv, LoopInv, Broken
  <2>2. CASE ~(probe = "failed" \/ ~forwardsOk) /\ failures >= Threshold
    BY <2>2 DEF IInv, LoopInv
  <2>3. CASE ~(probe = "failed" \/ ~forwardsOk) /\ ~(failures >= Threshold)
    BY <2>3, SupervisorAssumption DEF Counted, IInv, TypeOK
  <2>4. QED
    BY <2>1, <2>2, <2>3
<1>4. TypeOK'
  BY <1>1, <1>2, SupervisorAssumption DEF IInv, TypeOK, world
<1>5. ProcessInv'
  BY <1>1 DEF IInv, ProcessInv, Building
<1>6. LoopInv'
  BY <1>1, <1>3 DEF IInv, LoopInv, Broken
<1>7. HealthKept
  BY <1>1 DEF HealthKept, Healthy, world
<1>8. QED
  BY <1>4, <1>5, <1>6, <1>7 DEF IInv

LEMMA StopForwardsKeeps ==
  ASSUME IInv, \/ pc = "recover" /\ StopForwards("exit")
               \/ pc = "stop" /\ StopForwards("stopped")
  PROVE  IInv' /\ HealthKept
<1>1. /\ held' \in [Kinds -> Process] /\ \A k \in Kinds : ~Alive(held'[k])
      /\ port' \in [Kinds -> {"free", "ours", "taken"}]
      /\ pc' \in {"exit", "stopped"} /\ (pc' = "stopped" => pc = "stop")
      /\ UNCHANGED <<serving, interrupted, loop, fresh, leaked, master, registered,
                     world>>
  BY DEF StopForwards, Stopped, Freed, Alive, Process, IInv, TypeOK
<1>2. fresh = None /\ \A k \in Kinds : fresh'[k] # "bound"
  BY <1>1 DEF IInv, ProcessInv, None
<1>3. TypeOK'
  BY <1>1, <1>2 DEF IInv, TypeOK, Alive, loop, world
<1>4. ProcessInv'
  BY <1>1, <1>2 DEF IInv, ProcessInv, AllDead
<1>5. LoopInv'
  BY <1>1 DEF IInv, LoopInv, Broken, loop, Kinds
<1>6. HealthKept
  BY DEF IInv, LoopInv, Broken, HealthKept, Healthy, Alive
<1>7. QED
  BY <1>3, <1>4, <1>5, <1>6 DEF IInv

LEMMA PauseKeeps ==
  ASSUME IInv, Pause
  PROVE  IInv' /\ HealthKept
<1>1. /\ pc \in {"pause", "backoff"} /\ pc' = "loop"
      /\ UNCHANGED <<serving, interrupted, probe, forwardsOk, failures, held, fresh,
                     leaked, port, master, registered, world>>
  BY DEF Pause, processes
<1>2. \A n : Minus(due, n) \in 0..Beats
  BY SupervisorAssumption DEF Minus, IInv, TypeOK
<1>3. due' \in 0..Beats /\ backoff' \in 0..MaxBackoff
  BY <1>2, SupervisorAssumption DEF Pause, IInv, TypeOK
<1>4. TypeOK'
  BY <1>1, <1>3 DEF IInv, TypeOK, world
<1>5. ProcessInv'
  BY <1>1 DEF IInv, ProcessInv, Building
<1>6. LoopInv'
  BY <1>1 DEF IInv, LoopInv, Broken
<1>7. HealthKept
  BY <1>1 DEF HealthKept, Healthy, world
<1>8. QED
  BY <1>4, <1>5, <1>6, <1>7 DEF IInv

LEMMA QuitKeeps ==
  ASSUME IInv, Unregister \/ QuitMaster \/ Quit
  PROVE  IInv' /\ HealthKept
<1>1. interrupted
  BY DEF Unregister, QuitMaster, Quit, IInv, LoopInv
<1>2. CASE Quit
  <2>1. UnitEnds("off") /\ registered' \in {"no", "up", "degraded"}
    BY <1>2 DEF Quit, IInv, TypeOK
  <2>2. QED
    BY <1>1, <2>1, UnitEndsKeeps DEF HealthKept
<1>3. CASE Unregister \/ QuitMaster
  <2>1. /\ pc \in {"loop", "quit"} /\ pc' \in {"quit", "stop"}
        /\ UNCHANGED <<serving, interrupted, loop, held, fresh, leaked, port, world>>
        /\ registered' \in {"no", registered}
    BY <1>3 DEF Unregister, QuitMaster, processes
  <2>2. master' \in BOOLEAN /\ (master' => master)
    <3>1. CASE master' = master
      BY <3>1 DEF IInv, TypeOK
    <3>2. CASE MasterExits /\ calm
      BY <3>2 DEF MasterExits
    <3>3. CASE MasterExits /\ ~calm
      <4>1. (master /\ ~calm) = master
        BY <3>3 DEF IInv, TypeOK
      <4>2. QED
        BY <3>3, <4>1 DEF MasterExits, IInv, TypeOK
    <3>4. QED
      BY <1>3, <3>1, <3>2, <3>3 DEF Unregister, QuitMaster, processes
  <2>3. TypeOK'
    BY <2>1, <2>2 DEF IInv, TypeOK, loop, world
  <2>4. ProcessInv'
    BY <2>1 DEF IInv, ProcessInv, Building
  <2>5. LoopInv'
    BY <1>1, <2>1, <2>2 DEF IInv, LoopInv, Broken, loop
  <2>6. QED
    BY <1>1, <2>3, <2>4, <2>5 DEF HealthKept, IInv
<1>4. QED
  BY <1>2, <1>3

-----------------------------------------------------------------------------
LEMMA InitInv == Init => IInv
<1> SUFFICES ASSUME Init PROVE IInv
  OBVIOUS
<1>1. None \in [Kinds -> Process] /\ \A k \in Kinds : None[k] # "bound" /\ ~Alive(None[k])
  BY DEF None, Process, Alive
<1>2. TypeOK
  <2>1. {serving, interrupted, forwardsOk, master, net, broker, calm} \subseteq BOOLEAN
    BY DEF Init
  <2>2. failures \in 0..Threshold /\ backoff \in 0..MaxBackoff /\ due \in 0..Beats
    BY SupervisorAssumption DEF Init
  <2>3. port \in [Kinds -> {"free", "ours", "taken"}]
    BY DEF Init
  <2>4. /\ pc = "off" /\ probe = "failed" /\ leaked = {} /\ registered = "no"
        /\ ~interrupted /\ held = None /\ fresh = None
    BY DEF Init
  <2>5. QED
    BY <1>1, <2>1, <2>2, <2>3, <2>4 DEF TypeOK
<1>3. ProcessInv
  BY <1>1 DEF Init, ProcessInv, AllDead
<1>4. LoopInv
  BY SupervisorAssumption DEF Init, LoopInv
<1>5. QED
  BY <1>2, <1>3, <1>4 DEF IInv

LEMMA NextInv == IInv /\ [Next]_vars => IInv' /\ [HealthKept]_vars
<1> SUFFICES ASSUME IInv, [Next]_vars PROVE IInv' /\ [HealthKept]_vars
  OBVIOUS
<1>1. CASE ProcessStep
  BY <1>1, MasterStepsKeep, ForwardStepsKeep, RegisterKeeps, ExitKeeps, ProbeKeeps,
     BeatKeeps, DecideKeeps, StopForwardsKeeps, PauseKeeps, QuitKeeps
  DEF ProcessStep, Recover, QuitForwards
<1>2. CASE UnitStarts \/ UnitGivesUp \/ UnitStops \/ StopTimesOut
  BY <1>2, UnitKeeps
<1>3. CASE \E k \in Kinds : Dial(k) \/ ForwardDies(k) \/ PortFreed(k) \/ PortTaken(k)
  BY <1>3, DialKeeps, ForwardDiesKeeps, OutsideKeeps
<1>4. CASE MasterDies \/ World
  BY <1>4, OutsideKeeps
<1>5. CASE UNCHANGED vars
  BY <1>5 DEF vars, supervisor, loop, processes, world, IInv, TypeOK, ProcessInv,
              LoopInv, AllDead, Broken
<1>6. QED
  BY <1>1, <1>2, <1>3, <1>4, <1>5 DEF Next

LEMMA Invariance == Spec => []IInv
BY InitInv, NextInv, PTL DEF Spec

(* Types, and that an ssh process of the supervisor that has bound a       *)
(* remote port is the one that has it.                                     *)
THEOREM TypeCorrect == Spec => []TypeOK
BY Invariance, PTL DEF IInv

(* No failure of start(), no recovery and no end of serve() leaves an ssh  *)
(* process running that the session does not know.                         *)
THEOREM NoForwardIsLeaked == Spec => []NoForwardLeaks
<1>1. IInv => NoForwardLeaks
  BY DEF IInv, ProcessInv, AllDead, NoForwardLeaks
<1>2. QED
  BY <1>1, Invariance, PTL

(* Once nothing fails any more, a healthy session stays healthy until it   *)
(* is interrupted, whatever was counted against it and however often the   *)
(* check of its master times out.                                          *)
THEOREM HealthIsKept == Spec => StaysHealthy
BY InitInv, NextInv, PTL DEF Spec, StaysHealthy, HealthKept
=============================================================================
