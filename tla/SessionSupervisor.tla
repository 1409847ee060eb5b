-------------------------- MODULE SessionSupervisor --------------------------
(***************************************************************************)
(* The managed session of one target: `remote-dev orchestrator connect     *)
(* --persistent`, that is SessionManager.start and serve, in its systemd   *)
(* unit.  It owns an ssh ControlMaster and two ssh processes that forward  *)
(* the proxy and the event port, and keeps the orchestrator told of them.  *)
(*                                                                         *)
(* ssh, the remote host's ports, systemd and the orchestrator's table of   *)
(* targets are modelled as this code uses them; TargetTable has the        *)
(* latter.  Faults come at any time until the world calms down.            *)
(***************************************************************************)
EXTENDS Integers

CONSTANTS
  Threshold,    \* consecutive_failures at which serve() recovers
  MaxBackoff,   \* doublings of the pause between two recoveries
  Beats         \* pauses of the loop between two registrations

ASSUME SupervisorAssumption == {Threshold, MaxBackoff, Beats} \subseteq Nat \ {0}

Kinds == {"proxy", "event"}

VARIABLES
  pc,           \* the next statement of the process, or the unit's state
  serving,      \* serve() has begun: its signal handlers are installed
  interrupted,  \* SIGTERM has been handled
  probe,        \* what the check of the master said
  forwardsOk,   \* what the last look at the processes said
  failures, backoff, due,
  held,         \* the forward processes of the session object
  fresh,        \* those of the session that start() is building
  leaked,       \* live processes that no variable refers to
  master,       \* the ControlMaster is up
  port,         \* who listens on the remote ports
  net, broker,  \* the remote host and the orchestrator can be reached
  registered,   \* the orchestrator's entry of the target: its proxy_available
  calm          \* no more faults

supervisor == <<pc, serving, interrupted>>
loop == <<probe, forwardsOk, failures, backoff, due>>
processes == <<held, fresh, leaked, port>>
world == <<net, broker, calm>>
vars == <<supervisor, loop, processes, master, registered, world>>

Process == {"none", "dialling", "bound", "dead"}

TypeOK ==
  /\ pc \in {"off", "failed", "check", "launch", "proxy", "event", "nonce", "register",
             "poll", "exiting", "loop", "beat", "decide", "recover", "exit", "backoff",
             "pause", "quit", "stop", "stopped"}
  /\ {serving, interrupted, forwardsOk, master, net, broker, calm} \subseteq BOOLEAN
  /\ probe \in {"ok", "failed", "timeout"}
  /\ failures \in 0..Threshold /\ backoff \in 0..MaxBackoff /\ due \in 0..Beats
  /\ held \in [Kinds -> Process] /\ fresh \in [Kinds -> Process]
  /\ leaked \subseteq Kinds
  /\ port \in [Kinds -> {"free", "ours", "taken"}]
  /\ registered \in {"no", "up", "degraded"}
  /\ interrupted => serving
  /\ \A k \in Kinds : held[k] = "bound" \/ fresh[k] = "bound" => port[k] = "ours"

None == [k \in Kinds |-> "none"]

Init ==
  /\ pc = "off" /\ serving = FALSE /\ interrupted = FALSE
  /\ probe = "failed" /\ forwardsOk = FALSE
  /\ failures = 0 /\ backoff = 0 /\ due = 0
  /\ held = None /\ fresh = None /\ leaked = {}
  /\ master = FALSE
  /\ port = [k \in Kinds |-> "free"]
  /\ net = TRUE /\ broker = TRUE /\ registered = "no"
  /\ calm = FALSE

-----------------------------------------------------------------------------
(* ssh and the remote host *)

Alive(process) == process \in {"dialling", "bound"}

(* A port is taken by a stranger, or by the listener of a connection that  *)
(* was lost, until the remote sshd notices; when a connection is closed,   *)
(* its listener goes with it.                                              *)
Left == IF calm THEN {"free"} ELSE {"free", "taken"}

Freed(forwards, ks) ==
  {p \in [Kinds -> {"free", "ours", "taken"}] :
     \A k \in Kinds : IF k \in ks /\ forwards[k] = "bound" THEN p[k] \in Left
                      ELSE p[k] = port[k]}

(* ProxyForwarder.stop *)
Stopped(forwards, ks) ==
  [k \in Kinds |-> IF k \in ks /\ forwards[k] # "none" THEN "dead" ELSE forwards[k]]

(* ssh has connected and asks for the port, or it exits. *)
Dialled(process, k) ==
  /\ process[k] = "dialling"
  /\ port' = IF net /\ port[k] = "free" THEN [port EXCEPT ![k] = "ours"] ELSE port
  /\ UNCHANGED <<supervisor, loop, leaked, master, registered, world>>

(* Mutant: an ssh that cannot have the port stays, without it. *)
MutantOutcome(k) == IF net THEN "bound" ELSE "dead"

Outcome(k) == IF net /\ port[k] = "free" THEN "bound" ELSE "dead"

Dial(k) ==
  \/ Dialled(held, k) /\ held' = [held EXCEPT ![k] = Outcome(k)] /\ UNCHANGED fresh
  \/ Dialled(fresh, k) /\ fresh' = [fresh EXCEPT ![k] = Outcome(k)] /\ UNCHANGED held

ForwardDies(k) ==
  /\ ~calm
  /\ \/ /\ Alive(held[k])
        /\ held' = [held EXCEPT ![k] = "dead"]
        /\ port' \in Freed(held, {k})
        /\ UNCHANGED fresh
     \/ /\ Alive(fresh[k])
        /\ fresh' = [fresh EXCEPT ![k] = "dead"]
        /\ port' \in Freed(fresh, {k})
        /\ UNCHANGED held
  /\ UNCHANGED <<supervisor, loop, leaked, master, registered, world>>

PortFreed(k) ==
  /\ port[k] = "taken"
  /\ port' = [port EXCEPT ![k] = "free"]
  /\ UNCHANGED <<supervisor, loop, held, fresh, leaked, master, registered, world>>

PortTaken(k) ==
  /\ ~calm
  /\ port[k] = "free"
  /\ port' = [port EXCEPT ![k] = "taken"]
  /\ UNCHANGED <<supervisor, loop, held, fresh, leaked, master, registered, world>>

MasterDies ==
  /\ ~calm /\ master
  /\ master' = FALSE
  /\ UNCHANGED <<supervisor, loop, processes, registered, world>>

(* The network, and the orchestrator, which forgets its targets *)
WorldChanges ==
  \/ /\ ~calm /\ net /\ net' = FALSE /\ UNCHANGED <<broker, registered, calm>>
  \/ /\ ~calm /\ broker /\ broker' = FALSE /\ registered' = "no" /\ UNCHANGED <<net, calm>>
  \/ /\ ~calm /\ calm' = TRUE /\ UNCHANGED <<net, broker, registered>>

WorldRecovers ==
  \/ ~net /\ net' = TRUE /\ UNCHANGED <<broker, registered, calm>>
  \/ ~broker /\ broker' = TRUE /\ UNCHANGED <<net, registered, calm>>

World ==
  /\ WorldChanges \/ WorldRecovers
  /\ UNCHANGED <<supervisor, loop, processes, master>>

-----------------------------------------------------------------------------
(* The unit *)

(* All processes of the unit's control group end with it. *)
UnitEnds(label) ==
  /\ pc' = label
  /\ serving' = FALSE /\ interrupted' = FALSE
  /\ held' = None /\ fresh' = None /\ leaked' = {}
  /\ port' \in {p \in [Kinds -> {"free", "taken"}] :
                  \A k \in Kinds : IF port[k] = "ours" THEN p[k] \in Left
                                   ELSE p[k] = port[k]}
  /\ master' = FALSE
  /\ UNCHANGED <<loop, world>>

(* install, or the restart of a unit that failed *)
UnitStarts ==
  /\ pc \in {"off", "failed"}
  /\ pc' = "check"
  /\ UNCHANGED <<serving, interrupted, loop, processes, master, registered, world>>

(* The limit of starts is reached. *)
UnitGivesUp ==
  /\ ~calm
  /\ pc = "failed"
  /\ pc' = "off"
  /\ UNCHANGED <<serving, interrupted, loop, processes, master, registered, world>>

(* SIGTERM ends the process before serve(), and is a flag after. *)
UnitStops ==
  \/ /\ pc \notin {"off", "failed"} /\ ~serving
     /\ UnitEnds("off")
     /\ UNCHANGED registered
  \/ /\ serving /\ ~interrupted
     /\ interrupted' = TRUE
     /\ UNCHANGED <<pc, serving, loop, processes, master, registered, world>>

(* A pause may be longer than the unit is given to stop. *)
StopTimesOut ==
  /\ interrupted
  /\ UnitEnds("off")
  /\ UNCHANGED registered

-----------------------------------------------------------------------------
(* start *)

(* An exception: serve() pauses, the command exits.  What the new session  *)
(* had is out of reach.                                                    *)
Raise(forwards) ==
  /\ pc' = IF serving THEN "backoff" ELSE "exiting"
  /\ leaked' = leaked \cup {k \in Kinds : Alive(forwards[k])}
  /\ fresh' = None

(* `-O exit` is without effect when it times out. *)
MasterExits == master' \in {FALSE, master /\ ~calm}

(* Mutant: a session that fails is dropped with its processes. *)
MutantCleanUp ==
  /\ Raise(fresh)
  /\ MasterExits
  /\ UNCHANGED port

(* Forwards are stopped, the master is, and the exception goes on. *)
CleanUp ==
  /\ Raise(Stopped(fresh, Kinds))
  /\ port' \in Freed(fresh, Kinds)
  /\ MasterExits

CheckMaster ==
  /\ pc = "check"
  /\ \/ pc' = (IF master THEN "proxy" ELSE "launch") /\ UNCHANGED <<fresh, leaked>>
     \/ ~calm /\ Raise(fresh)
  /\ UNCHANGED <<serving, interrupted, loop, held, port, master, registered, world>>

LaunchMaster ==
  /\ pc = "launch"
  /\ \/ net /\ pc' = "proxy" /\ master' = TRUE /\ UNCHANGED <<fresh, leaked>>
     \/ ~(net /\ calm) /\ Raise(fresh) /\ UNCHANGED master
  /\ UNCHANGED <<serving, interrupted, loop, held, port, registered, world>>

StartForward(k) ==
  /\ pc = k
  /\ fresh' = [fresh EXCEPT ![k] = "dialling"]
  /\ pc' = "poll"
  /\ UNCHANGED <<serving, interrupted, loop, held, leaked, port, master, registered,
                 world>>

(* 0.15 s later: an ssh that has not exited counts as a forward. *)
PollForward ==
  /\ pc = "poll"
  /\ LET k == IF fresh["event"] = "none" THEN "proxy" ELSE "event"
     IN  IF fresh[k] = "dead" THEN CleanUp
         ELSE /\ pc' = IF k = "proxy" THEN "event" ELSE "nonce"
              /\ UNCHANGED <<fresh, leaked, port, master>>
  /\ UNCHANGED <<serving, interrupted, loop, held, registered, world>>

(* A forward that dies after its poll is found by the probes of serve().   *)
WriteNonce ==
  /\ pc = "nonce"
  /\ \/ /\ net /\ master
        /\ pc' = "register"
        /\ UNCHANGED <<fresh, leaked, port, master>>
     \/ ~(net /\ master /\ calm) /\ CleanUp
  /\ UNCHANGED <<serving, interrupted, loop, held, registered, world>>

(* The session is registered, with proxy_available although ssh may still  *)
(* be dialling, and start() returns it to serve().                         *)
Register ==
  /\ pc = "register"
  /\ \/ /\ broker
        /\ registered' = "up"
        /\ pc' = "loop"
        /\ serving' = TRUE
        /\ held' = fresh
        /\ fresh' = None
        /\ leaked' = leaked \cup {k \in Kinds : Alive(held[k])}
        /\ failures' = 0 /\ backoff' = 0
        /\ due' = IF serving THEN due ELSE 0
        /\ UNCHANGED <<probe, forwardsOk, port, master>>
     \/ /\ ~broker
        /\ CleanUp
        /\ UNCHANGED <<serving, loop, held, registered>>
  /\ UNCHANGED <<interrupted, world>>

Exit ==
  /\ pc = "exiting"
  /\ UnitEnds("failed")
  /\ UNCHANGED registered

-----------------------------------------------------------------------------
(* serve *)

(* Mutant: the event forward is not looked at. *)
MutantAllAlive(forwards) == Alive(forwards["proxy"])

AllAlive(forwards) == \A k \in Kinds : Alive(forwards[k])

(* The check of a master that is busy times out. *)
Probe ==
  /\ pc = "loop"
  /\ ~interrupted
  /\ probe' \in IF master THEN {"ok", "timeout"} ELSE {"failed"}
  /\ forwardsOk' = AllAlive(held)
  /\ pc' = "beat"
  /\ UNCHANGED <<serving, interrupted, failures, backoff, due, processes, master,
                 registered, world>>

(* Mutant: only a session whose forwards are alive is registered again. *)
MutantBeat ==
  /\ pc = "beat"
  /\ registered' = IF due = 0 /\ broker /\ forwardsOk THEN "up" ELSE registered
  /\ due' = IF due = 0 THEN Beats ELSE due
  /\ pc' = "decide"
  /\ UNCHANGED <<serving, interrupted, probe, forwardsOk, failures, backoff, processes,
                 master, world>>

(* The registration every 20 s, with proxy_available if both forwards are  *)
(* alive; the orchestrator need not be there.                              *)
Beat ==
  /\ pc = "beat"
  /\ registered' = IF due = 0 /\ broker
                   THEN IF forwardsOk THEN "up" ELSE "degraded"
                   ELSE registered
  /\ due' = IF due = 0 THEN Beats ELSE due
  /\ pc' = "decide"
  /\ UNCHANGED <<serving, interrupted, probe, forwardsOk, failures, backoff, processes,
                 master, world>>

(* Mutant: a probe that timed out is a failure. *)
MutantCounted ==
  IF probe = "ok" /\ forwardsOk THEN 0
  ELSE IF failures < Threshold THEN failures + 1 ELSE failures

Counted ==
  IF probe = "ok" /\ forwardsOk THEN 0
  ELSE IF (probe = "failed" \/ ~forwardsOk) /\ failures < Threshold THEN failures + 1
  ELSE failures

Decide ==
  /\ pc = "decide"
  /\ failures' = Counted
  /\ backoff' = IF probe = "ok" /\ forwardsOk THEN 0 ELSE backoff
  /\ pc' = IF Counted >= Threshold THEN "recover" ELSE "pause"
  /\ UNCHANGED <<serving, interrupted, probe, forwardsOk, due, processes, master,
                 registered, world>>

StopForwards(label) ==
  /\ held' = Stopped(held, Kinds)
  /\ port' \in Freed(held, Kinds)
  /\ pc' = label
  /\ UNCHANGED <<serving, interrupted, loop, fresh, leaked, master, registered, world>>

Recover == pc = "recover" /\ StopForwards("exit")

(* A stop of the master that times out is an exception like one of start. *)
ExitMaster ==
  /\ pc = "exit"
  /\ \/ master' = FALSE /\ pc' = "check" /\ UNCHANGED <<fresh, leaked>>
     \/ ~calm /\ Raise(fresh) /\ UNCHANGED master
  /\ UNCHANGED <<serving, interrupted, loop, held, port, registered, world>>

Minus(m, n) == IF n \in 0..m THEN m - n ELSE 0

(* What the orchestrator's status shows of the target.  Each registration  *)
(* sends a row for both forwards, whose state is READY whatever became of  *)
(* their processes, so only proxy_available tells of them.                 *)
Status ==
  [available |-> registered = "up",
   ready |-> IF registered = "no" THEN {} ELSE Kinds]

(* The pauses: 5 s, and after a recovery that failed up to 300 s *)
Pause ==
  /\ \/ /\ pc = "pause"
        /\ due' = Minus(due, 1)
        /\ UNCHANGED backoff
     \/ /\ pc = "backoff"
        /\ due' = Minus(due, 2 ^ backoff)
        /\ backoff' = IF backoff < MaxBackoff THEN backoff + 1 ELSE backoff
  /\ pc' = "loop"
  /\ UNCHANGED <<serving, interrupted, probe, forwardsOk, failures, processes, master,
                 registered, world>>

(* The finally of serve(): unregister, whether or not it can be, the       *)
(* master, the forwards.                                                   *)
Unregister ==
  /\ pc = "loop" /\ interrupted
  /\ registered' = IF broker THEN "no" ELSE registered
  /\ pc' = "quit"
  /\ UNCHANGED <<serving, interrupted, loop, processes, master, world>>

QuitMaster ==
  /\ pc = "quit"
  /\ MasterExits
  /\ pc' = "stop"
  /\ UNCHANGED <<serving, interrupted, loop, processes, registered, world>>

QuitForwards == pc = "stop" /\ StopForwards("stopped")

Quit ==
  /\ pc = "stopped"
  /\ UnitEnds("off")
  /\ UNCHANGED registered

-----------------------------------------------------------------------------
ProcessStep ==
  \/ CheckMaster \/ LaunchMaster \/ (\E k \in Kinds : StartForward(k)) \/ PollForward
  \/ WriteNonce \/ Register \/ Exit
  \/ Probe \/ Beat \/ Decide \/ Recover \/ ExitMaster \/ Pause
  \/ Unregister \/ QuitMaster \/ QuitForwards \/ Quit

Next ==
  \/ ProcessStep
  \/ UnitStarts \/ UnitGivesUp \/ UnitStops \/ StopTimesOut
  \/ \E k \in Kinds : Dial(k) \/ ForwardDies(k) \/ PortFreed(k) \/ PortTaken(k)
  \/ MasterDies
  \/ World

Spec == Init /\ [][Next]_vars

(* The process runs; systemd restarts a unit that failed; what was lost    *)
(* comes back some time; ssh connects or gives up.                         *)
Fairness ==
  /\ WF_vars(ProcessStep)
  /\ WF_vars(pc = "failed" /\ UnitStarts)
  /\ \A k \in Kinds : WF_vars(Dial(k)) /\ WF_vars(PortFreed(k))
  /\ WF_vars(WorldRecovers /\ UNCHANGED <<supervisor, loop, processes, master>>)

FairSpec == Spec /\ Fairness

-----------------------------------------------------------------------------
(* Properties *)

Healthy ==
  /\ serving /\ master /\ broker
  /\ \A k \in Kinds : held[k] = "bound"
  /\ registered = "up"

(* No ssh process is left behind: not when one step of start fails after   *)
(* others succeeded, not when the session is replaced by a new one, and    *)
(* not when the supervisor stops.                                          *)
NoForwardLeaks ==
  /\ leaked = {}
  /\ pc = "stopped" => \A k \in Kinds : ~Alive(held[k])

(* A session that works is not torn down: however often the check of a     *)
(* busy master times out, and whatever was counted before.                 *)
StaysHealthy ==
  [][calm /\ Healthy /\ ~interrupted => Healthy']_vars

(* When faults have ended, the session gets well, by itself. *)
Recovers ==
  calm /\ pc # "off" ~> Healthy \/ pc = "off"

Verified == \A k \in Kinds : held[k] = "bound"

(* proxy_available does not stand for good for a forward that has died;    *)
(* and where it was set while ssh was still dialling it comes true or is   *)
(* taken back, unless a recovery replaces the forwards first.  (The rows   *)
(* are never corrected.)                                                   *)
StatusIsCorrected ==
  /\ serving /\ Status.available /\ ~AllAlive(held)
       ~> ~serving \/ ~Status.available \/ AllAlive(held)
  /\ serving /\ Status.available /\ ~Verified
       ~> ~serving \/ ~Status.available \/ Verified \/ pc = "recover"

(* "None means the control probe timed out.  Keep both the current failure *)
(* count and the live master untouched": a recovery does not send a live   *)
(* master its exit in a pass whose check timed out.                        *)
TimeoutKeepsMaster ==
  [][pc = "exit" /\ pc' = "check" /\ master => probe # "timeout"]_vars
=============================================================================
