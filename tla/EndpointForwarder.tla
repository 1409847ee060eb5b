-------------------------- MODULE EndpointForwarder --------------------------
(***************************************************************************)
(* EndpointForwardManager.start and .stop for one endpoint, command by     *)
(* command, with what they talk to: the unit file, the state systemd has   *)
(* the unit in, the ssh process, and who listens on the remote port 4227.  *)
(* LeaseTable has all of this in one step with three outcomes; the step is *)
(* EndpointStart, which this module implements, and StartOutcome says what *)
(* it leaves of the unit file.                                             *)
(*                                                                         *)
(* Abstractions: the two is-active observations half a second apart that   *)
(* confirm a start are one; a unit text is the user and the two legs; the  *)
(* daemon-reload that remove() leaves running is not a step of its own,    *)
(* because ensure() reloads again before it starts anything.  Leases all   *)
(* have keys, so that every change of the record comes with a start.       *)
(***************************************************************************)
EXTENDS Integers

CONSTANTS
  Users,        \* remote users of the endpoint
  NoUnit,       \* no unit file, no ssh process
  NoRecord,     \* no lease on the endpoint
  NoCall        \* the server is in neither start() nor stop()

Unit == [user : Users, proxy : BOOLEAN, event : BOOLEAN]

Record == [state : {"STARTING", "READY", "DEGRADED"}, owner : Users,
           event : BOOLEAN]

Steps == {"check", "probe", "inspect", "write", "launch", "confirm"}

(* done and failed: the record once start() has returned or raised;        *)
(* old: the unit file at the call.                                         *)
Call == [at : Steps, user : Users, event : BOOLEAN, proxy : BOOLEAN,
         active : BOOLEAN, changed : BOOLEAN, done : Record,
         failed : Record, old : Unit \cup {NoUnit}]

ASSUME AbsentAssumption ==
  NoUnit \notin Unit /\ NoRecord \notin Record /\ NoCall \notin Call

VARIABLES
  file,         \* the unit file
  service,      \* what systemd does with the unit
  ssh,          \* the unit text the ssh process was started with
  port,         \* who listens on the remote 4227
  external,     \* the endpoint is in _external
  eventOnly,    \* the endpoint is in _event_only
  record,       \* the endpoint's record in the lease table
  call,         \* the start() that is going on
  up            \* the server process is there

vars == <<file, service, ssh, port, external, eventOnly, record, call, up>>
environment == <<service, ssh, port>>
memory == <<external, eventOnly>>

TypeOK ==
  /\ file \in Unit \cup {NoUnit}
  /\ service \in {"inactive", "active", "restarting", "stopping"}
  /\ ssh \in Unit \cup {NoUnit}
  /\ port \in {"free", "ours", "foreign", "stuck"}
  /\ external \in BOOLEAN /\ eventOnly \in BOOLEAN /\ up \in BOOLEAN
  /\ record \in Record \cup {NoRecord}
  /\ call \in Call \cup {NoCall}
  /\ (ssh # NoUnit) = (service \in {"active", "stopping"})
  /\ service \in {"active", "restarting"} => file # NoUnit

Init ==
  /\ file = NoUnit
  /\ service = "inactive"
  /\ ssh = NoUnit
  /\ port = "free"
  /\ external = FALSE
  /\ eventOnly = FALSE
  /\ record = NoRecord
  /\ call = NoCall
  /\ up = TRUE

-----------------------------------------------------------------------------
(* systemd, ssh and the remote host *)

(* What becomes of the listener when our ssh ends: the remote sshd closes  *)
(* it at once, or only when it finds the connection dead.                  *)
PortAfterSsh == IF port = "ours" THEN {"free", "stuck"} ELSE {port}

Bind ==
  /\ service = "active"
  /\ ssh.proxy
  /\ port = "free"
  /\ port' = "ours"
  /\ UNCHANGED <<file, service, ssh, memory, record, call, up>>

(* ExitOnForwardFailure, a network that breaks, or a host that is away *)
SshEnds ==
  /\ service = "active"
  /\ service' = "restarting"
  /\ ssh' = NoUnit
  /\ port' \in PortAfterSsh
  /\ UNCHANGED <<file, memory, record, call, up>>

(* Restart=on-failure *)
AutoRestart ==
  /\ service = "restarting"
  /\ file # NoUnit
  /\ service' = "active"
  /\ ssh' = file
  /\ UNCHANGED <<file, port, memory, record, call, up>>

(* StartLimitBurst *)
GivesUp ==
  /\ service = "restarting"
  /\ service' = "inactive"
  /\ UNCHANGED <<file, ssh, port, memory, record, call, up>>

(* The stop job that remove() did not wait for *)
StopJobEnds ==
  /\ service = "stopping"
  /\ service' = "inactive"
  /\ ssh' = NoUnit
  /\ port' \in PortAfterSsh
  /\ UNCHANGED <<file, memory, record, call, up>>

(* Other controllers come and go; a dead listener is cleared some time. *)
PortChanges ==
  /\ \/ port = "free" /\ port' = "foreign"
     \/ port = "foreign" /\ port' \in {"free", "stuck"}
     \/ port = "stuck" /\ port' = "free"
  /\ UNCHANGED <<file, service, ssh, memory, record, call, up>>

-----------------------------------------------------------------------------
(* remove() *)

AfterStop ==
  /\ service' = IF service = "active" THEN "stopping"
                ELSE IF service = "restarting" THEN "inactive" ELSE service
  /\ UNCHANGED <<ssh, port>>

Remove ==
  /\ AfterStop
  /\ file' = NoUnit

-----------------------------------------------------------------------------
(* start() *)

Begin(user, event, done, failed) ==
  /\ up
  /\ call = NoCall
  /\ call' = [at |-> "check", user |-> user, event |-> event, proxy |-> TRUE,
              active |-> FALSE, changed |-> FALSE, done |-> done,
              failed |-> failed, old |-> file]
  /\ UNCHANGED <<file, environment, memory, up>>

Degraded(r) == [r EXCEPT !.state = "DEGRADED"]

(* The starts of the lease table: the first lease, a change of legs, a     *)
(* takeover, a retry.                                                      *)
FirstStart(user, event) ==
  /\ record = NoRecord
  /\ LET r == [state |-> "STARTING", owner |-> user, event |-> event]
     IN  /\ record' = r
         /\ Begin(user, event, [r EXCEPT !.state = "READY"], Degraded(r))

Retune(user, event) ==
  /\ record # NoRecord
  /\ record.event # event
  /\ Begin(user, event, [record EXCEPT !.event = event], Degraded(record))
  /\ UNCHANGED record

TakeOver(user, event) ==
  /\ record # NoRecord
  /\ LET r == [record EXCEPT !.owner = user, !.event = event]
     IN  Begin(user, event, [r EXCEPT !.state = "READY"], Degraded(r))
  /\ UNCHANGED record

Retry(user, event) ==
  /\ record # NoRecord
  /\ record.state # "READY"
  /\ record.event = event
  /\ Begin(user, event, [record EXCEPT !.owner = user, !.state = "READY"],
           Degraded(record))
  /\ UNCHANGED record

At(step) == up /\ call # NoCall /\ call.at = step

Goto(step) == call' = [call EXCEPT !.at = step]

Return ==
  /\ call' = NoCall
  /\ record' = call.done

Raise ==
  /\ call' = NoCall
  /\ record' = call.failed

(* is-active, and which legs the active unit has *)
Check ==
  /\ At("check")
  /\ \/ /\ service # "active"
        /\ Goto("probe")
        /\ UNCHANGED <<memory, record>>
     \/ /\ service = "active"
        /\ file # NoUnit => file.proxy
        /\ Goto("inspect")
        /\ UNCHANGED <<memory, record>>
     \/ /\ service = "active"
        /\ file # NoUnit /\ ~file.proxy
        /\ external' = TRUE
        /\ \/ /\ ~call.event
              /\ Return
              /\ UNCHANGED eventOnly
           \/ /\ call.event
              /\ eventOnly' = TRUE
              /\ call' = [call EXCEPT !.at = "inspect", !.proxy = FALSE]
              /\ UNCHANGED record
  /\ UNCHANGED <<file, environment, up>>

(* Mutant: an interactive session is content with the proxy alone. *)
MutantReuseAll ==
  /\ external' = TRUE
  /\ Return
  /\ UNCHANGED eventOnly

(* A healthy listener is reused, whoever it belongs to. *)
Reuse ==
  /\ external' = TRUE
  /\ \/ /\ ~call.event
        /\ Return
        /\ UNCHANGED eventOnly
     \/ /\ call.event
        /\ eventOnly' = TRUE
        /\ call' = [call EXCEPT !.at = "inspect", !.proxy = FALSE]
        /\ UNCHANGED record

(* probe_remote_proxy; it may also learn nothing (no curl, no connection). *)
Probe ==
  /\ At("probe")
  /\ \/ /\ port \in {"ours", "foreign"}
        /\ Reuse
     \/ /\ port = "stuck"
        /\ Raise
        /\ UNCHANGED memory
     \/ /\ Goto("inspect")
        /\ UNCHANGED <<memory, record>>
  /\ UNCHANGED <<file, environment, up>>

Text == [user |-> call.user, proxy |-> call.proxy, event |-> call.event]

(* ensure(): read, write and reload, (re)start *)
EnsureInspect ==
  /\ At("inspect")
  /\ call' = [call EXCEPT !.at = "write", !.changed = (file # Text),
                          !.active = (service = "active")]
  /\ UNCHANGED <<file, environment, memory, record, up>>

EnsureWrite ==
  /\ At("write")
  /\ file' = Text
  /\ Goto("launch")
  /\ UNCHANGED <<environment, memory, record, up>>

(* restart if the unit was active with another text, start if it was not;  *)
(* start leaves a unit alone that has become active meanwhile, and waits   *)
(* for a stop job.                                                         *)
EnsureLaunch ==
  /\ At("launch")
  /\ \/ /\ call.active /\ call.changed
        /\ service' = "active"
        /\ ssh' = file
        /\ port' \in PortAfterSsh
     \/ /\ ~call.active
        /\ service \in {"inactive", "restarting"}
        /\ service' = "active"
        /\ ssh' = file
        /\ UNCHANGED port
     \/ /\ \/ call.active /\ ~call.changed
           \/ ~call.active /\ service = "active"
        /\ UNCHANGED environment
  /\ Goto("confirm")
  /\ UNCHANGED <<file, memory, record, up>>

(* Mutant: the exception handler does not clear up. *)
MutantEnsureFailsOnly ==
  /\ At("inspect") \/ At("write") \/ At("launch")
  /\ Raise
  /\ UNCHANGED <<file, environment, memory, up>>

(* A command of ensure() fails: the unit is removed, whatever it was. *)
EnsureFails ==
  /\ At("inspect") \/ At("write") \/ At("launch")
  /\ Remove
  /\ Raise
  /\ UNCHANGED <<memory, up>>

Confirm ==
  /\ At("confirm")
  /\ service = "active"
  /\ Return
  /\ UNCHANGED <<file, environment, memory, up>>

(* Mutant: the loop has no bound. *)
MutantConfirmUnbounded ==
  /\ At("confirm")
  /\ service # "active"
  /\ UNCHANGED vars

ConfirmFails ==
  /\ At("confirm")
  /\ service # "active"
  /\ Remove
  /\ Raise
  /\ UNCHANGED <<memory, up>>

StartStep ==
  \/ Check \/ Probe \/ EnsureInspect \/ EnsureWrite \/ EnsureLaunch
  \/ Confirm \/ ConfirmFails

-----------------------------------------------------------------------------
(* stop(), and the process *)

(* Mutant: an event-only unit is left behind with the external proxy. *)
MutantStopLeavesEvent ==
  /\ up /\ call = NoCall /\ record # NoRecord
  /\ record' = NoRecord
  /\ external' = FALSE
  /\ eventOnly' = FALSE
  /\ IF external THEN UNCHANGED <<file, environment>> ELSE Remove
  /\ UNCHANGED <<call, up>>

(* Mutant: the endpoint stays in _external. *)
MutantStopForgets ==
  /\ up /\ call = NoCall /\ record # NoRecord
  /\ record' = NoRecord
  /\ IF external /\ ~eventOnly THEN UNCHANGED <<file, environment>> ELSE Remove
  /\ UNCHANGED <<memory, call, up>>

Stop ==
  /\ up
  /\ call = NoCall
  /\ record # NoRecord
  /\ record' = NoRecord
  /\ external' = FALSE
  /\ \/ /\ external /\ ~eventOnly
        /\ UNCHANGED <<file, environment, eventOnly>>
     \/ /\ external /\ eventOnly
        /\ eventOnly' = FALSE
        /\ Remove
     \/ /\ ~external
        /\ Remove
        /\ UNCHANGED eventOnly
  /\ UNCHANGED <<call, up>>

Exit ==
  /\ up
  /\ up' = FALSE
  /\ external' = FALSE
  /\ eventOnly' = FALSE
  /\ record' = NoRecord
  /\ call' = NoCall
  /\ UNCHANGED <<file, environment>>

(* Mutant: disable without --now. *)
MutantOrphansDisabled ==
  /\ ~up
  /\ up' = TRUE
  /\ file' = NoUnit
  /\ UNCHANGED <<environment, memory, record, call>>

(* cleanup_orphans: disable --now waits, and units without a file count *)
Restart ==
  /\ ~up
  /\ up' = TRUE
  /\ file' = NoUnit
  /\ service' = "inactive"
  /\ ssh' = NoUnit
  /\ port' \in PortAfterSsh
  /\ UNCHANGED <<memory, record, call>>

Environment ==
  Bind \/ SshEnds \/ AutoRestart \/ GivesUp \/ StopJobEnds \/ PortChanges

Request ==
  \/ \E u \in Users, e \in BOOLEAN :
       FirstStart(u, e) \/ Retune(u, e) \/ TakeOver(u, e) \/ Retry(u, e)
  \/ Stop

Next == Environment \/ Request \/ StartStep \/ EnsureFails \/ Exit \/ Restart

Spec == Init /\ [][Next]_vars

(* The server's thread runs, and systemd ends its stop jobs (it kills what *)
(* does not stop).  No command is assumed to fail.                         *)
FairSpec == Spec /\ WF_vars(StartStep) /\ WF_vars(StopJobEnds)

-----------------------------------------------------------------------------
(* Properties *)

Idle == up /\ call = NoCall

(* What LeaseTable takes start() for.  When it returns and nobody else's   *)
(* proxy was taken for a substitute, the unit is that of the call, with    *)
(* all its legs; when it raises, the unit is gone or as it was.            *)
OutcomeOK ==
  call # NoCall /\ call' = NoCall /\ up' =>
    \/ /\ record' = call.done
       /\ \/ external'
          \/ file' = [user |-> call.user, proxy |-> TRUE, event |-> call.event]
    \/ /\ record' = call.failed
       /\ file' \in {NoUnit, call.old}

StartOutcome == [][OutcomeOK]_vars

(* A READY endpoint that interactive sessions use has a unit of our own    *)
(* with an event leg, through reuse, changes of legs, takeovers and failed *)
(* attempts; and one without any unit has reused a proxy.                  *)
EventLegIsOurs ==
  Idle /\ record # NoRecord /\ record.state = "READY" =>
    /\ record.event => file # NoUnit /\ file.event
    /\ file = NoUnit => external

(* Once the last lease is gone, no unit with an event leg alone is left.   *)
NoEventUnitLeft ==
  Idle /\ record = NoRecord => file = NoUnit \/ file.proxy

(* Every start() comes to an end, also one that must wait for the stop job *)
(* of the release before it: the server has one thread.                    *)
CallReturns == call # NoCall ~> call = NoCall

(* A start() that is going on is seen by nobody: the record of a first     *)
(* lease and the unit it works on appear when it returns or raises.        *)
UnitSeen == IF call = NoCall THEN file ELSE call.old

RecordSeen ==
  IF call # NoCall /\ record.state = "STARTING" THEN NoRecord ELSE record

Abstract == INSTANCE EndpointStart WITH
  unit <- UnitSeen, record <- RecordSeen, found <- external

ImplementsEndpointStart == Abstract!Spec

(* docs/tssh-endpoint-lifecycle-design.md:14 and :183: the last release    *)
(* stops and deletes the tunnel.                                           *)
LastReleaseRemovesUnit == Idle /\ record = NoRecord => file = NoUnit
=============================================================================
