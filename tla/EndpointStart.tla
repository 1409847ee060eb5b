---------------------------- MODULE EndpointStart ----------------------------
(***************************************************************************)
(* EndpointForwardManager at one endpoint as its caller sees it: start()   *)
(* and stop() are one step each, whatever systemd, ssh and the remote port *)
(* do meanwhile.                                                           *)
(*                                                                         *)
(*   - A start that returns has put up the unit it was asked for, or has   *)
(*     found a healthy remote 4227 and put up what was still missing.      *)
(*   - A start that raises has removed the unit or not touched it.         *)
(*   - A stop removes the unit, unless a 4227 was found since the last     *)
(*     one; a unit with an event leg alone is removed even then.           *)
(*   - Only an interrupted process leaves a unit of a start that has       *)
(*     neither returned nor raised.                                        *)
(*                                                                         *)
(* Where no 4227 is ever found these are the steps of LeaseTable and its   *)
(* three outcomes of a start.  EndpointForwarder implements this.          *)
(***************************************************************************)
CONSTANTS Users, NoUnit, NoRecord

VARIABLES
  unit,     \* the unit file
  record,   \* the endpoint's record in the lease table
  found,    \* since the last stop, the manager has found a healthy remote
            \* 4227, or a unit of its own that relies on one
  up        \* the server process is there

vars == <<unit, record, found, up>>

Unit == [user : Users, proxy : BOOLEAN, event : BOOLEAN]

Settled == [state : {"READY", "DEGRADED"}, owner : Users, event : BOOLEAN]

Init ==
  /\ unit = NoUnit
  /\ record = NoRecord
  /\ found = FALSE
  /\ up = TRUE

(* What the record becomes when a start for this user and these legs       *)
(* returns (done) or raises (failed): the first lease, a change of legs, a *)
(* takeover, a retry.                                                      *)
First(user, event, done, failed) ==
  /\ record = NoRecord
  /\ done = [state |-> "READY", owner |-> user, event |-> event]
  /\ failed = [done EXCEPT !.state = "DEGRADED"]

Retune(user, event, done, failed) ==
  /\ record # NoRecord
  /\ record.event # event
  /\ done = [record EXCEPT !.event = event]
  /\ failed = [record EXCEPT !.state = "DEGRADED"]

TakeOver(user, event, done, failed) ==
  /\ record # NoRecord
  /\ done = [record EXCEPT !.owner = user, !.event = event, !.state = "READY"]
  /\ failed = [done EXCEPT !.state = "DEGRADED"]

Retry(user, event, done, failed) ==
  /\ record # NoRecord
  /\ record.state # "READY"
  /\ record.event = event
  /\ done = [record EXCEPT !.owner = user, !.state = "READY"]
  /\ failed = [record EXCEPT !.state = "DEGRADED"]

Asked(user, event, done, failed) ==
  \/ First(user, event, done, failed)
  \/ Retune(user, event, done, failed)
  \/ TakeOver(user, event, done, failed)
  \/ Retry(user, event, done, failed)

Legs(user, proxy, event) == [user |-> user, proxy |-> proxy, event |-> event]

(* With a 4227 found, only an event leg is missing, if one is asked for.   *)
Completed(user, event) ==
  IF event THEN unit' = Legs(user, FALSE, TRUE) ELSE UNCHANGED unit

Returns(user, event, done) ==
  /\ record' = done
  /\ \/ unit' = Legs(user, TRUE, event) /\ UNCHANGED found
     \/ found' = TRUE /\ Completed(user, event)

Raises(failed) ==
  /\ record' = failed
  /\ unit' \in {NoUnit, unit}
  /\ UNCHANGED found

Start(user, event) ==
  /\ up
  /\ \E done, failed \in Settled :
       /\ Asked(user, event, done, failed)
       /\ Returns(user, event, done) \/ Raises(failed)
  /\ UNCHANGED up

(* A start may find a 4227 and still fail later. *)
Find ==
  /\ up
  /\ found' = TRUE
  /\ UNCHANGED <<unit, record, up>>

Stop ==
  /\ up
  /\ record # NoRecord
  /\ record' = NoRecord
  /\ found' = FALSE
  /\ \/ unit' = NoUnit
     \/ found /\ (unit # NoUnit => unit.proxy) /\ UNCHANGED unit
  /\ UNCHANGED up

Exit ==
  /\ up
  /\ up' = FALSE
  /\ record' = NoRecord
  /\ found' = FALSE
  /\ unit' \in {unit} \cup Unit

Restart ==
  /\ ~up
  /\ up' = TRUE
  /\ unit' = NoUnit
  /\ UNCHANGED <<record, found>>

Next ==
  \/ \E user \in Users, event \in BOOLEAN : Start(user, event)
  \/ Find
  \/ Stop
  \/ Exit
  \/ Restart

Spec == Init /\ [][Next]_vars
=============================================================================
