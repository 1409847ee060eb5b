---------------------------- MODULE EndpointLease ----------------------------
(***************************************************************************)
(* What the orchestrator promises about shared reverse tunnels, with every *)
(* mechanism left out (owners, heartbeats, back-off, event legs):          *)
(*                                                                         *)
(*   - a session holds at most one endpoint at a time;                     *)
(*   - a tunnel runs only while some session holds its endpoint, and the   *)
(*     departure of the last holder takes it down in the same step;        *)
(*   - what happens to one endpoint's holders leaves the other endpoints'  *)
(*     tunnels alone;                                                      *)
(*   - after a process exit the holders are forgotten, tunnels may be left *)
(*     running, and the next start removes all of them before it serves.   *)
(*                                                                         *)
(* LeaseTable implements this specification.                               *)
(***************************************************************************)
CONSTANTS Sessions, Endpoints

VARIABLES
  holders,   \* holders[e]: the sessions that hold endpoint e
  tunnel,    \* tunnel[e]: is a tunnel of endpoint e in place
  serving    \* is the orchestrator process there

vars == <<holders, tunnel, serving>>

Free(s) == \A e \in Endpoints : s \notin holders[e]

Init ==
  /\ holders = [e \in Endpoints |-> {}]
  /\ tunnel = [e \in Endpoints |-> FALSE]
  /\ serving = TRUE

(* A start, a restart or a failed attempt on endpoint e: the outcome is open. *)
Attempt(e) == \E up \in BOOLEAN : tunnel' = [tunnel EXCEPT ![e] = up]

Join(s, e) ==
  /\ serving
  /\ Free(s)
  /\ holders' = [holders EXCEPT ![e] = @ \cup {s}]
  /\ Attempt(e)
  /\ UNCHANGED serving

Leave(s, e) ==
  /\ serving
  /\ s \in holders[e]
  /\ holders' = [holders EXCEPT ![e] = @ \ {s}]
  /\ Attempt(e)
  /\ holders'[e] = {} => ~tunnel'[e]
  /\ UNCHANGED serving

(* A retry or a change of legs, on behalf of those who hold the endpoint. *)
Retune(e) ==
  /\ serving
  /\ holders[e] # {}
  /\ Attempt(e)
  /\ UNCHANGED <<holders, serving>>

(* The operator clears everything. *)
Clear ==
  /\ serving
  /\ holders' = [e \in Endpoints |-> {}]
  /\ tunnel' = [e \in Endpoints |-> FALSE]
  /\ UNCHANGED serving

(* The process goes, on its own or after a failed attempt on one endpoint. *)
Exit ==
  /\ serving
  /\ serving' = FALSE
  /\ holders' = [e \in Endpoints |-> {}]
  /\ tunnel' = tunnel \/ \E e \in Endpoints : holders[e] # {} /\ Attempt(e)

Boot ==
  /\ ~serving
  /\ serving' = TRUE
  /\ tunnel' = [e \in Endpoints |-> FALSE]
  /\ UNCHANGED holders

Next ==
  \/ \E s \in Sessions, e \in Endpoints : Join(s, e) \/ Leave(s, e)
  \/ \E e \in Endpoints : Retune(e)
  \/ Clear
  \/ Exit
  \/ Boot

Spec == Init /\ [][Next]_vars
=============================================================================
