--------------------------- MODULE MCOrchestrator ---------------------------
(* The orchestrator on a small instance: two sessions on one endpoint.     *)
EXTENDS Orchestrator, TLC

MCUsers == {1, 2}

(* Interactive sessions with keys, of two users. *)
MCInteractive ==
  {[user |-> 1, identity |-> TRUE, event |-> TRUE],
   [user |-> 2, identity |-> TRUE, event |-> TRUE]}

(* An interactive session with a key and one without, of different users. *)
MCKeyAndNoKey ==
  {[user |-> 1, identity |-> FALSE, event |-> TRUE],
   [user |-> 2, identity |-> TRUE, event |-> TRUE]}

MCDelays == <<1>>

NoTargets == {}

OneTarget == {CHOOSE t \in Targets : t[2] = 2}

Nobody == {}

(* Sessions are alike, so it is enough that one may die. *)
MCMortal == {CHOOSE s \in Sessions : TRUE}

MCLadder == <<1, 2>>

Symmetry == Permutations(Sessions)
=============================================================================
