---------------------------- MODULE MCLeaseTable ----------------------------
(* LeaseTable on a small instance: one endpoint that several sessions of   *)
(* two users share.                                                        *)
EXTENDS LeaseTable, TLC

MCUsers == {1, 2}

(* An interactive session with a key, a proxy-only one with a key, and an  *)
(* interactive one without a key.                                          *)
MCProfiles ==
  {[user |-> 1, identity |-> TRUE, event |-> TRUE],
   [user |-> 2, identity |-> TRUE, event |-> FALSE],
   [user |-> 2, identity |-> TRUE, event |-> TRUE],
   [user |-> 1, identity |-> FALSE, event |-> TRUE]}

MCDelays == <<1, 2>>

Symmetry == Permutations(Sessions)
=============================================================================
