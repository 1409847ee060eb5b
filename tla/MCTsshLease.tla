---------------------------- MODULE MCTsshLease ----------------------------
(* TsshLease with a history variable: how late a lease may be through no   *)
(* fault of its client.  It counts the ticks for which the server was      *)
(* blocked since the lease was refreshed, and an interval for every        *)
(* heartbeat that found the backlog full.                                  *)
EXTENDS TsshLease

VARIABLE late

histVars == <<vars, late>>

HistInit == Init /\ late = [c \in Clients |-> 0]

HistNext ==
  /\ Next
  /\ late' = [c \in Clients |->
       IF lease'[c] \in {NoLease, 0} THEN 0
       ELSE IF busy' < busy /\ lease'[c] # lease[c] THEN late[c] + 1
       ELSE IF SendHeartbeat(c) /\ ~Room THEN late[c] + Interval(c)
       ELSE late[c]]

HistSpec == HistInit /\ [][HistNext]_histVars /\ Fairness

(* A running tssh keeps its lease as long as the server is at hand: for a  *)
(* lease of its own to expire, the server must have been blocked, in one   *)
(* or several starts since it was refreshed, for longer than the TTL less  *)
(* one heartbeat interval (or heartbeats found its backlog full for that   *)
(* long).                                                                  *)
LostOnlyWhenBlocked ==
  [][ server # "down" /\ server' # "down" =>
        \A c \in Tssh : main[c] = "running" /\ Stale(c) /\ lease'[c] = NoLease =>
          late[c] > LeaseTTL - Beat ]_histVars
=============================================================================
