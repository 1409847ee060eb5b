---------------------------- MODULE TsshLeaseProofs ----------------------------
(***************************************************************************)
(* A tssh session keeps its lease as long as the server is at hand, for    *)
(* any number of clients and for all times, limits and intervals that      *)
(* LeaseSettings admits.  The argument follows the request of a heartbeat  *)
(* thread on its way through the backlog to the server: while it is        *)
(* there, only a blocked server lets time pass.                            *)
(***************************************************************************)
EXTENDS MCTsshLease, SequenceTheorems, TLAPS

(* The request the server handles, and those behind it. *)
Line == 0..Len(queue)

Ticket(i) == IF i = 0 THEN current ELSE queue[i]

Of(i, c) == Ticket(i) # NoRequest /\ Ticket(i).from = c

(* The request whose answer the heartbeat thread of c waits for. *)
Beats(i, c) == Of(i, c) /\ Ticket(i).by = "thread" /\ Ticket(i).open

ThreadOK(c) ==
  /\ \A i \in Line : Beats(i, c) => thread[c] \in {"beating", "restoring", "again"}
                                    /\ Ticket(i).op \in {"heartbeat", "acquire"}
  /\ \A i, j \in Line : Beats(i, c) /\ Beats(j, c) => i = j
  /\ thread[c] \in {"beating", "restoring", "again"} => \E i \in Line : Beats(i, c)
  /\ thread[c] = "waiting" => pause[c] <= Interval(c)

Acquires(i, c) ==
  Of(i, c) /\ Ticket(i).by = "main" /\ Ticket(i).op = "acquire" /\ Ticket(i).open

MainOK(c) ==
  /\ main[c] = "new" => lease[c] = NoLease /\ \A i \in Line : ~Of(i, c)
  /\ main[c] = "acquiring" => \E i \in Line : Acquires(i, c)
  /\ main[c] = "running" /\ c \in Tssh => thread[c] # "off"

(* A request that will refresh the lease is in the backlog, whether or not *)
(* anyone still waits for its answer.                                      *)
Refreshing(c) ==
  \E i \in Line \ {0} : Of(i, c) /\ Ticket(i).op \in {"acquire", "heartbeat"}

LeaseOK(c) ==
  lease[c] # NoLease =>
    /\ main[c] = "acquiring" => lease[c] <= late[c]
    /\ main[c] = "running" => lease[c] <= Beat + late[c]
    /\ main[c] = "running" /\ ~Refreshing(c) =>
         /\ thread[c] = "waiting" => lease[c] + pause[c] <= Beat + late[c]
         /\ thread[c] \in {"beating", "restoring", "again"} => lease[c] <= late[c]

(* TypeOK, in parts *)
Types ==
  /\ main \in [Clients -> {"new", "acquiring", "running", "joining",
                           "releasing", "done"}]
  /\ thread \in [Clients -> {"off", "waiting", "beating", "restoring", "again"}]
  /\ limit \in [Clients -> Timers]
  /\ pause \in [Clients -> Timers]
  /\ lease \in [Clients -> LeaseAges \cup {NoLease}]
  /\ late \in [Clients -> Nat]
  /\ \A c \in Clients : thread[c] # "off" =>
       main[c] \in {"running", "joining", "releasing"}

LineTypes ==
  /\ queue \in Seq(Request)
  /\ Len(queue) <= Backlog
  /\ current \in Request \cup {NoRequest}

ServerTypes ==
  /\ server \in {"pass", "select", "answer", "down"}
  /\ (current # NoRequest) <=> (server = "answer")
  /\ busy \in 0..MaxBlock
  /\ server = "down" => \A c \in Clients : lease[c] = NoLease

IInv ==
  /\ Types
  /\ LineTypes
  /\ ServerTypes
  /\ \A c \in Clients : ThreadOK(c) /\ MainOK(c)
  /\ \A c \in Tssh : LeaseOK(c)

-----------------------------------------------------------------------------
(* The line *)

LEMMA LineType ==
  ASSUME LineTypes
  PROVE  /\ Len(queue) \in Nat
         /\ Line \subseteq Nat
         /\ \A i \in Line \ {0} : i \in 1..Len(queue) /\ queue[i] \in Request
         /\ \A i \in Line : Ticket(i) # NoRequest => Ticket(i) \in Request
<1>1. Len(queue) \in Nat /\ \A i \in 1..Len(queue) : queue[i] \in Request
  BY LenProperties, ElementOfSeq DEF LineTypes
<1>2. QED
  BY <1>1 DEF Line, LineTypes, Ticket

(* Nobody but c has sent or given up a request, or had an answer.          *)
OthersStay(c) ==
  /\ Len(queue') \in Nat
  /\ Len(queue) <= Len(queue')
  /\ \A i \in Line : ~Of(i, c) => Ticket(i)' = Ticket(i)
  /\ \A i \in Line' :
       \/ Of(i, c)'
       \/ Ticket(i)' = NoRequest
       \/ i \in Line /\ Ticket(i)' = Ticket(i)
  /\ \A d \in Clients \ {c} :
       main'[d] = main[d] /\ thread'[d] = thread[d] /\ pause'[d] = pause[d]

LEMMA OthersOK ==
  ASSUME IInv, NEW c \in Clients, OthersStay(c), NEW d \in Clients, d # c,
         lease'[d] \in {lease[d], NoLease}
  PROVE  /\ ThreadOK(d)'
         /\ MainOK(d)'
         /\ Refreshing(d) <=> Refreshing(d)'
<1>1. \A i \in Line : i \in Line'
  BY LineType DEF OthersStay, Line, IInv
<1>2. \A i \in Line : Of(i, d) => Ticket(i)' = Ticket(i)
  BY DEF OthersStay, Of
<1>3. \A i \in Line' : Of(i, d)' => i \in Line /\ Ticket(i)' = Ticket(i)
  BY DEF OthersStay, Of
<1>4. \A i \in Line : Of(i, d) => Of(i, d)'
  BY <1>2 DEF Of
<1>5. \A i \in Line' : Of(i, d)' => Of(i, d)
  BY <1>3 DEF Of
<1>6. ThreadOK(d)'
  BY <1>1, <1>2, <1>3, <1>4, <1>5 DEF IInv, ThreadOK, Beats, OthersStay, Interval
<1>7. MainOK(d)'
  BY <1>1, <1>2, <1>3, <1>4, <1>5 DEF IInv, MainOK, Acquires, OthersStay
<1>8. Refreshing(d) <=> Refreshing(d)'
  BY <1>1, <1>2, <1>3, <1>4, <1>5 DEF Refreshing
<1>9. QED
  BY <1>6, <1>7, <1>8

(* A request given up is the same request, closed. *)
LEMMA AbandonedType ==
  ASSUME NEW r \in Request, NEW c \in Clients, NEW who
  PROVE  /\ Abandoned(r, c, who) \in Request
         /\ Abandoned(r, c, who) # NoRequest
         /\ Abandoned(r, c, who).from = r.from
         /\ Abandoned(r, c, who).by = r.by
         /\ Abandoned(r, c, who).op = r.op
         /\ Abandoned(r, c, who).open <=> r.open /\ ~(r.from = c /\ r.by \in who)
         /\ r.from # c => Abandoned(r, c, who) = r
<1>1. CASE r.from = c /\ r.by \in who
  <2>1. PICK s \in Request : s = [r EXCEPT !.open = FALSE]
    BY DEF Request
  <2>2. s.from = r.from /\ s.by = r.by /\ s.op = r.op /\ s.open = FALSE
    BY <2>1 DEF Request
  <2>3. Abandoned(r, c, who) = s
    BY <1>1, <2>1, NoneAssumption DEF Abandoned
  <2>4. QED
    BY <1>1, <2>2, <2>3, NoneAssumption
<1>2. CASE ~(r.from = c /\ r.by \in who)
  BY <1>2, NoneAssumption DEF Abandoned
<1>3. QED
  BY <1>1, <1>2

LEMMA AbandonedNone ==
  ASSUME NEW c, NEW who
  PROVE  Abandoned(NoRequest, c, who) = NoRequest
BY DEF Abandoned

LEMMA Left ==
  ASSUME LineTypes, NEW c \in Clients, NEW who,
         NEW q, q = [i \in DOMAIN queue |-> Abandoned(queue[i], c, who)]
  PROVE  /\ q \in Seq(Request)
         /\ Len(q) = Len(queue)
         /\ \A i \in 1..Len(queue) : q[i] = Abandoned(queue[i], c, who)
<1>1. Len(queue) \in Nat /\ DOMAIN queue = 1..Len(queue)
      /\ \A i \in 1..Len(queue) : queue[i] \in Request
  BY LenProperties, ElementOfSeq DEF LineTypes
<1>2. \A i \in 1..Len(queue) : Abandoned(queue[i], c, who) \in Request
  BY <1>1, AbandonedType
<1>3. q \in [1..Len(queue) -> Request]
  BY <1>1, <1>2
<1>4. q \in Seq(Request)
  BY <1>1, <1>3, SeqDef
<1>5. Len(q) = Len(queue)
  BY <1>1, <1>3, <1>4, LenProperties
<1>6. QED
  BY <1>1, <1>4, <1>5

LEMMA Posted ==
  ASSUME LineTypes, NEW q \in Seq(Request), Len(q) = Len(queue),
         NEW c \in Clients, NEW by \in {"main", "thread"},
         NEW op \in {"acquire", "heartbeat", "release"},
         Post(q, c, by, op)
  PROVE  /\ queue' \in Seq(Request)
         /\ Len(queue') = Len(queue) + 1
         /\ \A i \in 1..Len(queue) : queue'[i] = q[i]
         /\ queue'[Len(queue) + 1] = [from |-> c, by |-> by, op |-> op, open |-> TRUE]
<1>1. PICK r \in Request : r = [from |-> c, by |-> by, op |-> op, open |-> TRUE]
  BY DEF Request
<1>2. queue' = Append(q, r)
  BY <1>1 DEF Post
<1>3. /\ Append(q, r) \in Seq(Request)
      /\ Len(Append(q, r)) = Len(q) + 1
      /\ \A i \in 1..Len(q) : Append(q, r)[i] = q[i]
      /\ Append(q, r)[Len(q) + 1] = r
  BY AppendProperties
<1>4. QED
  BY <1>1, <1>2, <1>3

(* What a step of a client does to the line: it sends, or gives up what it *)
(* waits for, or both.                                                     *)
Sent(c, by, op) ==
  /\ queue' \in Seq(Request)
  /\ Len(queue) < Backlog
  /\ Len(queue') = Len(queue) + 1
  /\ queue'[Len(queue) + 1] = [from |-> c, by |-> by, op |-> op, open |-> TRUE]

LineMoves(c, who) == \A i \in Line : Ticket(i)' = Abandoned(Ticket(i), c, who)

LEMMA SendLine ==
  ASSUME LineTypes, Room, NEW c \in Clients, NEW by \in {"main", "thread"},
         NEW op \in {"acquire", "heartbeat", "release"},
         Post(queue, c, by, op), UNCHANGED current
  PROVE  Sent(c, by, op) /\ LineMoves(c, {})
<1>1. Len(queue) \in Nat
  BY LineType
<1>2. /\ queue' \in Seq(Request)
      /\ Len(queue') = Len(queue) + 1
      /\ \A i \in 1..Len(queue) : queue'[i] = queue[i]
      /\ queue'[Len(queue) + 1] = [from |-> c, by |-> by, op |-> op, open |-> TRUE]
  BY Posted DEF LineTypes
<1>3. \A i \in Line : Ticket(i)' = Ticket(i)
  BY <1>1, <1>2 DEF Line, Ticket
<1>4. QED
  BY <1>2, <1>3 DEF Sent, Room, LineMoves, Abandoned

LEMMA AbandonLine ==
  ASSUME LineTypes, NEW c \in Clients, NEW who, Abandon(c, who)
  PROVE  queue' \in Seq(Request) /\ Len(queue') = Len(queue) /\ LineMoves(c, who)
<1>1. PICK q : q = [i \in DOMAIN queue |-> Abandoned(queue[i], c, who)]
  OBVIOUS
<1>2. queue' = q /\ current' = Abandoned(current, c, who)
  BY <1>1 DEF Abandon
<1>3. /\ q \in Seq(Request)
      /\ Len(q) = Len(queue)
      /\ \A i \in 1..Len(queue) : q[i] = Abandoned(queue[i], c, who)
  BY <1>1, Left
<1>4. \A i \in Line : Ticket(i)' = Abandoned(Ticket(i), c, who)
  BY <1>2, <1>3, LineType DEF Ticket
<1>5. QED
  BY <1>2, <1>3, <1>4 DEF LineMoves

LEMMA AbandonSendLine ==
  ASSUME LineTypes, Room, NEW c \in Clients, NEW who, NEW by \in {"main", "thread"},
         NEW op \in {"acquire", "heartbeat", "release"},
         Post([i \in DOMAIN queue |-> Abandoned(queue[i], c, who)], c, by, op),
         current' = Abandoned(current, c, who)
  PROVE  Sent(c, by, op) /\ LineMoves(c, who)
<1>1. PICK q : q = [i \in DOMAIN queue |-> Abandoned(queue[i], c, who)]
  OBVIOUS
<1>2. /\ q \in Seq(Request)
      /\ Len(q) = Len(queue)
      /\ \A i \in 1..Len(queue) : q[i] = Abandoned(queue[i], c, who)
  BY <1>1, Left
<1>3. Post(q, c, by, op)
  BY <1>1
<1>4. /\ queue' \in Seq(Request)
      /\ Len(queue') = Len(queue) + 1
      /\ \A i \in 1..Len(queue) : queue'[i] = q[i]
      /\ queue'[Len(queue) + 1] = [from |-> c, by |-> by, op |-> op, open |-> TRUE]
  BY <1>2, <1>3, Posted
<1>5. Len(queue) \in Nat
  BY LineType
<1>6. \A i \in Line : Ticket(i)' = Abandoned(Ticket(i), c, who)
  BY <1>2, <1>4, LineType DEF Ticket
<1>7. QED
  BY <1>4, <1>6 DEF Sent, Room, LineMoves

(* What is left of the requests of c, and of the one it has sent. *)
LEMMA LineShape ==
  ASSUME LineTypes, NEW c \in Clients, NEW who, LineMoves(c, who)
  PROVE  /\ \A i \in Line :
              /\ \A d \in Clients : Of(i, d)' <=> Of(i, d)
              /\ ~Of(i, c) => Ticket(i)' = Ticket(i)
              /\ Of(i, c) => Ticket(i)'.op = Ticket(i).op
              /\ Beats(i, c)' <=> Beats(i, c) /\ "thread" \notin who
              /\ Acquires(i, c)' <=> Acquires(i, c) /\ "main" \notin who
         /\ current' \in Request \cup {NoRequest}
         /\ current' # NoRequest <=> current # NoRequest
<1>1. ASSUME NEW i \in Line
      PROVE  /\ \A d \in Clients : Of(i, d)' <=> Of(i, d)
             /\ ~Of(i, c) => Ticket(i)' = Ticket(i)
             /\ Of(i, c) => Ticket(i)'.op = Ticket(i).op
             /\ Beats(i, c)' <=> Beats(i, c) /\ "thread" \notin who
             /\ Acquires(i, c)' <=> Acquires(i, c) /\ "main" \notin who
             /\ Ticket(i)' \in Request \cup {NoRequest}
             /\ Ticket(i)' # NoRequest <=> Ticket(i) # NoRequest
  <2>1. Ticket(i)' = Abandoned(Ticket(i), c, who)
    BY DEF LineMoves
  <2>2. CASE Ticket(i) = NoRequest
    BY <2>1, <2>2, AbandonedNone DEF Of, Beats, Acquires
  <2>3. CASE Ticket(i) # NoRequest
    <3>1. PICK r \in Request : r = Ticket(i)
      BY <2>3, LineType
    <3>2. PICK s : s = Ticket(i)'
      OBVIOUS
    <3>3. /\ s \in Request
          /\ s # NoRequest
          /\ s.from = r.from /\ s.by = r.by /\ s.op = r.op
          /\ s.open <=> r.open /\ ~(r.from = c /\ r.by \in who)
          /\ r.from # c => s = r
      BY <2>1, <3>1, <3>2, AbandonedType
    <3>4. QED
      BY <2>3, <3>1, <3>2, <3>3 DEF Of, Beats, Acquires
  <2>4. QED
    BY <2>2, <2>3
<1>2. 0 \in Line
  BY LineType DEF Line
<1>3. PICK i \in Line : i = 0
  BY <1>2
<1>4. Ticket(i) = current /\ Ticket(i)' = current'
  BY <1>3 DEF Ticket
<1>5. QED
  BY <1>1, <1>4

LEMMA SentShape ==
  ASSUME LineTypes, NEW c \in Clients, NEW by \in {"main", "thread"},
         NEW op \in {"acquire", "heartbeat", "release"}, Sent(c, by, op),
         NEW n, n = Len(queue) + 1
  PROVE  /\ n \in Nat \ {0} /\ n \notin Line
         /\ Len(queue') \in Nat
         /\ Line' = Line \cup {n}
         /\ Of(n, c)' /\ Ticket(n)'.op = op
         /\ Beats(n, c)' <=> by = "thread"
         /\ Acquires(n, c)' <=> by = "main" /\ op = "acquire"
<1>1. Len(queue) \in Nat /\ Len(queue') = n
  BY LineType DEF Sent
<1>2. Line' = Line \cup {n} /\ n \in Nat \ {0} /\ n \notin Line
  BY <1>1 DEF Line
<1>3. PICK r : r = Ticket(n)'
  OBVIOUS
<1>4. r \in Request /\ r = [from |-> c, by |-> by, op |-> op, open |-> TRUE]
  BY <1>2, <1>3 DEF Sent, Ticket, Request
<1>5. r.from = c /\ r.by = by /\ r.op = op /\ r.open /\ r # NoRequest
  BY <1>4, NoneAssumption
<1>6. QED
  BY <1>1, <1>2, <1>3, <1>5 DEF Of, Beats, Acquires

(* With or without a request of its own behind them, c has not disturbed   *)
(* the others.                                                             *)
LEMMA OthersStayed ==
  ASSUME LineTypes, NEW c \in Clients, NEW who, LineMoves(c, who),
         \/ Len(queue') = Len(queue)
         \/ \E by \in {"main", "thread"}, op \in {"acquire", "heartbeat", "release"} :
              Sent(c, by, op),
         \A d \in Clients \ {c} :
           main'[d] = main[d] /\ thread'[d] = thread[d] /\ pause'[d] = pause[d]
  PROVE  OthersStay(c)
<1>1. \A i \in Line : (~Of(i, c) => Ticket(i)' = Ticket(i)) /\ (Of(i, c)' <=> Of(i, c))
  BY LineShape
<1>2. Len(queue) \in Nat
  BY LineType
<1>3. CASE Len(queue') = Len(queue)
  <2>1. Line' = Line
    BY <1>3 DEF Line
  <2>2. QED
    BY <1>1, <1>2, <1>3, <2>1 DEF OthersStay
<1>4. ASSUME NEW by \in {"main", "thread"}, NEW op \in {"acquire", "heartbeat", "release"},
             Sent(c, by, op)
      PROVE  OthersStay(c)
  <2>1. PICK n : n = Len(queue) + 1
    OBVIOUS
  <2>2. Line' = Line \cup {n} /\ Of(n, c)' /\ Len(queue') = n /\ n \in Nat
    BY <1>4, <2>1, SentShape DEF Sent
  <2>3. QED
    BY <1>1, <1>2, <2>1, <2>2 DEF OthersStay
<1>5. QED
  BY <1>3, <1>4

-----------------------------------------------------------------------------
(* The history *)
HistStep ==
  late' = [c \in Clients |->
    IF lease'[c] \in {NoLease, 0} THEN 0
    ELSE IF busy' < busy /\ lease'[c] # lease[c] THEN late[c] + 1
    ELSE IF SendHeartbeat(c) /\ ~Room THEN late[c] + Interval(c)
    ELSE late[c]]

LEMMA IntervalType == \A c \in Clients : Interval(c) \in Nat \ {0} /\ Interval(c) \in Timers
BY TimesAssumption DEF Interval, Timers

LEMMA LateGrows ==
  ASSUME IInv, HistStep
  PROVE  /\ late' \in [Clients -> Nat]
         /\ \A c \in Clients : lease'[c] \notin {NoLease, 0} =>
              /\ late'[c] >= late[c]
              /\ busy' < busy /\ lease'[c] # lease[c] => late'[c] = late[c] + 1
              /\ busy' = busy /\ busy' \in Nat /\ SendHeartbeat(c) /\ ~Room =>
                   late'[c] = late[c] + Interval(c)
BY IntervalType DEF IInv, Types, HistStep

(* A lease that was refreshed starts anew. *)
LEMMA LeaseFresh ==
  ASSUME NEW c \in Tssh, lease'[c] \in {NoLease, 0}, late'[c] \in Nat, ThreadOK(c)',
         thread'[c] = "waiting" => pause'[c] \in Nat
  PROVE  LeaseOK(c)'
<1>1. Beat \in Nat
  BY TimesAssumption
<1>2. thread'[c] = "waiting" => pause'[c] <= Beat
  BY DEF ThreadOK, Interval
<1>3. QED
  BY <1>1, <1>2 DEF LeaseOK

(* What a client does, or is told, leaves the others alone; leases may be  *)
(* lost.                                                                   *)
LEMMA OneClientKeeps ==
  ASSUME IInv, HistStep, NEW c \in Clients, OthersStay(c),
         main' \in [Clients -> {"new", "acquiring", "running", "joining",
                                "releasing", "done"}],
         thread' \in [Clients -> {"off", "waiting", "beating", "restoring", "again"}],
         limit' \in [Clients -> Timers], pause' \in [Clients -> Timers],
         lease' \in [Clients -> LeaseAges \cup {NoLease}],
         \A d \in Clients : lease'[d] \in {lease[d], NoLease},
         thread'[c] # "off" => main'[c] \in {"running", "joining", "releasing"},
         LineTypes', ServerTypes',
         ThreadOK(c)', MainOK(c)',
         c \in Tssh /\ lease'[c] = lease[c] /\ lease[c] \notin {NoLease, 0} => LeaseOK(c)'
  PROVE  IInv'
<1>1. late' \in [Clients -> Nat]
  BY LateGrows
<1>2. Types'
  BY <1>1 DEF IInv, Types, OthersStay
<1>3. ASSUME NEW d \in Clients PROVE ThreadOK(d)' /\ MainOK(d)'
  BY <1>3, OthersOK
<1>4. ASSUME NEW d \in Tssh PROVE LeaseOK(d)'
  <2>1. d \in Clients /\ ThreadOK(d)'
    BY <1>3 DEF Clients
  <2>2. lease'[d] \in {lease[d], NoLease} /\ pause'[d] \in Nat /\ late'[d] \in Nat
    BY <1>1, <2>1 DEF Timers
  <2>3. CASE lease'[d] \in {NoLease, 0}
    BY <2>1, <2>2, <2>3, LeaseFresh
  <2>4. CASE lease'[d] \notin {NoLease, 0} /\ d # c
    <3>1. lease'[d] = lease[d]
      BY <2>2, <2>4
    <3>2. late'[d] >= late[d] /\ late[d] \in Nat /\ lease[d] \in Nat /\ pause[d] \in Nat
      BY <1>1, <2>1, <2>4, <3>1, LateGrows DEF IInv, Types, LeaseAges, Timers
    <3>3. Refreshing(d) <=> Refreshing(d)'
      BY <2>1, <2>4, OthersOK
    <3>4. LeaseOK(d) /\ main'[d] = main[d] /\ thread'[d] = thread[d] /\ pause'[d] = pause[d]
      BY <2>1, <2>4 DEF IInv, OthersStay
    <3>5. Beat \in Nat
      BY TimesAssumption
    <3>6. QED
      BY <2>2, <2>4, <3>1, <3>2, <3>3, <3>4, <3>5 DEF LeaseOK
  <2>5. QED
    BY <2>2, <2>3, <2>4
<1>5. QED
  BY <1>2, <1>3, <1>4 DEF IInv

LEMMA ClientKeeps ==
  ASSUME IInv, HistStep, NEW c \in Clients, OthersStay(c), UNCHANGED <<lease, server, busy>>,
         main' \in [Clients -> {"new", "acquiring", "running", "joining",
                                "releasing", "done"}],
         thread' \in [Clients -> {"off", "waiting", "beating", "restoring", "again"}],
         limit' \in [Clients -> Timers], pause' \in [Clients -> Timers],
         thread'[c] # "off" => main'[c] \in {"running", "joining", "releasing"},
         LineTypes',
         current' # NoRequest <=> current # NoRequest,
         ThreadOK(c)', MainOK(c)',
         c \in Tssh /\ lease[c] \notin {NoLease, 0} => LeaseOK(c)'
  PROVE  IInv'
<1>1. ServerTypes'
  BY DEF IInv, ServerTypes
<1>2. lease' \in [Clients -> LeaseAges \cup {NoLease}]
  BY DEF IInv, Types
<1>3. QED
  BY <1>1, <1>2, OneClientKeeps

-----------------------------------------------------------------------------
(* Steps of the main thread *)
LEMMA TimerTypes ==
  /\ {RequestTimeout, ReleaseTimeout, JoinTimeout, 0} \subseteq Timers
  /\ Timers \subseteq Nat
  /\ LeaseAges \subseteq Nat
BY TimesAssumption DEF Timers, LeaseAges

LEMMA LineStays ==
  ASSUME LineTypes, UNCHANGED <<queue, current>>, NEW c \in Clients
  PROVE  LineMoves(c, {}) /\ LineTypes' /\ Line' = Line
BY DEF LineMoves, Line, LineTypes, Ticket, Abandoned

LEMMA LaunchKeeps ==
  ASSUME IInv, HistStep, NEW c \in Clients, Launch(c)
  PROVE  IInv'
<1>1. /\ main[c] = "new" /\ thread[c] = "off" /\ lease[c] = NoLease
      /\ \A i \in Line : ~Of(i, c)
  BY DEF Launch, IInv, Types, MainOK
<1>2. /\ UNCHANGED <<thread, pause, current, server, busy, lease>>
      /\ main' = [main EXCEPT ![c] = "acquiring"]
      /\ limit' = [limit EXCEPT ![c] = RequestTimeout]
  BY DEF Launch, serverVars
<1>3. LineTypes /\ Sent(c, "main", "acquire") /\ LineMoves(c, {})
  BY <1>2, SendLine DEF Launch, IInv
<1>4. PICK n : n = Len(queue) + 1
  OBVIOUS
<1>5. Line' = Line \cup {n} /\ ~Beats(n, c)' /\ Acquires(n, c)'
  BY <1>3, <1>4, SentShape
<1>6. OthersStay(c)
  BY <1>2, <1>3, OthersStayed DEF IInv, Types
<1>7. \A i \in Line : ~Beats(i, c)'
  BY <1>1, <1>3, LineShape DEF Beats
<1>8. ThreadOK(c)'
  BY <1>1, <1>2, <1>5, <1>7 DEF ThreadOK
<1>9. main'[c] = "acquiring"
  BY <1>2 DEF IInv, Types
<1>10. MainOK(c)'
  BY <1>5, <1>9 DEF MainOK
<1>11. LineTypes'
  BY <1>2, <1>3, TimesAssumption, LineType DEF LineTypes, Sent
<1>12. QED
  BY <1>1, <1>2, <1>6, <1>8, <1>9, <1>10, <1>11, TimerTypes, ClientKeeps DEF IInv, Types

(* A session that ends, up to its release: its lease is not its concern    *)
(* any more.                                                               *)
LEMMA SessionEndsKeeps ==
  ASSUME IInv, HistStep, NEW c \in Clients, SessionEnds(c) \/ ThreadStops(c)
  PROVE  IInv'
<1>1. LineTypes /\ ThreadOK(c) /\ MainOK(c)
  BY DEF IInv
<1>2. /\ UNCHANGED <<queue, current, server, busy, lease>>
      /\ main' \in {main, [main EXCEPT ![c] = "joining"]}
      /\ thread' \in {thread, [thread EXCEPT ![c] = "off"]}
      /\ limit' \in {limit, [limit EXCEPT ![c] = JoinTimeout]}
      /\ pause' \in {pause, [pause EXCEPT ![c] = 0]}
      /\ main[c] \in {"running", "joining", "releasing"}
  BY DEF SessionEnds, ThreadStops, serverVars, Stopped
<1>3. /\ main' \in [Clients -> {"new", "acquiring", "running", "joining",
                                "releasing", "done"}]
      /\ thread' \in [Clients -> {"off", "waiting", "beating", "restoring", "again"}]
      /\ limit' \in [Clients -> Timers] /\ pause' \in [Clients -> Timers]
      /\ main'[c] \in {"joining", "releasing"}
      /\ \/ thread'[c] = thread[c] /\ pause'[c] = pause[c]
         \/ thread[c] = "waiting" /\ thread'[c] = "off"
      /\ \A d \in Clients \ {c} :
           main'[d] = main[d] /\ thread'[d] = thread[d] /\ pause'[d] = pause[d]
  BY <1>2, TimerTypes DEF IInv, Types, SessionEnds, ThreadStops, Stopped
<1>4. LineMoves(c, {}) /\ LineTypes' /\ Line' = Line
  BY <1>1, <1>2, LineStays
<1>5. OthersStay(c)
  BY <1>1, <1>2, <1>3, <1>4, OthersStayed
<1>6. \A i \in Line : (Beats(i, c)' <=> Beats(i, c)) /\ (Of(i, c) => Ticket(i)'.op = Ticket(i).op)
  BY <1>1, <1>4, LineShape
<1>7. ThreadOK(c)'
  BY <1>1, <1>3, <1>4, <1>6 DEF ThreadOK, Beats
<1>8. MainOK(c)' /\ (c \in Tssh => LeaseOK(c)')
  BY <1>3 DEF MainOK, LeaseOK
<1>9. QED
  BY <1>2, <1>3, <1>4, <1>5, <1>7, <1>8, ClientKeeps

LEMMA SendReleaseKeeps ==
  ASSUME IInv, HistStep, NEW c \in Clients, SendRelease(c)
  PROVE  IInv'
<1>1. LineTypes /\ ThreadOK(c)
  BY DEF IInv
<1>2. /\ UNCHANGED <<thread, pause, current, server, busy, lease>>
      /\ main' = [main EXCEPT ![c] = "releasing"]
      /\ limit' = [limit EXCEPT ![c] = ReleaseTimeout]
  BY DEF SendRelease, serverVars
<1>3. Sent(c, "main", "release") /\ LineMoves(c, {})
  BY <1>1, <1>2, SendLine DEF SendRelease
<1>4. PICK n : n = Len(queue) + 1
  OBVIOUS
<1>5. Line' = Line \cup {n} /\ ~Beats(n, c)'
  BY <1>1, <1>3, <1>4, SentShape
<1>6. OthersStay(c)
  BY <1>1, <1>2, <1>3, OthersStayed DEF IInv, Types
<1>7. \A i \in Line : (Beats(i, c)' <=> Beats(i, c)) /\ (Of(i, c) => Ticket(i)'.op = Ticket(i).op)
  BY <1>1, <1>3, LineShape
<1>8. ThreadOK(c)'
  BY <1>1, <1>2, <1>5, <1>7 DEF ThreadOK, Beats
<1>9. main'[c] = "releasing"
  BY <1>2 DEF IInv, Types
<1>10. MainOK(c)' /\ (c \in Tssh => LeaseOK(c)')
  BY <1>9 DEF MainOK, LeaseOK
<1>11. LineTypes'
  BY <1>1, <1>2, <1>3, TimesAssumption, LineType DEF LineTypes, Sent
<1>12. QED
  BY <1>2, <1>6, <1>8, <1>9, <1>10, <1>11, TimerTypes, ClientKeeps DEF IInv, Types

(* Requests of c are given up and nothing is sent. *)
LEMMA AbandonShape ==
  ASSUME LineTypes, NEW c \in Clients, NEW who, LineMoves(c, who),
         queue' \in Seq(Request), Len(queue') = Len(queue)
  PROVE  /\ Line' = Line
         /\ LineTypes'
         /\ current' # NoRequest <=> current # NoRequest
         /\ \A i \in Line :
              /\ Of(i, c)' <=> Of(i, c)
              /\ Of(i, c) => Ticket(i)'.op = Ticket(i).op
              /\ Beats(i, c)' <=> Beats(i, c) /\ "thread" \notin who
         /\ Refreshing(c)' <=> Refreshing(c)
<1>1. Line' = Line
  BY DEF Line
<1>2. /\ \A i \in Line :
           /\ Of(i, c)' <=> Of(i, c)
           /\ Of(i, c) => Ticket(i)'.op = Ticket(i).op
           /\ Beats(i, c)' <=> Beats(i, c) /\ "thread" \notin who
      /\ current' \in Request \cup {NoRequest}
      /\ current' # NoRequest <=> current # NoRequest
  BY LineShape
<1>3. Refreshing(c)' <=> Refreshing(c)
  BY <1>1, <1>2 DEF Refreshing
<1>4. QED
  BY <1>1, <1>2, <1>3 DEF LineTypes

LEMMA MainEndsKeeps ==
  ASSUME IInv, HistStep, NEW c \in Clients,
         AcquireTimeout(c) \/ ReleaseFails(c) \/ Killed(c)
  PROVE  IInv'
<1>1. LineTypes /\ ThreadOK(c)
  BY DEF IInv
<1>2. PICK who \in {{"main"}, {"main", "thread"}} :
        /\ Abandon(c, who)
        /\ \/ /\ who = {"main"} /\ main[c] = "acquiring"
              /\ main' = [main EXCEPT ![c] = "joining"]
              /\ UNCHANGED <<thread, limit, pause>>
           \/ who = {"main", "thread"} /\ Over(c)
        /\ UNCHANGED lease
  BY DEF AcquireTimeout, ReleaseFails, Killed
<1>3. UNCHANGED <<server, busy, lease>>
  BY <1>2 DEF Abandon
<1>4. queue' \in Seq(Request) /\ Len(queue') = Len(queue) /\ LineMoves(c, who)
  BY <1>1, <1>2, AbandonLine
<1>5. /\ Line' = Line
      /\ LineTypes'
      /\ current' # NoRequest <=> current # NoRequest
      /\ \A i \in Line :
           /\ Of(i, c) => Ticket(i)'.op = Ticket(i).op
           /\ Beats(i, c)' <=> Beats(i, c) /\ "thread" \notin who
  BY <1>1, <1>4, AbandonShape
<1>6. /\ main' \in [Clients -> {"new", "acquiring", "running", "joining",
                                "releasing", "done"}]
      /\ thread' \in [Clients -> {"off", "waiting", "beating", "restoring", "again"}]
      /\ limit' \in [Clients -> Timers] /\ pause' \in [Clients -> Timers]
      /\ main'[c] \in {"joining", "done"}
      /\ thread'[c] = "off"
      /\ "thread" \in who \/ thread[c] = "off"
      /\ \A d \in Clients \ {c} :
           main'[d] = main[d] /\ thread'[d] = thread[d] /\ pause'[d] = pause[d]
  BY <1>2, TimerTypes DEF IInv, Types, Over
<1>7. OthersStay(c)
  BY <1>1, <1>4, <1>6, OthersStayed
<1>8. ThreadOK(c)'
  BY <1>1, <1>5, <1>6 DEF ThreadOK
<1>9. MainOK(c)' /\ (c \in Tssh => LeaseOK(c)')
  BY <1>6 DEF MainOK, LeaseOK
<1>10. QED
  BY <1>3, <1>5, <1>6, <1>7, <1>8, <1>9, ClientKeeps

-----------------------------------------------------------------------------
(* Steps of the heartbeat thread *)

(* It rests.  If it has nothing on its way, its lease is as old as it was  *)
(* when it was refreshed last, but for what the server was blocked.        *)
LEMMA RestKeeps ==
  ASSUME IInv, HistStep, NEW c \in Clients, Rest(c), NEW who, LineMoves(c, who),
         queue' \in Seq(Request), Len(queue') = Len(queue),
         UNCHANGED <<main, limit, server, busy, lease>>,
         thread[c] # "off",
         "thread" \in who \/ \A i \in Line : ~Beats(i, c),
         \/ thread[c] \in {"beating", "restoring", "again"}
         \/ SendHeartbeat(c) /\ ~Room
  PROVE  IInv'
<1>1. LineTypes /\ ThreadOK(c) /\ MainOK(c)
  BY DEF IInv
<1>2. /\ Line' = Line
      /\ LineTypes'
      /\ current' # NoRequest <=> current # NoRequest
      /\ \A i \in Line : Beats(i, c)' <=> Beats(i, c) /\ "thread" \notin who
      /\ Refreshing(c)' <=> Refreshing(c)
  BY <1>1, AbandonShape
<1>3. /\ thread' \in [Clients -> {"off", "waiting", "beating", "restoring", "again"}]
      /\ pause' \in [Clients -> Timers]
      /\ thread'[c] = "waiting" /\ pause'[c] = Interval(c)
      /\ \A d \in Clients \ {c} : thread'[d] = thread[d] /\ pause'[d] = pause[d]
  BY IntervalType DEF IInv, Types, Rest
<1>4. OthersStay(c)
  BY <1>1, <1>3, OthersStayed
<1>5. main[c] \in {"running", "joining", "releasing"}
  BY DEF IInv, Types
<1>6. ThreadOK(c)' /\ MainOK(c)'
  BY <1>2, <1>3, <1>5, IntervalType DEF ThreadOK, MainOK
<1>7. ASSUME c \in Tssh, lease[c] \notin {NoLease, 0} PROVE LeaseOK(c)'
  <2>1. LeaseOK(c) /\ pause'[c] = Beat
    BY <1>3, <1>7 DEF IInv, Interval
  <2>2. lease'[c] = lease[c] /\ lease[c] \in Nat /\ late[c] \in Nat /\ late'[c] \in Nat
        /\ late'[c] >= late[c] /\ Beat \in Nat
    BY <1>7, LateGrows, TimesAssumption, TimerTypes DEF IInv, Types
  <2>3. lease[c] <= Beat + late[c] /\ main[c] = "running" => lease'[c] <= Beat + late'[c]
    BY <2>2
  <2>4. CASE thread[c] \in {"beating", "restoring", "again"}
    BY <1>2, <1>3, <1>5, <1>7, <2>1, <2>2, <2>3, <2>4 DEF LeaseOK
  <2>5. CASE SendHeartbeat(c) /\ ~Room
    <3>1. busy' = busy /\ busy \in Nat
      BY TimesAssumption DEF IInv, ServerTypes
    <3>2. late'[c] = late[c] + Beat
      BY <1>7, <2>2, <2>5, <3>1, LateGrows DEF Interval
    <3>3. QED
      BY <1>2, <1>3, <1>5, <1>7, <2>1, <2>2, <2>3, <3>2 DEF LeaseOK
  <2>6. QED
    BY <2>4, <2>5
<1>8. QED
  BY <1>2, <1>3, <1>4, <1>5, <1>6, <1>7, ClientKeeps DEF IInv, Types

(* It sends a request, and has given up what it had sent before. *)
LEMMA ThreadSendKeeps ==
  ASSUME IInv, HistStep, NEW c \in Clients,
         NEW what \in {"beating", "restoring", "again"},
         thread' = [thread EXCEPT ![c] = what],
         pause' = [pause EXCEPT ![c] = RequestTimeout],
         NEW who, LineMoves(c, who),
         NEW op \in {"acquire", "heartbeat"}, Sent(c, "thread", op),
         UNCHANGED <<main, limit, server, busy, lease>>,
         thread[c] # "off",
         "thread" \in who \/ \A i \in Line : ~Beats(i, c)
  PROVE  IInv'
<1>1. LineTypes /\ ThreadOK(c) /\ MainOK(c)
  BY DEF IInv
<1>2. PICK n : n = Len(queue) + 1
  OBVIOUS
<1>3. /\ n \in Nat \ {0} /\ Line' = Line \cup {n} /\ Beats(n, c)' /\ Of(n, c)'
      /\ Ticket(n)'.op = op
  BY <1>1, <1>2, SentShape
<1>4. /\ \A i \in Line : Beats(i, c)' <=> Beats(i, c) /\ "thread" \notin who
      /\ current' \in Request \cup {NoRequest}
      /\ current' # NoRequest <=> current # NoRequest
  BY <1>1, LineShape
<1>5. /\ thread' \in [Clients -> {"off", "waiting", "beating", "restoring", "again"}]
      /\ pause' \in [Clients -> Timers]
      /\ thread'[c] = what
      /\ \A d \in Clients \ {c} : thread'[d] = thread[d] /\ pause'[d] = pause[d]
  BY TimerTypes DEF IInv, Types
<1>6. OthersStay(c)
  BY <1>1, <1>5, OthersStayed
<1>7. main[c] \in {"running", "joining", "releasing"}
  BY DEF IInv, Types
<1>8. ThreadOK(c)' /\ MainOK(c)'
  BY <1>3, <1>4, <1>5, <1>7 DEF ThreadOK, MainOK
<1>9. LineTypes'
  BY <1>1, <1>4, TimesAssumption, LineType DEF LineTypes, Sent
<1>10. ASSUME c \in Tssh, lease[c] \notin {NoLease, 0} PROVE LeaseOK(c)'
  <2>1. Refreshing(c)'
    BY <1>3 DEF Refreshing
  <2>2. lease'[c] = lease[c] /\ lease[c] \in Nat /\ late[c] \in Nat /\ late'[c] \in Nat
        /\ late'[c] >= late[c] /\ Beat \in Nat
    BY <1>10, LateGrows, TimesAssumption, TimerTypes DEF IInv, Types
  <2>3. QED
    BY <1>7, <1>10, <2>1, <2>2 DEF IInv, LeaseOK
<1>11. QED
  BY <1>4, <1>5, <1>6, <1>7, <1>8, <1>9, <1>10, ClientKeeps DEF IInv, Types

LEMMA SendHeartbeatKeeps ==
  ASSUME IInv, HistStep, NEW c \in Clients, SendHeartbeat(c)
  PROVE  IInv'
<1>1. /\ thread[c] = "waiting"
      /\ UNCHANGED <<main, limit, current, server, busy, lease>>
      /\ \A i \in Line : ~Beats(i, c)
      /\ LineTypes
  BY DEF SendHeartbeat, serverVars, IInv, ThreadOK
<1>2. CASE Room
  <2>1. Sent(c, "thread", "heartbeat") /\ LineMoves(c, {})
    BY <1>1, <1>2, SendLine DEF SendHeartbeat
  <2>2. QED
    BY <1>1, <1>2, <2>1, ThreadSendKeeps DEF SendHeartbeat
<1>3. CASE ~Room
  <2>1. LineMoves(c, {}) /\ queue' \in Seq(Request) /\ Len(queue') = Len(queue)
    BY <1>1, <1>3, LineStays DEF SendHeartbeat, LineTypes
  <2>2. QED
    BY <1>1, <1>3, <2>1, RestKeeps DEF SendHeartbeat
<1>4. QED
  BY <1>2, <1>3

LEMMA HeartbeatTimeoutKeeps ==
  ASSUME IInv, HistStep, NEW c \in Clients, HeartbeatTimeout(c) \/ AcquireAgainTimeout(c)
  PROVE  IInv'
<1>1. /\ thread[c] \in {"beating", "restoring", "again"}
      /\ UNCHANGED <<main, limit, server, busy, lease>>
      /\ LineTypes
  BY DEF HeartbeatTimeout, AcquireAgainTimeout, Abandon, IInv
<1>2. CASE /\ Repeat(c, "again") /\ Room
           /\ Post([i \in DOMAIN queue |-> Abandoned(queue[i], c, {"thread"})],
                   c, "thread", "acquire")
           /\ current' = Abandoned(current, c, {"thread"})
  <2>1. Sent(c, "thread", "acquire") /\ LineMoves(c, {"thread"})
    BY <1>1, <1>2, AbandonSendLine
  <2>2. QED
    BY <1>1, <1>2, <2>1, ThreadSendKeeps DEF Repeat
<1>3. CASE /\ Rest(c)
           /\ queue' = [i \in DOMAIN queue |-> Abandoned(queue[i], c, {"thread"})]
           /\ current' = Abandoned(current, c, {"thread"})
  <2>1. Abandon(c, {"thread"})
    BY <1>1, <1>3 DEF Abandon
  <2>2. queue' \in Seq(Request) /\ Len(queue') = Len(queue) /\ LineMoves(c, {"thread"})
    BY <1>1, <2>1, AbandonLine
  <2>3. QED
    BY <1>1, <1>3, <2>2, RestKeeps
<1>4. QED
  BY <1>2, <1>3 DEF HeartbeatTimeout, AcquireAgainTimeout, Abandon

-----------------------------------------------------------------------------
(* Answers *)

(* The request that is handled leaves the line. *)
Dropped(c, who) ==
  /\ current # NoRequest /\ current.from = c /\ current' = NoRequest
  /\ \A i \in Line \ {0} : Ticket(i)' = Abandoned(Ticket(i), c, who)
  /\ queue' \in Seq(Request)
  /\ \/ Len(queue') = Len(queue)
     \/ \E by \in {"main", "thread"}, op \in {"acquire", "heartbeat", "release"} :
          Sent(c, by, op)

LEMMA DropShape ==
  ASSUME LineTypes, NEW c \in Clients, NEW who, Dropped(c, who)
  PROVE  /\ 0 \in Line /\ Of(0, c) /\ ~Of(0, c)'
         /\ Line \subseteq Line'
         /\ \A i \in Line \ {0} :
              /\ Of(i, c)' <=> Of(i, c)
              /\ Of(i, c) => Ticket(i)'.op = Ticket(i).op
              /\ Beats(i, c)' <=> Beats(i, c) /\ "thread" \notin who
              /\ Acquires(i, c)' <=> Acquires(i, c) /\ "main" \notin who
         /\ LineTypes'
         /\ Refreshing(c) => Refreshing(c)'
         /\ (\A d \in Clients \ {c} :
               main'[d] = main[d] /\ thread'[d] = thread[d] /\ pause'[d] = pause[d])
              => OthersStay(c)
<1>1. Len(queue) \in Nat /\ 0 \in Line
  BY LineType DEF Line
<1>2. Of(0, c) /\ ~Of(0, c)' /\ Ticket(0)' = NoRequest
  BY DEF Dropped, Of, Ticket
<1>3. ASSUME NEW i \in Line \ {0}
      PROVE  /\ ~Of(i, c) => Ticket(i)' = Ticket(i)
             /\ Of(i, c)' <=> Of(i, c)
             /\ Of(i, c) => Ticket(i)'.op = Ticket(i).op
             /\ Beats(i, c)' <=> Beats(i, c) /\ "thread" \notin who
             /\ Acquires(i, c)' <=> Acquires(i, c) /\ "main" \notin who
  <2>1. PICK r \in Request : r = Ticket(i)
    BY LineType DEF Ticket
  <2>2. PICK s : s = Ticket(i)'
    OBVIOUS
  <2>3. r # NoRequest /\ s = Abandoned(r, c, who)
    BY <2>1, <2>2, NoneAssumption DEF Dropped
  <2>4. /\ s # NoRequest
        /\ s.from = r.from /\ s.by = r.by /\ s.op = r.op
        /\ s.open <=> r.open /\ ~(r.from = c /\ r.by \in who)
        /\ r.from # c => s = r
    BY <2>3, AbandonedType
  <2>5. QED
    BY <2>1, <2>2, <2>3, <2>4 DEF Of, Beats, Acquires
<1>4. /\ Len(queue') \in Nat /\ Len(queue) <= Len(queue') /\ Len(queue') <= Backlog
      /\ \A i \in Line' : i \in Line \/ Of(i, c)'
  <2>1. CASE Len(queue') = Len(queue)
    BY <1>1, <2>1 DEF Line, LineTypes
  <2>2. ASSUME NEW by \in {"main", "thread"}, NEW op \in {"acquire", "heartbeat", "release"},
               Sent(c, by, op)
        PROVE  /\ Len(queue') \in Nat /\ Len(queue) <= Len(queue') /\ Len(queue') <= Backlog
               /\ \A i \in Line' : i \in Line \/ Of(i, c)'
    <3>1. PICK n : n = Len(queue) + 1
      OBVIOUS
    <3>2. Line' = Line \cup {n} /\ Of(n, c)'
      BY <2>2, <3>1, SentShape
    <3>3. QED
      BY <1>1, <2>2, <3>2, TimesAssumption DEF Sent
  <2>3. QED
    BY <2>1, <2>2 DEF Dropped
<1>5. Line \subseteq Line'
  BY <1>1, <1>4 DEF Line
<1>6. LineTypes'
  BY <1>4 DEF Dropped, LineTypes
<1>7. Refreshing(c) => Refreshing(c)'
  BY <1>3, <1>5 DEF Refreshing
<1>8. ASSUME \A d \in Clients \ {c} :
               main'[d] = main[d] /\ thread'[d] = thread[d] /\ pause'[d] = pause[d]
      PROVE  OthersStay(c)
  <2>1. \A i \in Line : ~Of(i, c) => Ticket(i)' = Ticket(i)
    BY <1>2, <1>3
  <2>2. \A i \in Line' :
          \/ Of(i, c)'
          \/ Ticket(i)' = NoRequest
          \/ i \in Line /\ Ticket(i)' = Ticket(i)
    BY <1>2, <1>3, <1>4
  <2>3. Len(queue') \in Nat /\ Len(queue) <= Len(queue')
    BY <1>4
  <2>4. QED
    BY <1>8, <2>1, <2>2, <2>3 DEF OthersStay
<1>9. QED
  BY <1>1, <1>2, <1>3, <1>5, <1>6, <1>7, <1>8

(* The server is through with its request; it may have lost its leases.    *)
Handled(c) ==
  /\ current # NoRequest /\ current.from = c /\ current' = NoRequest
  /\ lease' \in [Clients -> LeaseAges \cup {NoLease}]
  /\ \A d \in Clients : lease'[d] \in {lease[d], NoLease}
  /\ ServerTypes'

LEMMA DroppedPlain ==
  ASSUME LineTypes, NEW c \in Clients, Handled(c), UNCHANGED queue
  PROVE  Dropped(c, {}) /\ Line' = Line
BY DEF Dropped, Handled, LineTypes, Line, Ticket, Abandoned

(* Nobody waits for the answer any more. *)
LEMMA UnheardKeeps ==
  ASSUME IInv, HistStep, NEW c \in Clients, Handled(c), ~current.open,
         UNCHANGED <<main, thread, limit, pause, queue>>
  PROVE  IInv'
<1>1. LineTypes /\ ThreadOK(c) /\ MainOK(c)
  BY DEF IInv
<1>2. Dropped(c, {}) /\ Line' = Line
  BY <1>1, DroppedPlain
<1>3. /\ 0 \in Line /\ ~Of(0, c)'
      /\ \A i \in Line \ {0} :
           /\ Of(i, c)' <=> Of(i, c)
           /\ Of(i, c) => Ticket(i)'.op = Ticket(i).op
           /\ Beats(i, c)' <=> Beats(i, c)
           /\ Acquires(i, c)' <=> Acquires(i, c)
      /\ LineTypes' /\ OthersStay(c)
      /\ Refreshing(c) => Refreshing(c)'
  BY <1>1, <1>2, DropShape
<1>4. ~Beats(0, c) /\ ~Acquires(0, c) /\ ~Beats(0, c)' /\ ~Acquires(0, c)'
  BY <1>3 DEF Beats, Acquires, Ticket
<1>5. ThreadOK(c)'
  BY <1>1, <1>2, <1>3, <1>4 DEF ThreadOK, Beats
<1>6. MainOK(c)'
  BY <1>1, <1>2, <1>3, <1>4 DEF MainOK, Handled
<1>7. ASSUME c \in Tssh, lease'[c] = lease[c], lease[c] \notin {NoLease, 0}
      PROVE  LeaseOK(c)'
  <2>1. late'[c] >= late[c] /\ late[c] \in Nat /\ lease[c] \in Nat /\ pause[c] \in Nat
        /\ late'[c] \in Nat /\ Beat \in Nat
    BY <1>7, LateGrows, TimesAssumption, TimerTypes DEF IInv, Types
  <2>2. QED
    BY <1>3, <1>7, <2>1 DEF IInv, LeaseOK
<1>8. QED
  BY <1>3, <1>5, <1>6, <1>7, OneClientKeeps DEF Handled, IInv, Types

(* The main thread has its answer. *)
LEMMA MainHearsKeeps ==
  ASSUME IInv, HistStep, NEW c \in Clients, Handled(c), current.open, current.by = "main",
         NEW answer, MainReceives(c, answer)
  PROVE  IInv'
<1>1. LineTypes /\ ThreadOK(c)
  BY DEF IInv
<1>2. UNCHANGED queue \/ queue' = [i \in DOMAIN queue |-> Abandoned(queue[i], c, {"thread"})]
  BY DEF MainReceives
<1>3. PICK who \in {{}, {"thread"}} :
        Dropped(c, who) /\ Line' = Line /\ (main[c] = "releasing" => "thread" \in who)
  <2>1. CASE main[c] # "releasing"
    BY <1>1, <2>1, DroppedPlain DEF MainReceives
  <2>2. CASE main[c] = "releasing"
    <3>1. PICK q : q = [i \in DOMAIN queue |-> Abandoned(queue[i], c, {"thread"})]
      OBVIOUS
    <3>2. queue' = q
      BY <2>2, <3>1 DEF MainReceives
    <3>3. /\ q \in Seq(Request)
          /\ Len(q) = Len(queue)
          /\ \A i \in 1..Len(queue) : q[i] = Abandoned(queue[i], c, {"thread"})
      BY <1>1, <3>1, Left
    <3>4. Line' = Line
      BY <3>2, <3>3 DEF Line
    <3>5. \A i \in Line \ {0} : Ticket(i)' = Abandoned(Ticket(i), c, {"thread"})
      BY <1>1, <3>2, <3>3, LineType DEF Ticket
    <3>6. Dropped(c, {"thread"})
      BY <3>2, <3>3, <3>5 DEF Dropped, Handled
    <3>7. QED
      BY <3>4, <3>6
  <2>3. QED
    BY <2>1, <2>2
<1>4. /\ 0 \in Line /\ ~Of(0, c)'
      /\ \A i \in Line \ {0} : Beats(i, c)' <=> Beats(i, c) /\ "thread" \notin who
      /\ LineTypes'
      /\ (\A d \in Clients \ {c} :
            main'[d] = main[d] /\ thread'[d] = thread[d] /\ pause'[d] = pause[d])
           => OthersStay(c)
  BY <1>1, <1>3, DropShape
<1>5. main[c] \in {"acquiring", "releasing"}
      /\ (main[c] = "acquiring" => thread[c] = "off")
  BY DEF MainReceives, IInv, Types
<1>6. /\ main' \in [Clients -> {"new", "acquiring", "running", "joining",
                                "releasing", "done"}]
      /\ thread' \in [Clients -> {"off", "waiting", "beating", "restoring", "again"}]
      /\ limit' \in [Clients -> Timers] /\ pause' \in [Clients -> Timers]
      /\ \A d \in Clients \ {c} :
           main'[d] = main[d] /\ thread'[d] = thread[d] /\ pause'[d] = pause[d]
      /\ \/ main[c] = "acquiring" /\ main'[c] = "running" /\ thread'[c] = "waiting"
            /\ pause'[c] = Interval(c)
         \/ main'[c] = "joining" /\ thread'[c] = "off"
         \/ main'[c] = "done" /\ thread'[c] = "off"
  BY <1>5, TimerTypes, IntervalType DEF MainReceives, IInv, Types, Over, Rest
<1>7. \A i \in Line' : ~Beats(i, c)'
  <2>1. ~Beats(0, c)'
    BY <1>4 DEF Beats
  <2>2. ASSUME NEW i \in Line \ {0} PROVE ~Beats(i, c)'
    BY <1>1, <1>3, <1>4, <1>5 DEF ThreadOK
  <2>3. QED
    BY <1>3, <2>1, <2>2
<1>8. ThreadOK(c)'
  BY <1>6, <1>7, IntervalType DEF ThreadOK, Interval
<1>9. MainOK(c)'
  BY <1>6 DEF MainOK
<1>10. ASSUME c \in Tssh, lease'[c] = lease[c], lease[c] \notin {NoLease, 0}
       PROVE  LeaseOK(c)'
  <2>1. late'[c] >= late[c] /\ late[c] \in Nat /\ lease[c] \in Nat
        /\ late'[c] \in Nat /\ Beat \in Nat /\ Interval(c) = Beat
    BY <1>10, LateGrows, TimesAssumption, TimerTypes DEF IInv, Types, Interval
  <2>2. main[c] = "acquiring" => lease[c] <= late[c]
    BY <1>10 DEF IInv, LeaseOK
  <2>3. QED
    BY <1>6, <1>10, <2>1, <2>2 DEF LeaseOK
<1>11. QED
  BY <1>4, <1>6, <1>8, <1>9, <1>10, OneClientKeeps DEF Handled

(* The heartbeat thread has its answer: it acquires again, stops or rests. *)
LEMMA ThreadHearsKeeps ==
  ASSUME IInv, HistStep, NEW c \in Clients, Handled(c), current.open, current.by = "thread",
         NEW answer, ThreadReceives(c, answer),
         answer \in {"cleared", "failed"} => lease'[c] = NoLease
  PROVE  IInv'
<1>1. LineTypes /\ ThreadOK(c) /\ MainOK(c)
  BY DEF IInv
<1>2. 0 \in Line /\ Beats(0, c)
  BY LineType DEF IInv, Line, Beats, Of, Ticket, Handled
<1>3. /\ thread[c] \in {"beating", "restoring", "again"}
      /\ main[c] \in {"running", "joining", "releasing"}
      /\ \A i \in Line \ {0} : ~Beats(i, c)
  BY <1>1, <1>2 DEF ThreadOK, IInv, Types
<1>4. UNCHANGED <<main, limit>>
  BY DEF ThreadReceives
<1>5. CASE /\ \E what \in {"restoring", "again"} : Repeat(c, what)
           /\ Room
           /\ Post(queue, c, "thread", "acquire")
           /\ answer \in {"cleared", "failed"}
  <2>1. /\ queue' \in Seq(Request)
        /\ Len(queue') = Len(queue) + 1
        /\ \A i \in 1..Len(queue) : queue'[i] = queue[i]
        /\ queue'[Len(queue) + 1] =
             [from |-> c, by |-> "thread", op |-> "acquire", open |-> TRUE]
    BY <1>1, <1>5, Posted DEF LineTypes
  <2>2. Sent(c, "thread", "acquire")
    BY <1>5, <2>1 DEF Sent, Room
  <2>3. Dropped(c, {})
    BY <1>1, <2>1, <2>2, LineType DEF Dropped, Handled, Ticket, Abandoned
  <2>4. PICK n : n = Len(queue) + 1
    OBVIOUS
  <2>5. /\ n \in Nat \ {0} /\ Line' = Line \cup {n}
        /\ Beats(n, c)' /\ Of(n, c)' /\ Ticket(n)'.op = "acquire"
    BY <1>1, <2>2, <2>4, SentShape
  <2>6. /\ thread' \in [Clients -> {"off", "waiting", "beating", "restoring", "again"}]
        /\ pause' \in [Clients -> Timers]
        /\ thread'[c] \in {"restoring", "again"}
        /\ \A d \in Clients \ {c} : thread'[d] = thread[d] /\ pause'[d] = pause[d]
    BY <1>5, TimerTypes DEF IInv, Types, Repeat
  <2>7. /\ ~Of(0, c)'
        /\ \A i \in Line \ {0} : Beats(i, c)' <=> Beats(i, c)
        /\ LineTypes' /\ OthersStay(c)
    BY <1>1, <1>4, <2>3, <2>6, DropShape
  <2>8. \A i \in Line' : Beats(i, c)' => i = n
    BY <1>3, <2>5, <2>7 DEF Beats
  <2>9. ThreadOK(c)'
    BY <2>5, <2>6, <2>8 DEF ThreadOK
  <2>10. MainOK(c)'
    BY <1>3, <1>4, <2>6 DEF MainOK
  <2>11. QED
    BY <1>3, <1>4, <1>5, <2>6, <2>7, <2>9, <2>10, OneClientKeeps DEF Handled, IInv, Types
<1>6. CASE /\ UNCHANGED queue
           /\ \/ Rest(c)
              \/ /\ c \in Connect
                 /\ thread' = [thread EXCEPT ![c] = "off"]
                 /\ pause' = [pause EXCEPT ![c] = 0]
  <2>1. Dropped(c, {}) /\ Line' = Line
    BY <1>1, <1>6, DroppedPlain
  <2>2. /\ thread' \in [Clients -> {"off", "waiting", "beating", "restoring", "again"}]
        /\ pause' \in [Clients -> Timers]
        /\ \/ thread'[c] = "waiting" /\ pause'[c] = Interval(c)
           \/ thread'[c] = "off" /\ c \notin Tssh
        /\ \A d \in Clients \ {c} : thread'[d] = thread[d] /\ pause'[d] = pause[d]
    BY <1>6, TimerTypes, IntervalType, ClientsAssumption DEF IInv, Types, Rest
  <2>3. /\ ~Of(0, c)'
        /\ \A i \in Line \ {0} : Beats(i, c)' <=> Beats(i, c)
        /\ LineTypes' /\ OthersStay(c)
        /\ Refreshing(c) => Refreshing(c)'
    BY <1>1, <1>4, <2>1, <2>2, DropShape
  <2>4. \A i \in Line' : ~Beats(i, c)'
    BY <1>3, <2>1, <2>3 DEF Beats
  <2>5. ThreadOK(c)'
    BY <2>2, <2>4, IntervalType DEF ThreadOK, Interval
  <2>6. MainOK(c)'
    BY <1>3, <1>4, <2>2 DEF MainOK
  <2>7. ASSUME c \in Tssh, lease'[c] = lease[c], lease[c] \notin {NoLease, 0}
        PROVE  LeaseOK(c)'
    <3>1. late'[c] >= late[c] /\ late[c] \in Nat /\ lease[c] \in Nat
          /\ late'[c] \in Nat /\ Beat \in Nat /\ Interval(c) = Beat
      BY <2>7, LateGrows, TimesAssumption, TimerTypes DEF IInv, Types, Interval
    <3>2. LeaseOK(c)
      BY <2>7 DEF IInv
    <3>3. QED
      BY <1>3, <1>4, <2>2, <2>3, <2>7, <3>1, <3>2 DEF LeaseOK
  <2>8. QED
    BY <1>3, <1>4, <2>2, <2>3, <2>5, <2>6, <2>7, OneClientKeeps DEF Handled, IInv, Types
<1>7. QED
  BY <1>5, <1>6 DEF ThreadReceives

LEMMA DeliverKeeps ==
  ASSUME IInv, HistStep, NEW c \in Clients, Handled(c), NEW answer, Deliver(current, answer),
         answer \in {"cleared", "failed"} => lease'[c] = NoLease
  PROVE  IInv'
<1>1. current \in Request /\ current.from = c
  BY DEF Handled, IInv, LineTypes
<1>2. CASE ~current.open
  BY <1>2, UnheardKeeps DEF Deliver
<1>3. CASE current.open /\ current.by = "main"
  BY <1>1, <1>3, MainHearsKeeps DEF Deliver
<1>4. CASE current.open /\ current.by = "thread"
  BY <1>1, <1>4, ThreadHearsKeeps DEF Deliver
<1>5. QED
  BY <1>1, <1>2, <1>3, <1>4 DEF Request

LEMMA AnswerKeeps ==
  ASSUME IInv, HistStep, Answer
  PROVE  IInv'
<1>1. /\ current \in Request /\ current # NoRequest /\ current' = NoRequest
      /\ server' = "pass" /\ UNCHANGED <<busy, lease>>
  BY DEF Answer, IInv, LineTypes, ServerTypes
<1>2. PICK c \in Clients : c = current.from
  BY <1>1 DEF Request
<1>3. ServerTypes'
  BY <1>1 DEF IInv, ServerTypes
<1>4. Handled(c)
  BY <1>1, <1>2, <1>3 DEF Handled, IInv, Types
<1>5. current.op \in {"acquire", "heartbeat", "release"}
  BY <1>1 DEF Request
<1>6. PICK answer : /\ Deliver(current, answer)
                    /\ answer \in {"cleared", "failed"} => lease'[c] = NoLease
  <2>1. CASE current.op = "acquire"
    BY <2>1 DEF Answer
  <2>2. CASE current.op = "release"
    BY <2>2 DEF Answer
  <2>3. CASE current.op = "heartbeat"
    BY <1>1, <1>2, <2>3 DEF Answer
  <2>4. QED
    BY <1>5, <2>1, <2>2, <2>3
<1>7. QED
  BY <1>4, <1>6, DeliverKeeps

-----------------------------------------------------------------------------
(* Leases are lost, and nothing else that concerns a client.               *)
LEMMA LossKeeps ==
  ASSUME IInv, HistStep, UNCHANGED <<main, thread, limit, pause, queue, current>>,
         lease' \in [Clients -> LeaseAges \cup {NoLease}],
         \A d \in Clients : lease'[d] \in {lease[d], NoLease},
         ServerTypes'
  PROVE  IInv'
<1>1. late' \in [Clients -> Nat]
  BY LateGrows
<1>2. Types' /\ LineTypes' /\ Line' = Line
  BY <1>1 DEF IInv, Types, LineTypes, Line
<1>3. ASSUME NEW d \in Clients PROVE ThreadOK(d)' /\ MainOK(d)'
  BY <1>2, <1>3 DEF IInv, ThreadOK, MainOK, Beats, Acquires, Of, Ticket, Interval
<1>4. ASSUME NEW d \in Tssh PROVE LeaseOK(d)'
  <2>1. d \in Clients /\ ThreadOK(d)'
    BY <1>3 DEF Clients
  <2>2. late'[d] \in Nat /\ pause'[d] \in Nat
    BY <1>1, <2>1, TimerTypes DEF IInv, Types
  <2>3. CASE lease'[d] \in {NoLease, 0}
    BY <2>1, <2>2, <2>3, LeaseFresh
  <2>4. CASE lease'[d] \notin {NoLease, 0}
    <3>1. lease'[d] = lease[d] /\ LeaseOK(d)
      BY <2>1, <2>4 DEF IInv
    <3>2. late'[d] >= late[d] /\ late[d] \in Nat /\ lease[d] \in Nat /\ pause[d] \in Nat
          /\ Beat \in Nat
      BY <2>1, <2>4, <3>1, LateGrows, TimesAssumption, TimerTypes DEF IInv, Types
    <3>3. Refreshing(d)' <=> Refreshing(d)
      BY <1>2 DEF Refreshing, Of, Ticket
    <3>4. QED
      BY <2>2, <2>4, <3>1, <3>2, <3>3 DEF LeaseOK
  <2>5. QED
    BY <2>3, <2>4
<1>5. QED
  BY <1>2, <1>3, <1>4 DEF IInv

LEMMA ExpiredType ==
  ASSUME IInv
  PROVE  /\ Expired \in [Clients -> LeaseAges \cup {NoLease}]
         /\ \A d \in Clients : Expired[d] \in {lease[d], NoLease}
BY DEF IInv, Types, Expired

LEMMA ServerKeeps ==
  ASSUME IInv, HistStep, Pass \/ Cleanup \/ Restart
  PROVE  IInv'
<1>1. UNCHANGED <<main, thread, limit, pause, queue, current>>
  BY DEF Pass, Cleanup, Restart, serverVars
<1>2. CASE Pass
  BY <1>1, <1>2, ExpiredType, LossKeeps DEF Pass, IInv, ServerTypes
<1>3. CASE Cleanup
  <2>1. ServerTypes'
    BY <1>3 DEF Cleanup, serverVars, IInv, ServerTypes
  <2>2. QED
    BY <1>1, <1>3, <2>1, LossKeeps DEF Cleanup
<1>4. CASE Restart
  BY <1>1, <1>4, LossKeeps DEF Restart, IInv, Types, ServerTypes
<1>5. QED
  BY <1>2, <1>3, <1>4

LEMMA CrashKeeps ==
  ASSUME IInv, HistStep, Crash
  PROVE  IInv'
<1>1. /\ lease' = [c \in Clients |-> NoLease] /\ server' = "down" /\ busy' = 0
      /\ current' = NoRequest
  BY DEF Crash
<1>2. ServerTypes'
  BY <1>1, TimesAssumption DEF ServerTypes
<1>3. CASE current = NoRequest
  BY <1>1, <1>2, <1>3, LossKeeps DEF Crash
<1>4. CASE current # NoRequest
  <2>1. PICK c \in Clients : c = current.from
    BY <1>4 DEF IInv, LineTypes, Request
  <2>2. Handled(c) /\ lease'[c] = NoLease
    BY <1>1, <1>2, <1>4, <2>1 DEF Handled
  <2>3. QED
    BY <1>4, <2>2, DeliverKeeps DEF Crash
<1>5. QED
  BY <1>3, <1>4

(* The next request: the line moves up, and its sender has its lease       *)
(* refreshed, or none.                                                     *)
LEMMA TakeKeeps ==
  ASSUME IInv, HistStep, Take
  PROVE  IInv'
<1>1. LineTypes /\ ServerTypes /\ Types
  BY DEF IInv
<1>2. /\ server = "select" /\ server' = "answer" /\ queue # <<>>
      /\ current = NoRequest
      /\ current' = Head(queue) /\ queue' = Tail(queue)
      /\ UNCHANGED <<main, thread, limit, pause>>
  BY <1>1 DEF Take, Ready, ServerTypes
<1>3. /\ Len(queue) \in Nat \ {0} /\ queue[1] \in Request /\ Head(queue) = queue[1]
      /\ Tail(queue) \in Seq(Request) /\ Len(Tail(queue)) = Len(queue) - 1
      /\ \A i \in 1..(Len(queue) - 1) : Tail(queue)[i] = queue[i + 1]
  BY <1>1, <1>2, LineType, EmptySeq, HeadTailProperties, ElementOfSeq DEF LineTypes
<1>4. PICK r \in Request : r = Head(queue)
  BY <1>3
<1>5. PICK c \in Clients : c = r.from
  BY DEF Request
<1>6. r.op \in {"acquire", "heartbeat", "release"} /\ r # NoRequest
  BY NoneAssumption DEF Request
<1>7. /\ Line' = 0..(Len(queue) - 1)
      /\ \A i \in Line' : i + 1 \in Line \ {0}
      /\ \A i \in Line \ {0} : i - 1 \in Line'
      /\ 0 \in Line /\ 1 \in Line
  BY <1>2, <1>3 DEF Line
<1>8. ASSUME NEW i \in Line', NEW j, j = i + 1
      PROVE  j \in Line \ {0} /\ Ticket(i)' = Ticket(j)
  BY <1>2, <1>3, <1>7, <1>8 DEF Ticket, Line
<1>9. ASSUME NEW j \in Line \ {0}, NEW i, i = j - 1
      PROVE  i \in Line' /\ j = i + 1 /\ Ticket(i)' = Ticket(j)
  <2>1. j \in Nat
    BY <1>1, LineType
  <2>2. i \in Line' /\ j = i + 1
    BY <1>7, <1>9, <2>1
  <2>3. QED
    BY <1>8, <2>2
<1>10. \A d : ~Of(0, d)
  BY <1>2 DEF Of, Ticket
<1>11. LineTypes'
  BY <1>1, <1>2, <1>3, <1>4, TimesAssumption DEF LineTypes
<1>12. ServerTypes'
  BY <1>1, <1>2, <1>4, <1>6, TimesAssumption DEF Take, ServerTypes
<1>13. /\ lease' \in [Clients -> LeaseAges \cup {NoLease}]
       /\ lease'[c] \in {0, NoLease}
       /\ \A d \in Clients \ {c} : lease'[d] \in {lease[d], NoLease}
  <2>1. /\ Expired \in [Clients -> LeaseAges \cup {NoLease}]
        /\ \A d \in Clients : Expired[d] \in {lease[d], NoLease}
        /\ 0 \in LeaseAges
    BY ExpiredType, TimesAssumption DEF LeaseAges
  <2>2. CASE r.op = "acquire"
    <3>1. lease' = [Expired EXCEPT ![c] = 0]
      BY <1>4, <1>5, <2>2 DEF Take
    <3>2. QED
      BY <2>1, <3>1
  <2>3. CASE r.op = "release"
    <3>1. lease' = [Expired EXCEPT ![c] = NoLease]
      BY <1>4, <1>5, <2>3 DEF Take
    <3>2. QED
      BY <2>1, <3>1
  <2>4. CASE r.op = "heartbeat"
    <3>1. lease' = [Expired EXCEPT ![c] = IF Expired[c] = NoLease THEN Expired[c] ELSE 0]
      BY <1>4, <1>5, <2>4 DEF Take
    <3>2. QED
      BY <2>1, <3>1
  <2>5. QED
    BY <1>6, <2>2, <2>3, <2>4
<1>14. late' \in [Clients -> Nat]
  BY LateGrows
<1>15. Types'
  BY <1>1, <1>2, <1>13, <1>14 DEF Types
<1>16. ASSUME NEW d \in Clients PROVE ThreadOK(d)'
  <2>1. ThreadOK(d)
    BY DEF IInv
  <2>2. ASSUME NEW i \in Line', NEW j, j = i + 1
        PROVE  j \in Line /\ (Beats(i, d)' <=> Beats(j, d)) /\ Ticket(i)'.op = Ticket(j).op
    BY <1>8, <2>2 DEF Beats, Of
  <2>3. ASSUME NEW i \in Line', Beats(i, d)'
        PROVE  thread'[d] \in {"beating", "restoring", "again"} /\ Ticket(i)'.op \in {"heartbeat", "acquire"}
    <3>1. PICK j : j = i + 1
      OBVIOUS
    <3>2. QED
      BY <1>2, <2>1, <2>2, <2>3, <3>1 DEF ThreadOK
  <2>4. ASSUME NEW i \in Line', NEW k \in Line', Beats(i, d)', Beats(k, d)'
        PROVE  i = k
    <3>1. PICK j, l : j = i + 1 /\ l = k + 1
      OBVIOUS
    <3>2. j = l
      BY <2>1, <2>2, <2>4, <3>1 DEF ThreadOK
    <3>3. QED
      BY <1>3, <1>7, <3>1, <3>2
  <2>5. ASSUME thread'[d] \in {"beating", "restoring", "again"} PROVE \E i \in Line' : Beats(i, d)'
    <3>1. PICK j \in Line : Beats(j, d)
      BY <1>2, <2>1, <2>5 DEF ThreadOK
    <3>2. j # 0
      BY <1>10, <3>1 DEF Beats
    <3>3. PICK i : i = j - 1
      OBVIOUS
    <3>4. i \in Line' /\ j = i + 1
      BY <1>9, <3>2, <3>3
    <3>5. QED
      BY <2>2, <3>1, <3>4
  <2>6. QED
    BY <1>2, <2>1, <2>3, <2>4, <2>5 DEF ThreadOK, Interval
<1>17. ASSUME NEW d \in Clients PROVE MainOK(d)'
  <2>1. MainOK(d)
    BY DEF IInv
  <2>2. ASSUME NEW i \in Line', NEW j, j = i + 1
        PROVE  j \in Line /\ (Acquires(i, d)' <=> Acquires(j, d)) /\ (Of(i, d)' <=> Of(j, d))
    BY <1>8, <2>2 DEF Acquires, Of
  <2>3. ASSUME main'[d] = "new" PROVE lease'[d] = NoLease /\ \A i \in Line' : ~Of(i, d)'
    <3>1. \A j \in Line : ~Of(j, d)
      BY <1>2, <2>1, <2>3 DEF MainOK
    <3>2. Of(1, c)
      BY <1>3, <1>4, <1>5, <1>6 DEF Of, Ticket
    <3>3. lease'[d] = NoLease
      BY <1>2, <1>7, <1>13, <2>1, <2>3, <3>1, <3>2 DEF MainOK
    <3>4. ASSUME NEW i \in Line' PROVE ~Of(i, d)'
      <4>1. PICK j : j = i + 1
        OBVIOUS
      <4>2. QED
        BY <2>2, <3>1, <4>1
    <3>5. QED
      BY <3>3, <3>4
  <2>4. ASSUME main'[d] = "acquiring" PROVE \E i \in Line' : Acquires(i, d)'
    <3>1. PICK j \in Line : Acquires(j, d)
      BY <1>2, <2>1, <2>4 DEF MainOK
    <3>2. j # 0
      BY <1>10, <3>1 DEF Acquires
    <3>3. PICK i : i = j - 1
      OBVIOUS
    <3>4. i \in Line' /\ j = i + 1
      BY <1>9, <3>2, <3>3
    <3>5. QED
      BY <2>2, <3>1, <3>4
  <2>5. QED
    BY <1>2, <2>1, <2>3, <2>4 DEF MainOK
<1>18. ASSUME NEW d \in Tssh PROVE LeaseOK(d)'
  <2>1. d \in Clients /\ ThreadOK(d)'
    BY <1>16 DEF Clients
  <2>2. late'[d] \in Nat /\ pause'[d] \in Nat
    BY <1>2, <1>14, <2>1, TimerTypes DEF IInv, Types
  <2>3. CASE lease'[d] \in {NoLease, 0}
    BY <2>1, <2>2, <2>3, LeaseFresh
  <2>4. CASE lease'[d] \notin {NoLease, 0}
    <3>1. d # c /\ lease'[d] = lease[d] /\ LeaseOK(d)
      BY <1>13, <2>1, <2>4 DEF IInv
    <3>2. late'[d] >= late[d] /\ late[d] \in Nat /\ lease[d] \in Nat /\ pause[d] \in Nat
          /\ Beat \in Nat
      BY <2>1, <2>4, <3>1, LateGrows, TimesAssumption, TimerTypes DEF IInv, Types
    <3>3. Refreshing(d) => Refreshing(d)'
      <4>1. SUFFICES ASSUME NEW j \in Line \ {0}, Of(j, d),
                            Ticket(j).op \in {"acquire", "heartbeat"}
                     PROVE  Refreshing(d)'
        BY DEF Refreshing
      <4>2. j # 1
        BY <1>4, <1>3, <1>5, <3>1, <4>1 DEF Of, Ticket
      <4>3. PICK i : i = j - 1
        OBVIOUS
      <4>4. i \in Line' /\ Ticket(i)' = Ticket(j)
        BY <1>9, <4>3
      <4>5. i # 0
        BY <1>3, <4>2, <4>3 DEF Line
      <4>6. QED
        BY <4>1, <4>4, <4>5 DEF Refreshing, Of
    <3>4. QED
      BY <1>2, <2>2, <2>4, <3>1, <3>2, <3>3 DEF LeaseOK
  <2>5. QED
    BY <2>3, <2>4
<1>19. QED
  BY <1>11, <1>12, <1>15, <1>16, <1>17, <1>18 DEF IInv

(* Time passes.  If the server is not blocked, its line is empty: a lease  *)
(* that grows older then is one whose client has nothing under way.        *)
LEMMA TickKeeps ==
  ASSUME IInv, HistStep, Tick
  PROVE  IInv'
<1>1. LineTypes /\ ServerTypes /\ Types
  BY DEF IInv
<1>2. /\ UNCHANGED <<main, thread, queue, current>>
      /\ limit' = [c \in Clients |-> Less(limit[c])]
      /\ pause' = [c \in Clients |-> Less(pause[c])]
      /\ busy' = Less(busy)
      /\ server' \in {server, "pass"} /\ (server' # server => server = "select")
      /\ lease' = [c \in Clients |->
           IF lease[c] # NoLease /\ lease[c] <= LeaseTTL THEN lease[c] + 1 ELSE lease[c]]
  BY DEF Tick
<1>3. \A t \in Timers : Less(t) \in Timers /\ Less(t) <= t /\ (t # 0 => Less(t) = t - 1)
  BY TimesAssumption DEF Less, Timers
<1>4. /\ limit' \in [Clients -> Timers] /\ pause' \in [Clients -> Timers]
      /\ \A c \in Clients : pause'[c] <= pause[c] /\ (pause[c] # 0 => pause'[c] = pause[c] - 1)
  BY <1>1, <1>2, <1>3 DEF Types
<1>5. /\ lease' \in [Clients -> LeaseAges \cup {NoLease}]
      /\ \A c \in Clients : lease'[c] = NoLease <=> lease[c] = NoLease
      /\ \A c \in Clients : lease'[c] \in Nat => lease'[c] \in {lease[c], lease[c] + 1}
  <2>1. \A a \in LeaseAges : a <= LeaseTTL => a + 1 \in LeaseAges
    BY TimesAssumption DEF LeaseAges
  <2>2. QED
    BY <1>1, <1>2, <2>1, NoneAssumption DEF Types
<1>6. busy \in Nat /\ busy' \in 0..MaxBlock /\ (busy # 0 => busy' < busy)
      /\ (busy = 0 => busy' = 0)
  BY <1>1, <1>2, TimesAssumption DEF ServerTypes, Less
<1>7. late' \in [Clients -> Nat]
  BY LateGrows
<1>8. Types' /\ LineTypes' /\ Line' = Line
  BY <1>1, <1>2, <1>4, <1>5, <1>7 DEF Types, LineTypes, Line
<1>9. ServerTypes'
  BY <1>1, <1>2, <1>5, <1>6 DEF ServerTypes
<1>10. ASSUME NEW c \in Clients PROVE ThreadOK(c)' /\ MainOK(c)'
  <2>1. thread[c] = "waiting" => pause'[c] <= Interval(c)
    <3>1. pause[c] \in Nat /\ pause'[c] \in Nat
      BY <1>1, <1>4, TimerTypes DEF Types
    <3>2. QED
      BY <1>4, <3>1, IntervalType DEF IInv, ThreadOK
  <2>2. QED
    BY <1>2, <1>5, <1>8, <2>1 DEF IInv, ThreadOK, MainOK, Beats, Acquires, Of, Ticket, Interval
<1>11. busy = 0 /\ server # "down" => queue = <<>> /\ current = NoRequest
  BY <1>1 DEF Tick, Urgent, Ready, ServerTypes
<1>12. ASSUME NEW c \in Tssh PROVE LeaseOK(c)'
  <2>1. c \in Clients /\ ThreadOK(c) /\ MainOK(c) /\ LeaseOK(c) /\ ThreadOK(c)'
    BY <1>10 DEF Clients, IInv
  <2>2. late[c] \in Nat /\ late'[c] \in Nat /\ pause'[c] \in Nat /\ pause[c] \in Nat
        /\ Beat \in Nat
    BY <1>1, <1>4, <1>7, <2>1, TimesAssumption, TimerTypes DEF Types
  <2>3. Refreshing(c)' <=> Refreshing(c)
    BY <1>2, <1>8 DEF Refreshing, Of, Ticket
  <2>4. CASE lease'[c] \in {NoLease, 0}
    BY <2>1, <2>2, <2>4, LeaseFresh
  <2>5. CASE lease'[c] \notin {NoLease, 0}
    <3>1. lease[c] # NoLease /\ lease[c] \in Nat /\ lease'[c] \in {lease[c], lease[c] + 1}
      BY <1>1, <1>5, <2>1, <2>5, TimerTypes DEF Types
    <3>2. late'[c] >= late[c] /\ (busy # 0 /\ lease'[c] # lease[c] => late'[c] = late[c] + 1)
      BY <1>6, <2>1, <2>5, LateGrows
    <3>3. pause'[c] <= pause[c]
      BY <1>4, <2>1
    <3>4. CASE busy # 0 \/ lease'[c] = lease[c]
      BY <1>2, <2>1, <2>2, <2>3, <3>1, <3>2, <3>3, <3>4 DEF LeaseOK
    <3>5. CASE busy = 0
      <4>1. server # "down"
        BY <1>1, <2>1, <3>1 DEF ServerTypes
      <4>2. Line = {0} /\ \A d : ~Of(0, d)
        BY <1>11, <3>5, <4>1, EmptySeq DEF Line, Of, Ticket
      <4>3. main[c] # "acquiring" /\ thread[c] \notin {"beating", "restoring", "again"} /\ ~Refreshing(c)
        BY <2>1, <4>2 DEF MainOK, ThreadOK, Acquires, Beats, Refreshing
      <4>4. main[c] = "running" => thread[c] = "waiting" /\ pause'[c] = pause[c] - 1
        <5>1. main[c] = "running" => thread[c] = "waiting"
          BY <1>1, <2>1, <4>3 DEF MainOK, Types
        <5>2. thread[c] = "waiting" => pause[c] # 0
          BY <2>1 DEF Tick, Urgent
        <5>3. QED
          BY <1>4, <2>1, <5>1, <5>2
      <4>5. QED
        BY <1>2, <2>1, <2>2, <2>3, <3>1, <3>2, <4>3, <4>4 DEF LeaseOK
    <3>6. QED
      BY <3>4, <3>5
  <2>6. QED
    BY <2>4, <2>5
<1>13. QED
  BY <1>8, <1>9, <1>10, <1>12 DEF IInv

-----------------------------------------------------------------------------
LEMMA InitInv == HistInit => IInv
<1> SUFFICES ASSUME HistInit PROVE IInv
  OBVIOUS
<1>1. Types
  BY TimerTypes DEF HistInit, Init, Types
<1>2. LineTypes /\ Len(queue) = 0
  BY EmptySeq, TimesAssumption DEF HistInit, Init, LineTypes
<1>3. ServerTypes
  BY TimesAssumption DEF HistInit, Init, ServerTypes
<1>4. Line = {0} /\ \A c : ~Of(0, c)
  BY <1>2 DEF HistInit, Init, Line, Of, Ticket
<1>5. ASSUME NEW c \in Clients PROVE ThreadOK(c) /\ MainOK(c)
  BY <1>4 DEF HistInit, Init, ThreadOK, MainOK, Beats
<1>6. ASSUME NEW c \in Tssh PROVE LeaseOK(c)
  BY DEF HistInit, Init, LeaseOK, Clients
<1>7. QED
  BY <1>1, <1>2, <1>3, <1>5, <1>6 DEF IInv

LEMMA NextInv == IInv /\ [HistNext]_histVars => IInv'
<1> SUFFICES ASSUME IInv, [HistNext]_histVars PROVE IInv'
  OBVIOUS
<1>1. CASE HistNext
  <2>1. HistStep /\ Next
    BY <1>1 DEF HistNext, HistStep
  <2>2. ASSUME NEW c \in Clients, Launch(c) \/ SessionEnds(c) \/ Killed(c) \/ ClientStep(c)
        PROVE  IInv'
    BY <2>1, <2>2, LaunchKeeps, SessionEndsKeeps, MainEndsKeeps, SendReleaseKeeps,
       SendHeartbeatKeeps, HeartbeatTimeoutKeeps DEF ClientStep
  <2>3. QED
    BY <2>1, <2>2, ServerKeeps, TakeKeeps, AnswerKeeps, CrashKeeps, TickKeeps
       DEF Next, ServerStep
<1>2. CASE UNCHANGED histVars
  <2>1. UNCHANGED <<main, thread, limit, pause, queue, current, server, busy, lease, late>>
    BY <1>2 DEF histVars, vars
  <2>2. Types' /\ LineTypes' /\ ServerTypes'
    BY <2>1 DEF IInv, Types, LineTypes, ServerTypes
  <2>3. ASSUME NEW c \in Clients PROVE ThreadOK(c)' /\ MainOK(c)'
    BY <2>1 DEF IInv, ThreadOK, MainOK, Beats, Acquires, Of, Ticket, Line, Interval
  <2>4. ASSUME NEW c \in Tssh PROVE LeaseOK(c)'
    BY <2>1 DEF IInv, LeaseOK, Refreshing, Of, Ticket, Line
  <2>5. QED
    BY <2>2, <2>3, <2>4 DEF IInv
<1>3. QED
  BY <1>1, <1>2

LEMMA Invariance == HistSpec => []IInv
BY InitInv, NextInv, PTL DEF HistSpec

(* Every variable keeps its type: the backlog its limit, and no heartbeat  *)
(* thread runs before its client has a lease or after it has ended.        *)
THEOREM TypeCorrect == HistSpec => []TypeOK
<1>1. IInv => TypeOK
  BY DEF IInv, Types, LineTypes, ServerTypes, TypeOK
<1>2. QED
  BY <1>1, Invariance, PTL

(* A running tssh loses its lease only to a server that was blocked (or    *)
(* turned heartbeats away) for longer than the TTL less one interval, for  *)
(* any number of clients, whatever times out, is repeated, abandoned and   *)
(* executed all the same.                                                  *)
THEOREM LeaseOutlivesSmallBlocks == HistSpec => LostOnlyWhenBlocked
<1>1. ASSUME IInv, NEW c \in Tssh, main[c] = "running", Stale(c)
      PROVE  late[c] > LeaseTTL - Beat
  <2>1. lease[c] # NoLease /\ lease[c] <= Beat + late[c] /\ lease[c] > LeaseTTL
    BY <1>1 DEF IInv, LeaseOK, Stale
  <2>2. lease[c] \in Nat /\ late[c] \in Nat /\ Beat \in Nat /\ LeaseTTL \in Nat
    BY <1>1, <2>1, TimesAssumption, TimerTypes DEF IInv, Types, Clients
  <2>3. QED
    BY <2>1, <2>2
<1>2. IInv => [ server # "down" /\ server' # "down" =>
                  \A c \in Tssh : main[c] = "running" /\ Stale(c) /\ lease'[c] = NoLease =>
                    late[c] > LeaseTTL - Beat ]_histVars
  BY <1>1
<1>3. QED
  BY <1>2, Invariance, PTL DEF LostOnlyWhenBlocked
=============================================================================
