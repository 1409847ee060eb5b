# The local orchestrator of re_remote_dev, in TLA+

re_remote_dev gives interactive SSH sessions to remote hosts a proxy and an
OAuth path home. One local user service, the *orchestrator*, shares one reverse
tunnel per remote endpoint among all `tssh` sessions to it, brings it up again
when it fails, takes it down when the last session goes, and opens a temporary
`localhost:1455` callback while a remote Codex logs in. Around it are the `tssh`
client that holds a lease while its session lasts, a supervisor for managed
sessions, and a queue that fetches remote files (`rget`, `rdo`). This directory
holds models of these, TLC configurations that check them on small instances,
and TLAPS proofs for all instances.

Paths below are relative to the repository; `server.py` and its neighbours are
in `src/remote_dev/orchestrator/`.

## 1. The system

| component | state | operations | what is hard | what makes it correct |
|---|---|---|---|---|
| lease table (`server.py`, `health.py`) | `sessions`, `endpoints` (owner, session_count, event_required, state, back-off) | acquire, re-acquire, heartbeat, release, expiry, retry, cleanup | hand-kept counts, owners and legs, and every handler can fail half way | count = leases; owner has a lease; no unit without leases; READY and event_required mean what they say |
| target registry (`server.py`, `model.py`) | `targets`, `_identity_files`, `_oauth_browser_opened` | register, unregister, lease join/leave, CODEX_START/OAUTH_URL/EXIT | one counter for two kinds of use, ends in any order, restarts | the count never exceeds the uses and is their number unless a use was missed; popped by the lease that leaves it unused |
| OAuth callback (`oauth.py`) | `_active` (one for all targets) | start, finish | exclusive resource, busy, occupied port | held only for a target that needs it, freed with its last use and not before |
| server loop (`server.py` serve/handle) | position in a pass, snapshots | select, expire pass, retry pass, dispatch, exit, restart | passes walk snapshots while handlers block and change the tables | a pass never acts on an entry that is gone or no longer due; dead leases and dead tunnels are dealt with unasked |
| endpoint forwarder (`endpoint_forward.py`, `proxy_persistent.py`) | systemd unit, unit file, `_external`, `_event_only` | start, stop, cleanup_orphans | foreign proxies, non-blocking stop, automatic restarts, failure of any command | a start that returns has left its unit or reused a proxy; one that raises has left none or the old one; every call returns |
| tssh client (`tssh.py`), `connect` (`cli.py`) | session id, main and heartbeat thread | acquire, heartbeat, re-acquire, release | restart of the server, time-outs whose request is executed all the same, a blocked server, full backlog | a live client keeps its lease or gets it back, a dead one loses it for good |
| managed session supervisor (`session.py`, `master.py`, `forwarder.py`, `persistent.py`) | master, two forwards, failure count, back-off, registration | start, stop, serve | partial failure of start, inconclusive probes, ports not yet freed, orchestrator away, SIGTERM in the middle | nothing leaks; a healthy session is left alone, a broken one recovers; proxy_available is corrected |
| download queue (`download.py`, `file_transfer.py`) | jobs, .part files, sidecars | submit, _run, shutdown | two sessions on the same files, remote changes, orphaned sftp, kill between two renames | a file under a matching sidecar is what the sidecar says |
| preview bridge (`preview_bridge.py`, `remote_preview_helper.py`) | listener, connections of helpers | request, progress, complete, stop | teardown while helpers wait, cancelled jobs | exit 0 means fetched |
| upload (`upload.py`) | remote partial | put, resume, rename | resume by size | no mixed content |
| release scripts (`release/`) | versions, `current` link | install, rollback | crash between two renames | `current` names a whole version |
| events and IPC (`protocol.py`, `client.py`), remote shim (`roles/codex`), ssh_config editing, provisioning | – | – | mostly pure or I/O | – |

Clients talk to the server over a Unix socket, one request per connection; the
remote Codex shim does so through the tunnel's event leg (remote 4228 to local
4230). The server is one thread, so no two handlers interleave. What does
interleave with it: time, clients and their deaths, ssh processes and systemd
units, and its own crashes and restarts, after which all tables are empty while
units and clients are still there.

## 2. Modules

| module | what it is |
|---|---|
| `EndpointLease` | abstract specification: holders of an endpoint, whether a tunnel is there, whether the server is there |
| `LeaseTable` | `OrchestratorServer.sessions` and `.endpoints`, and the unit of each endpoint; one action per handler |
| `TargetTable` | the target registry and the OAuth callback, as operators on its variables |
| `Orchestrator` | the process: serve() and handle() over both tables, clients, Codex processes, crashes |
| `EndpointStart` | abstract specification: start() and stop() of one endpoint as one step each |
| `EndpointForwarder` | `EndpointForwardManager` for one endpoint, command by command, with systemd, ssh and the remote port |
| `TsshLease` | tssh and connect processes, their threads and requests, the backlog and the server's thread, in time |
| `DownloadQueue` | requests, jobs and their files, for several sessions over the same remote file |
| `SessionSupervisor` | `SessionManager.start`/`serve`/`stop` in its unit, with master, forwards, remote ports, faults |
| `MCLeaseTable`, `MCOrchestrator`, `MCTsshLease`, `MCDownloadQueue` | constants and history variables for TLC |
| `LeaseTableProofs` | invariants of LeaseTable and its refinement of EndpointLease |
| `OrchestratorProofs` | what `LeaseTableProofs` proves, carried over to Orchestrator |
| `RegistryProofs` | types, target registry, callback and snapshots of Orchestrator |
| `EndpointForwarderProofs` | the safety properties of EndpointForwarder and its refinement of EndpointStart |
| `SessionSupervisorProofs` | types, leaks and health of SessionSupervisor |
| `DownloadQueueProofs` | exit status 0 of DownloadQueue |
| `DownloadFilesProofs` | types and sidecars of DownloadQueue |
| `TsshLeaseProofs` | types and lost leases of TsshLease |

`Orchestrator` instantiates `LeaseTable` as `L` and `TargetTable` as `T` over its
own variables. A handler is a conjunction of both parts, e.g. `ReleaseLease` is
`L!Release /\ T!Leave`, because `_handle_lease("release")` does both.
`LeaseTable` stands alone too: its `Next` lets the handlers come in any order,
which is what the proofs are about. That Orchestrator then implements LeaseTable is
by construction and is no property here; it is the lemma (`TableSteps`) by which
the theorems about the table hold in the running server.

### Correspondence

- A lease is `[endpoint, user, identity, event, age]`: `identity` is whether an
  `identity_file` was sent, `age` is `now - last_seen` in ticks and stops one
  above the TTL, since only `> lease_ttl` is ever asked.
- A record is `[state, owner, count, event, failures, wait]`: `event` is
  `event_required`, `wait` is `next_retry - now` in ticks, `failures` is
  `failure_count` up to the length of the ladder, since `retry_delay` clamps it
  there.
- `tunnel[e]` is the endpoint's systemd unit: none, one that runs for a user with
  or without event leg, or one that systemd has given up on (`TunnelDies`).
- `EndpointForwardManager.start` is `Outcomes`: it returns with the unit up
  (`ensure` has written and (re)started it), raises after `remove`, or raises
  before it touched anything.
- `Acquire`, `Reacquire`, `Heartbeat`, `Release`, `Expire`, `Reconcile`,
  `Cleanup` are the branches of `_handle_lease`, `_expire_sessions`,
  `_reconcile_endpoints`, `_force_cleanup`. Release runs in two stages as the
  code does: `AfterEventLeg` (365-375), then `AfterTakeover` (376-388); each may
  fail on its own.
- `Reacquire` with a failing upgrade ends the process: that `start()` (line 233)
  is not in a `try`, and `_handle_lease` catches only TypeError, ValueError and
  KeyError. A client repeats the payload of its first acquire, as `tssh.py` does.
- A target is an endpoint and a user; `TargetStatus` is reduced to whether there
  is a `control_path`, the count, and the state of `oauth_forward`. Finishing the
  callback for another target raises in the code and is swallowed by every
  caller; `Finished` leaves it alone.
- `BeginPass`, `ExpireOne`, `EndExpire`, `RetryOne`, `EndRetry`, `Dispatch` are the
  statements of serve() and handle(). The passes take their snapshot (`list(...)`
  and one `now`) at their start. Between any two of these steps time may pass,
  units and clients may die and the process may be killed.
- A client sends only while it is alive. A Codex starts with or without a lease on
  its target and may go on when the lease or the server is gone; `codex[t]` are
  those that have reported no exit. Its CODEX_START is counted, is refused
  TARGET_NOT_FOUND (server.py:510), or does not arrive at all (`LoseStart`:
  codex-event swallows the OSError), while its exit, when it comes, is subtracted
  in each case. An exit that is lost is one that stays away for ever. `missed` is
  a history variable: the targets in use for which the registry has missed a use,
  by a lost or refused start or by the loss of its tables; a target leaves it when
  nobody uses it. TargetStatus keeps a target whose last use was a Codex at count
  0; only the release of a lease takes it out (`Pop`).
- `Forget`: on exit systemd kills the service's control group, the callback's ssh
  included; endpoint units are units of their own and stay.

The other modules each take one part of the composition apart, where it is one
step of `LeaseTable` or `Orchestrator`:

- `EndpointForwarder`: `call` is the program counter and the locals of `start()`
  (`proxy_forward`, `changed`, `active`, and what the caller makes of the record
  when it returns or raises). `FirstStart`, `Retune`, `TakeOver`, `Retry` are the
  four kinds of caller in `server.py`; `Check`, `Probe`, `EnsureInspect`,
  `EnsureWrite`, `EnsureLaunch`, `Confirm` are what `start()` does between two
  commands, `EnsureFails` the `except` around `ensure`, `ConfirmFails` the end of
  the loop. `service` and `ssh` say what systemd does with the unit and which text
  the running ssh was started with, which need not be the text in `file`. `port`
  is the remote 4227: free, ours, another controller's, or held by a connection
  that is dead (`stuck`, which the probe finds occupied). `StartOutcome` is what
  `LeaseTable!Outcomes` and `TunnelAfter` assume of a start. `EndpointStart` has start
  and stop as one step each: the three outcomes of `LeaseTable`, plus a start that
  finds a healthy 4227 (`found`, the code's `_external`) and a stop that then leaves the
  unit. The refinement hides a call while it goes on: `UnitSeen` is the unit at its
  beginning, `RecordSeen` has no record for a first lease yet. A process that dies in the
  middle is `EndpointStart!Exit`, the only step that shows a half-finished start.
- `TsshLease`: a client has a `main` and a `thread`, each with one request at most;
  a request on the wire is a record in `queue` (the listen backlog) or `current`,
  and `open` says whether its sender still waits. A time-out closes the
  connection but not the request. `lease` is the age of `last_seen`; `Pass`,
  `Take`, `Answer` are serve(): `Take` expires, handles and may block for
  `busy` ticks in `start()`. `connect` differs from tssh in its interval, in
  ending its thread at the first refusal, and in staying with a DEGRADED start.
  The thread of tssh may acquire twice: for a refused heartbeat (`restoring`), and once
  more when that or the heartbeat ends in an exception (`again`).
- `DownloadQueue`: `pc` is the next statement of `_run` that touches the disk or
  the job's state. A name (`part`, `local`, `old`) refers to an inode, an inode
  holds blocks, a block is the remote version it came from: so an sftp process
  that lives on can write into an inode that has been renamed since. Metadata
  are the version they tell of. `session` is how far the end of main() has got:
  bridge, reverse leg, queue.
- `SessionSupervisor`: `pc` is the next command of start(), serve() or stop();
  `fresh` and `held` are the forwards of the session being built and of the one
  supervised, `leaked` what nobody refers to any more. `calm` ends the faults.
  `registered` is whether the orchestrator has the target and with which
  proxy_available; `Status` is what it shows. The rows of the forwards follow from
  `registered`: each registration sends both as READY, dead or alive (session.py:137-147).
  A forward is `dialling` until ssh has its remote port; the code takes it for a
  forward as soon as it has lived 0.15 s, so `Register` and `Beat` do.

### Assumptions of the model

- `LeaseTable` (and `Orchestrator`): no start finds a healthy proxy on the remote
  port 4227, and systemctl can be run to stop a unit. Where one answers (another
  controller's, or that of a unit of ours that is still being stopped),
  `start()` puts up only an event leg or nothing, and `stop()` may leave the unit:
  that is in `EndpointForwarder` and `EndpointStart`, and what `TunnelOnlyWhileLeased`
  and `EndpointLease` say holds for endpoints without such a proxy.
- `EndpointForwarder`: all leases have keys; the is-active observations that
  confirm a start are one.
- `TsshLease`: a tick is the heartbeat interval, and a thread that can run does so
  within a tick. A handler changes the lease when it takes the request and
  blocks after it, as acquire does (257, then 301 or 308). The settings obey
  `lease_config.load`: the TTL is more than two intervals.
- `DownloadQueue`: `_remote_stat` tells two versions apart (it has whole seconds:
  two changes within one that keep the size are not seen by the code either).
  sftp opens the remote file and then the local one; `Get` takes both as one step, so
  a remote file that is replaced between the two is not considered.
- `SessionSupervisor`: the identity file is set (the command line always does);
  an answer of the orchestrator that is not JSON is left out.
- Where the code takes the first of several candidates in dict order (line 368,
  or equal users after the sort), the model takes any.
- The rows and labels of TargetStatus that nothing reads back (`master`, `oauth`,
  proxy and event rows) are left out of `TargetTable`; `SessionSupervisor` has the
  two rows.
- Reading a request from a connection is part of `Dispatch`; a connection that
  times out or sends rubbish is `Inquiry`. One that is reset while it is read
  ends the process in the code (only `socket.timeout` is caught): `Exit` may
  happen at any step.

## 3. Runs

| run | bounds | checks |
|---|---|---|
| `lease_table` | 3 sessions, 1 endpoint, 2 users, 4 profiles, TTL 1, ladder <<1,2>> | type, count, owner, unit, READY and event-leg invariants, refinement of EndpointLease |
| `orchestrator` | 2 sessions, 1 endpoint, 2 users (so 2 targets), 1 Codex per target, TTL 1, ladder <<1>> | snapshots, target counts, callback invariants, callback kept while needed |
| `orchestrator_live` | 2 sessions, one with and one without a key, ladder <<1,2>>, a managed session, cleanups, a client that may die | both liveness properties |
| `forwarder` | 1 endpoint, 2 users | event leg, no event unit left, outcome of a start, every call returns, refinement of EndpointStart |
| `tssh_lease` | 1 tssh, 1 connect; TTL 3, intervals 1 and 4, time-outs 4, 1, 1 ticks, blocks of up to 3 ticks, backlog 3 | leases of live and dead clients |
| `downloads` | 2 sessions, 2 requests (one rdo), 3 versions of the remote file with 2, 2 and 1 blocks, 1 worker | sidecar, exit status |
| `supervisor` | threshold 3, 1 doubling of the back-off, 2 pauses between registrations | leaks, healthy sessions, recovery, status |
| five violation runs | as above (`rdo_opens` with 2 versions) | see section 5 |

Why the bounds are enough: endpoints do not share any state in LeaseTable, so one
is enough there (the proofs do not need the bound). Three sessions are the least
for a release that leaves two candidates of which one has a key; two users for a
takeover; four profiles give every combination the branches of release tell
apart, interactive and proxy-only, with and without key. A TTL of one tick has a
fresh, an old and a stale lease, and a ladder of two steps has a delay that grows
and one that no longer does. In the composition, two targets are the least that
compete for the one callback, and a lease and a Codex of the same target are the
least that share a counter; two leases of one user with one Codex each reach a
count of three, beyond both thresholds (1 and 2) of the code.
`MaxCodex` bounds the Codex processes of a target and is the only cap on a
counter; ages, waits and failures are bounded by what the code compares them to.

For the forwarder two users are what makes a unit text differ other than by its
legs; the state of systemd, ssh and the port needs no bound. For the clients the
times keep the order of the defaults (interval < TTL < request time-out, join <=
release < request, connect's interval > TTL), a block can be as long as
the TTL, and a backlog of three holds a release behind a heartbeat and an
acquire of its own sender. `LeaseTTL` and the other times are the only bounds.
One relation is a condition of `LiveLeaseRestored`: a request waits longer than the
server blocks at a time (`RequestTimeout` > `MaxBlock`). With blocks as long as the
time-out TLC shows a livelock: the backlog stays full of requests that their
senders have given up, the server blocks on each, and the new request of a live
client is turned away every time. The code excludes it only by its longer
backlog (listen(16)) and by starts seldom taking 5 s.
Two requests are a deduplicated pair in one session or two transfers in two;
a third version shorter than what may be there of the first two is what
resuming trips over. The supervisor's threshold is the code's; one doubling
has a back-off that grows and one that no longer does, and two pauses are
the least that let a registration lag behind the truth. `LastVersion` and
`Requests` (each used once) are the only caps of `DownloadQueue`.

Symmetry: sessions are interchangeable in the safety runs of `MCLeaseTable`,
`MCOrchestrator` and `MCDownloadQueue`; it is not used for liveness. Deadlock is
checked in every run but the downloads', where all requests may have been used.

Each property is also run against a mutated definition that a plausible slip
would produce (the `Mutant...` operators beside the definitions they replace); TLC
finds each violated.

### Properties

- `CountMatchesLeases`: `session_count` is the number of leases, and a record is
  there exactly while there is one. Release trusts it: the count alone tells the
  last release, and `candidates[0]` (379) raises IndexError otherwise.
- `OwnerHoldsLease`: the owner named by a record still holds a lease.
- `TunnelOnlyWhileLeased`: no unit without a record, through crashes and restarts.
- `ReadyWasStarted`: READY is shown only for a unit that was started and that the
  server has not itself removed since. That the unit is *alive* is not true of
  the code: a READY endpoint is never looked at again.
- `EventLegMatches`: five places decide which legs the unit has; if all leases
  have keys, a READY endpoint runs what `event_required` says. (Without keys it
  does not hold: a takeover by a lease without key changes `event_required` and
  starts nothing.)
- `SnapshotsHold`: what a pass has still to visit is still stale or due.
- `TargetCountMatches`: for a target without a managed session the count never
  exceeds leases with keys + Codex processes, through lost and refused starts,
  restarts and cleanups; it is exactly that, and a target that is not registered has
  no use, unless one was missed. A start that was missed is made good when nobody uses
  the target any more, at the latest.
- `CallbackIsShown`, `QuietTargetFreesCallback`: also after restarts, the callback is
  held only for a registered target with a key that shows it, and not for one
  whose leases and Codex processes are all gone. `tssh cleanup` (which ends the
  callback of owners only) and managed sessions (whose unregister does not end
  it) are excepted, since the code does not provide it there.
- `CallbackIsKept`: no step takes the callback from a target of which a lease with a
  key and at least one more lease or Codex are left; that is what the comment at
  server.py:555-559 wants the thresholds to tell. With a use missed it can be taken
  too early. That a single Codex *without* a lease keeps it is not
  said: the release of the last lease of the endpoint ends it (356).
- `DeadLeaseIsReclaimed`, `DownEndpointRecovers`: liveness, next section.
- `StartOutcome`: a start that returns has left the unit file of its call, or has
  reused a proxy; one that raises has left no unit, or the one that was there.
- `EventLegIsOurs`: a READY endpoint of interactive sessions has a unit of ours
  with an event leg, and one without a unit has reused a proxy. Whether the reused
  proxy is another's is not said: it can be our own tunnel on its way down.
- `NoEventUnitLeft`: `stop()` forgets a foreign proxy but never the event-only unit.
- `CallReturns`: also a start that waits for the stop job of the release before.
- `ImplementsEndpointStart`: what `LeaseTable` leaves out of a start and a stop is not
  seen by their caller: no mixture of two calls, no record that changes without its
  unit, no endpoint remembered in `_external` that has been stopped.
- `LostOnlyWhenBlocked`: a lease of a running tssh expires only if the server was not
  at hand, since the lease was refreshed, for longer than the TTL less one interval.
  `late`, a history variable of `MCTsshLease`, measures that: the ticks for which the
  server was blocked, and an interval for each heartbeat that found the backlog full.
  (With a backlog of one and a `connect` beside it, a tssh is turned away by a server that
  hardly blocks; so without the second part the property does not hold for every
  backlog, as TLC showed when its invariant was prepared for proof.)
- `LiveLeaseRestored`, `DeadLeaseGoes`: a running tssh that has lost its lease gets it
  again; the lease of an ended client goes *for good*, whatever requests it gave up
  are still in the backlog.
- `SidecarIsTrue`: if the sidecar matches the remote file, the local file is that
  version, every block of it: over deduplication, resumption, remote changes,
  two sessions on one partial file, orphaned sftp, kills. The moved artifact of an
  older release is excepted: its two renames can enclose another session's
  transfer, and a kill between them leaves the old file under the new sidecar.
- `SuccessMeansFetched`: a helper exits 0 only for a file that was fetched. This rests
  on the order bridge, reverse leg, queue at the end of main().
- `NoForwardLeaks`: over every failure of `start()`, replacement and stop.
- `StaysHealthy`: once faults have ended, nothing the supervisor does makes a healthy
  session unhealthy, however often the check of the master times out.
- `Recovers`: liveness, next section.
- `StatusIsCorrected`: proxy_available does not stay true for good for a forward that
  is dead; set while ssh was still dialling it comes true, is taken back, or a
  recovery replaces the forwards. (With a master that keeps dying, recoveries can
  replace forwards for ever before they are connected.) The rows are not corrected: section 5.

## 4. Fairness

`FairSpec` assumes that the server's thread runs (`WF(Serve)`: serve() loops and
select() times out after 0.5 s), that time goes on (`WF(Tick)`), and that from
some point on no failing start puts the next retry of an endpoint off
(`<>[][NotPutOff]_vars`). No client, crash, restart or request is assumed to
happen. `Serve` covers
the whole loop, not each action: with nothing stale or due, the thread still
has an idle pass to go on with.

The third assumption is about the environment: the remote host is within reach
again some day. It is needed. Without it TLC shows an endpoint that stays
down because sessions come and go for ever and each failing event-leg restart
or takeover sets `next_retry` anew, so that the retry itself is never due. It is not
enough by itself: the endpoint must still be found, become due and be retried by
the loop, and while the retry goes well its state must be kept.

The other modules:

- `EndpointForwarder`: the server's thread runs (`WF(StartStep)`), systemd ends its
  stop jobs (it kills what does not stop). No command is assumed to fail or to
  succeed.
- `TsshLease`: the threads of clients and of the server run, time passes, the
  service is started again when it is down (socket activation), and it does not
  crash for ever (`<>[][~Crash]_vars`). Clients are not assumed to end or to be
  killed; that the server blocks is never excluded.
- `SessionSupervisor`: the process runs, systemd restarts a unit that failed
  (Restart=on-failure), ssh connects or gives up, a remote sshd clears dead
  listeners, network and orchestrator come back. Faults are not assumed to end:
  `Recovers` says what happens if they do (`calm`).

## 5. Where the code and its documents disagree

Each is a violation run; PROJECT.json quotes the lines.

- `OwnerExitKeepsTunnel`: a takeover restarts a healthy tunnel, and may lose it.
- `StartFailureKeepsLeases`: a failed upgrade of a repeated acquire ends the process.
- `LastReleaseRemovesUnit`: an endpoint that was once served by a healthy 4227 stays in
  `_external` when a later start puts up a full unit, and the last release leaves
  that unit behind.
- `RdoOpens`: an `rdo` that joins a running `rget` succeeds and opens nothing.
- `TimeoutKeepsMaster`: with a dead forward, a pass in which the check of the master
  timed out is counted, and the recovery stops the live master.

Met while modelling, without a run: after a restart under a running Codex its exit
is subtracted from a count that never included it (server.py:569; likewise for a
CODEX_START that was lost or refused), so the next
release unregisters a target that a lease still needs; with two leases of a user
the exit of the only Codex does not end the callback (560); with one it does, but
`oauth_forward` stays READY (572). A `tssh cleanup` is undone within a heartbeat by
every live session (tssh.py:486). The heartbeat of `connect` is ten times as
long as the TTL (cli.py:284). A managed session registers its forwards as READY
whether or not their processes are alive (session.py:143, stored at
server.py:145-146), although docs/refactor-plan.md:53 wants the state of each forwarder
to be shown; and it registers `proxy_available=true` for an ssh that is still dialling
(session.py:90, 194), although docs/capabilities/orchestrator.md:178 wants it only
after verification.

## 6. Proofs

`LeaseTableProofs` proves for all sessions, endpoints, users, profiles, TTLs and
ladders, from the named assumptions of `LeaseTable` (finitely many sessions; users
are numbers, because candidates are sorted by user; positive TTL and delays; the
four "absent" values are not values):

- `TypeCorrect`, `CountIsRight`, `OwnerIsHolder`, `NoOrphanTunnel`, `ReadyIsEarned`,
  `EventLegIsRight`: the invariants of the run `lease_table`;
- `Refinement`: LeaseTable implements EndpointLease.

None of the invariants is inductive alone. The owner can only be replaced by a
candidate if the count is right (count > 0 must mean that leases are left); the
last release removes the unit only if the count is right; that a record without
leases does not come up again needs the tables to be empty while the server is
down. `IInv` joins them: `TypeOK`, `DownIsEmpty`, and for each endpoint `Good(e)` =
`CountAt /\ OwnerAt /\ UnitAt`. Being per endpoint, it reduces each handler to the
endpoint it works on (`Frame` for the others). The two stages of release have a
lemma each (`EventLegEffect`, `TakeoverEffect`) that says what they may do to a
(record, unit) pair whatever their starts come to; `DropGood` puts them together with
the cardinality step `DropFacts`. `EventLegMatches` is not inductive either, since a takeover by a lease without
key makes it false as soon as that lease is gone from its premise; `UnitAt` keeps
the legs of a READY record right unless a lease of its owner has no key.

`OrchestratorProofs` shows as a lemma (`TableSteps`) that the steps of Orchestrator are
LeaseTable's as far as leases, endpoints and tunnels go, with the one-line invariant
`AliveAreSessions`, and carries the table's guarantees over to the running server: `TableTypeCorrect`, `TableIsRight` (all five invariants of
LeaseTable) and `ServesEndpointLease`. The theorems of `LeaseTableProofs` are
instantiated as `P`; that `P!Next` is `L!Next` is shown operator by operator
(`SameStart` to `SameSpec`), and their assumptions are discharged from `TableAssumption`
of Orchestrator, which repeats those of LeaseTable.

`RegistryProofs` proves of Orchestrator, for any number of sessions, endpoints, users
and Codex processes: `TypeCorrect`, `SnapshotsAreCurrent`, `TargetCountIsRight`,
`CallbackIsVisible`, `CallbackIsFreed`, `CallbackStays`, from `RegistryAssumption` (finitely many sessions;
profiles, TTL, managed targets and the bound on Codex processes are what they should be;
absent values are none). `TypeCorrect` takes the table's part from `OrchestratorProofs`, the
snapshots' from `SnapshotsHold`, and adds `LoopTypes` for the rest. `LoopOK` says
where the snapshots are empty, which makes `SnapshotsHold` inductive: a visit takes
its session or endpoint off the list, and time makes nothing fresh that is stale. The
callback invariants are not inductive: the exit of Codex ends the callback only at a count
of at most 2, so a count that is too high would keep it for a target nobody uses. `CountAt`
therefore bounds the count by leases with keys plus Codex processes *always*, also
where starts were missed, when forgotten Codex processes still subtract their exits; equality
holds for targets outside `missed`. `CallbackStays` needs the equality: a step that leaves a
lease and one more use leaves a count of at least two, or finds more than two (`StillUsed`,
`LeaveSpares`, `ExitSpares`). `CallbackAt` says that who holds the callback is
registered, has a key, shows READY and is used at least once. The cardinality steps
are `CameFacts`, `GoneFacts` and `LostFacts`; that sessions are well typed comes from
the refinement of LeaseTable (`TableTypes`).

`EndpointForwarderProofs` proves for any users `TypeCorrect`, `StartIsRight`,
`EventLegIsRight` and `StopRemovesEventUnit`, the safety properties of the run
`forwarder`. `StartOutcome` speaks of the last step of a call, whose result depends on
what earlier steps left: `CallInv` says which file there is at each position of
`start()`, and what the record will be if it returns or raises. `EventLegIsOurs` needs to know what the
manager remembers between calls: `MemoryInv` says that a unit without a proxy
leg is there only while the endpoint is in both `_external` and `_event_only`.
What systemd, ssh and the remote port do leaves all of it alone
(`EnvironmentKeeps`). The assumption is that the absent values are none
(`AbsentAssumption`). `Refinement` adds `SeenInv`: the record that a call will leave was
asked for on the record as its caller sees it, and stays so until the call ends. Every
step of start() then either goes on with the call (`Onward`, a stutter or `Find`) or
ends it (`Ended`, the whole `Start` of EndpointStart).

`SessionSupervisorProofs` proves for every threshold, back-off ladder and bound on
registrations `TypeCorrect`, `NoForwardIsLeaked` and `HealthIsKept`. That nothing
leaks needs `ProcessInv`: what `fresh` and `held` may be at each position of start(),
replacement and stop, since a failure is handled by whoever holds the process. That a
healthy session is left alone is about several passes of the loop: `LoopInv` says that once
the faults have ended (`calm`) whatever the pass has seen stays true, so that
a failure count at the threshold, or a recovery under way, means that the session is broken. The assumption is
`SupervisorAssumption`: positive bounds.

`DownloadQueueProofs` proves for any number of requests, sessions, versions and
workers `SuccessIsEarned`, from `DownloadAssumption` and `NoneAssumption` (the
absent value is none of the others). A helper is told the state of the job it watches,
which another request of its session may have submitted. `RequestOK` says that it
watches a job of its own session and waits only until the reverse leg is
cut, `LatestOK` that deduplication finds jobs of that session only, and `JobOK` ties the
state of a job to the statement it has reached and to what became of its session: a
cancelled job belongs to one that is shut, a killed one to one that is gone, and a
job that is done stays done. The contents of files play no part, so the invariant does not constrain them.

`DownloadFilesProofs` proves of the same module, from the same assumptions,
`TypeCorrect` and `SidecarIsAlwaysTrue`. The file under a sidecar may be written to by an
sftp process that another session has left behind, and another file may be moved under
its name. `FInv`, relative to the invariant above, says what may still be written: `SftpOK`
and `FreshOK` that an sftp process writes inside a file that is in use, `PastOK` that
nothing tells of or holds a version the remote file has not had yet. `FilesOK` is about the
*current* remote version only, since a change of the remote file invalidates every claim
at once: if anything claims that the local file is of it (`LocalClaimed`: the sidecar, or a
job about to write one), the file is `Clean`, i.e. its blocks and whatever is still being
written to it are of that version; and likewise for the partial file (`PartClaimed`), which
may become the local one while such a claim stands.

`TsshLeaseProofs` proves for any clients, TTL, intervals, time-outs and backlog
`TypeCorrect` and `LeaseOutlivesSmallBlocks`, from `TimesAssumption` (the times and the
backlog are positive) and `NoneAssumption` (absent values are none); that the TTL is more
than two intervals is not needed. The age of a lease is bounded by following the
heartbeat that will refresh it. `LeaseOK` says of each tssh that the age is at most an
interval and `late`; that while its thread sleeps, what is left of the pause still fits in;
and that while the thread has a heartbeat to send, the age is at most `late`. Once the
request is in the backlog (`Refreshing`, given up by its sender or not), no time passes unless the
server is blocked, and then `late` grows with the age; a heartbeat that finds no room has
an interval added to `late`. `ThreadOK` and `MainOK` say which requests a client can have
on their way at all, `LineTypes` and `ServerTypes` what the backlog and the server hold.

So every safety property that a passing run checks is a theorem. Only model-checked is
liveness, which is outside the reach of TLAPS: `DeadLeaseIsReclaimed`,
`DownEndpointRecovers`, `CallReturns`, `LiveLeaseRestored`, `DeadLeaseGoes`, `Recovers`,
`StatusIsCorrected`.

## 7. Plan

What is left, in this order:

1. The callback's ssh processes in `TargetTable` (they do not die there), so that
   `start()` returning a dead session can be stated.
2. The safety half of the liveness properties as theorems: what each step towards
   the goal leaves true (a stale lease stays stale until its visit, a due
   endpoint due until its retry), so that only the fairness argument is left to TLC.
3. One-step starts in `LeaseTable` that may find a 4227, so that its invariants say what
   is left of them where proxies are shared with other controllers.

### Not modelled

Ansible provisioning and its one-shot tunnel (`proxy.py`), terminal output scanning
in the shim, message validation (`protocol.py`; what is refused changes nothing),
opening files or browsers. `upload.py` is a sequential sftp transfer with a rename at
its end; that it resumes by size alone is what docs/capabilities/upload.md says
it does. The release scripts are straight-line shell with one window between two
renames. `ssh_integration.py` edits a text file and replaces it atomically.
`tssh persist` starts the same program in a unit; its lease is that of a tssh
client in `TsshLease`.
