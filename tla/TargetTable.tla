---------------------------- MODULE TargetTable ----------------------------
(***************************************************************************)
(* The target registry of the orchestrator (OrchestratorServer.targets,    *)
(* ._identity_files, ._oauth_browser_opened) and the one temporary OAuth   *)
(* callback that OAuthManager holds for it.  A target is a remote user on  *)
(* an endpoint.  Leases with a key count themselves in here, managed       *)
(* sessions register and unregister, and the remote Codex shim reports     *)
(* what its processes do.                                                  *)
(*                                                                         *)
(* Left out: the master and oauth labels and the proxy and event rows of   *)
(* TargetStatus, which are written for display and never read back.        *)
(***************************************************************************)
EXTENDS Integers

CONSTANTS
  Targets,     \* TargetKeys
  NoStatus,    \* the digest is not in targets
  NoCallback   \* OAuthManager._active is None

VARIABLES
  targets,         \* digest -> TargetStatus
  identityFiles,   \* the digests with an entry in _identity_files
  browserOpened,   \* _oauth_browser_opened
  callback         \* OAuthManager._active.target

targetVars == <<targets, identityFiles, browserOpened, callback>>

(* control: is there a control_path; forward: the state of oauth_forward *)
Status == [control : BOOLEAN, count : Nat, forward : {"ABSENT", "READY", "FAILED"}]

TypeOK ==
  /\ targets \in [Targets -> Status \cup {NoStatus}]
  /\ identityFiles \subseteq Targets
  /\ browserOpened \subseteq Targets
  /\ callback \in Targets \cup {NoCallback}

Registered(t) == targets[t] # NoStatus

Init ==
  /\ targets = [t \in Targets |-> NoStatus]
  /\ identityFiles = {}
  /\ browserOpened = {}
  /\ callback = NoCallback

-----------------------------------------------------------------------------
(* Mutant: whoever finishes ends the callback, his own or not. *)
MutantFinishedForAll(t) == NoCallback

(* OAuthManager.finish(t); every caller swallows the OAuthError it raises  *)
(* when another target holds the callback.                                 *)
Finished(t) == IF callback = t THEN NoCallback ELSE callback

(* targets.pop and _identity_files.pop *)
Pop(t) ==
  /\ targets' = [targets EXCEPT ![t] = NoStatus]
  /\ identityFiles' = identityFiles \ {t}

-----------------------------------------------------------------------------
(* What the lease handlers do to the registry. *)

(* Mutant: a target that is known is not counted again. *)
MutantCountedOnce(t) ==
  IF Registered(t) THEN targets[t]
  ELSE [control |-> FALSE, count |-> 1, forward |-> "ABSENT"]

Counted(t) ==
  IF Registered(t)
  THEN [targets[t] EXCEPT !.count = @ + 1]
  ELSE [control |-> FALSE, count |-> 1, forward |-> "ABSENT"]

(* A lease with a key joins. *)
Join(t) ==
  /\ targets' = [targets EXCEPT ![t] = Counted(t)]
  /\ identityFiles' = identityFiles \cup {t}
  /\ UNCHANGED <<browserOpened, callback>>

LastCount(t) == Registered(t) /\ targets[t].count <= 1

(* A lease goes: keyed says whether it had a key, last whether it was the  *)
(* last of its endpoint.                                                   *)
Leave(t, keyed, last) ==
  /\ callback' = IF last \/ (keyed /\ LastCount(t)) THEN Finished(t) ELSE callback
  /\ \/ /\ keyed /\ LastCount(t)
        /\ Pop(t)
     \/ /\ keyed /\ Registered(t) /\ ~LastCount(t)
        /\ targets' = [targets EXCEPT ![t].count = @ - 1]
        /\ UNCHANGED identityFiles
     \/ /\ ~keyed \/ ~Registered(t)
        /\ UNCHANGED <<targets, identityFiles>>
  /\ UNCHANGED browserOpened

-----------------------------------------------------------------------------
(* Managed sessions. *)

Register(t, key) ==
  /\ targets' = [targets EXCEPT ![t] =
       IF Registered(t) THEN [@ EXCEPT !.control = TRUE]
       ELSE [control |-> TRUE, count |-> 0, forward |-> "ABSENT"]]
  /\ identityFiles' = IF key THEN identityFiles \cup {t} ELSE identityFiles
  /\ UNCHANGED <<browserOpened, callback>>

Unregister(t) ==
  /\ Pop(t)
  /\ UNCHANGED <<browserOpened, callback>>

-----------------------------------------------------------------------------
(* Events of the remote shim; for a digest that is not registered the      *)
(* answer is TARGET_NOT_FOUND and nothing changes.                         *)

(* OAuthManager.start: it needs a key and a callback that is free or       *)
(* already this target's.  A new process can fail on an occupied port.     *)
CallbackAfterStart(t) ==
  CASE t \notin identityFiles -> {callback}
    [] t \in identityFiles /\ callback = NoCallback -> {t, NoCallback}
    [] t \in identityFiles /\ callback # NoCallback -> {callback}

ForwardAfterStart(t, held) ==
  IF targets[t].control \/ t \in identityFiles
  THEN IF held = t /\ t \in identityFiles THEN "READY" ELSE "FAILED"
  ELSE targets[t].forward

CodexStart(t) ==
  /\ Registered(t)
  /\ browserOpened' = browserOpened \ {t}
  /\ \E held \in CallbackAfterStart(t) :
       /\ callback' = held
       /\ targets' = [targets EXCEPT ![t].count = @ + 1,
                                     ![t].forward = ForwardAfterStart(t, held)]
  /\ UNCHANGED identityFiles

CodexOAuthUrl(t) ==
  /\ Registered(t)
  /\ browserOpened' = browserOpened \cup {t}
  /\ UNCHANGED <<targets, identityFiles, callback>>

(* Mutant: the count goes below zero. *)
MutantExitUnclamped(status) ==
  [status EXCEPT !.count = @ - 1,
                 !.forward = IF status.count <= 1 THEN "ABSENT" ELSE @]

(* Mutant: every exit shows the callback as gone. *)
MutantExitShowsAbsent(status) ==
  [status EXCEPT !.count = IF @ > 0 THEN @ - 1 ELSE 0, !.forward = "ABSENT"]

AfterExit(status) ==
  [status EXCEPT !.count = IF @ > 0 THEN @ - 1 ELSE 0,
                 !.forward = IF status.count <= 1 THEN "ABSENT" ELSE @]

(* Mutant: the callback ends at "SSH + Codex" only. *)
MutantExitAtTwo(t) ==
  /\ Registered(t)
  /\ browserOpened' = browserOpened \ {t}
  /\ callback' = IF targets[t].count = 2 THEN Finished(t) ELSE callback
  /\ targets' = [targets EXCEPT ![t] = AfterExit(@)]
  /\ UNCHANGED identityFiles

CodexExit(t) ==
  /\ Registered(t)
  /\ browserOpened' = browserOpened \ {t}
  /\ callback' = IF targets[t].count <= 2 THEN Finished(t) ELSE callback
  /\ targets' = [targets EXCEPT ![t] = AfterExit(@)]
  /\ UNCHANGED identityFiles

-----------------------------------------------------------------------------
(* _force_cleanup: the callback is finished for the owner of each endpoint *)
(* and for nobody else.                                                    *)
Clear(owners) ==
  /\ targets' = [t \in Targets |-> NoStatus]
  /\ identityFiles' = {}
  /\ browserOpened' = {}
  /\ callback' = IF callback \in owners THEN NoCallback ELSE callback

(* The process goes, and systemd ends the callback's ssh with it. *)
Forget ==
  /\ targets' = [t \in Targets |-> NoStatus]
  /\ identityFiles' = {}
  /\ browserOpened' = {}
  /\ callback' = NoCallback
=============================================================================
