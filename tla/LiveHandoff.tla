---------------------------- MODULE LiveHandoff ----------------------------
(***************************************************************************)
(* Replacing the running server by a new process that takes over its panes *)
(* (perform_live_handoff in src/server/headless.rs, src/server/handoff.rs).*)
(* The old server's main thread and the importer it spawns talk over a     *)
(* private stream; PTY masters travel over it; the public sockets change   *)
(* hands through the file system, where a third server, started by a       *)
(* client that finds no socket, may get in between.                        *)
(*                                                                         *)
(* A pane's reader is its PTY actor (module PtyActor), reduced here to     *)
(* "running", "quiesced" or "closed".  A read with a timeout fails only    *)
(* when its line is not there; an error of the importer is noticed by the  *)
(* old server only once the importer has exited.  A dead server's socket   *)
(* file refuses connections and is replaced, so it counts as "none".       *)
(***************************************************************************)
EXTENDS Naturals, Sequences, FiniteSets

CONSTANTS
    Panes,          \* panes that may exist
    MaxFds,         \* MAX_FDS_PER_HANDOFF
    MaxAttempts     \* bound: handoff requests made to the old server

ASSUME HandoffAssumption ==
    IsFiniteSet(Panes) /\ MaxFds \in Nat /\ MaxAttempts \in Nat

Sockets == {"api", "client"}

VARIABLES
    \* the old server
    panes,          \* panes with a runtime
    opc,            \* where perform_live_handoff is
    inProgress,     \* handoff_in_progress
    paused,         \* paused_terminal_ids
    reader,         \* each pane's actor in the old server
    dups,           \* duplicated masters not yet closed
    attempts,
    \* the importer
    ipc,            \* where run_handoff_import_server is
    newFds,         \* masters held by its actors (or received)
    newReading,     \* panes whose actor runs there
    newOwns,        \* ~preserve_processes_on_drop
    \* the private stream
    toOld, toNew,   \* lines written and not yet read
    transit,        \* masters in a sent and unread SCM_RIGHTS message
    \* the public sockets
    sockets,        \* who listens at each path
    other,          \* a third server: how far it has started
    \* history
    committed,      \* report_committed succeeded in this attempt
    gaveUp,         \* the importer failed while waiting for "committed"
    stuckPanes,          \* panes whose rollback call failed (only logged)
    signalled       \* panes whose processes a dropped runtime terminated

oldVars == <<panes, inProgress, paused, reader, dups, attempts>>
newVars == <<newFds, newReading, newOwns>>
streamVars == <<toOld, toNew, transit>>
publicVars == <<sockets, other>>
history == <<committed, gaveUp, stuckPanes, signalled>>
handoffVars == <<oldVars, opc, ipc, newVars, streamVars, publicVars, history>>

HandoffInit ==
    /\ panes \in SUBSET Panes
    /\ opc = "idle" /\ inProgress = FALSE /\ paused = {} /\ attempts = 0
    /\ reader = [p \in panes |-> "running"] /\ dups = {}
    /\ ipc = "none" /\ newFds = {} /\ newReading = {} /\ newOwns = FALSE
    /\ toOld = <<>> /\ toNew = <<>> /\ transit = {}
    /\ sockets = [s \in Sockets |-> "old"] /\ other = "none"
    /\ committed = FALSE /\ gaveUp = FALSE /\ stuckPanes = {} /\ signalled = {}

Dead == {"none", "gone"}
OldUp == opc \notin {"exited", "crashed"}

\* Mutant: a closed socket is forgotten altogether.
WithoutForgets(owner) ==
    [s \in {x \in Sockets : sockets[x] # owner} |-> sockets[s]]

\* An owner's socket files are removed, or refuse connections once it is dead.
Without(owner) == [s \in Sockets |-> IF sockets[s] = owner THEN "none" ELSE sockets[s]]

-----------------------------------------------------------------------------
(* The old server up to the spawn of the importer.                         *)

startFrame == <<panes, attempts, ipc, newVars, streamVars, publicVars, dups>>

\* A request arrives: the listener is bound and the panes are counted before
\* anything changes; then clients are refused and the panes are paused.
StartHandoff ==
    /\ opc = "idle" /\ attempts < MaxAttempts
    /\ attempts' = attempts + 1
    /\ \/ inProgress' = FALSE /\ UNCHANGED opc
       \/ Cardinality(panes) > MaxFds /\ UNCHANGED <<inProgress, opc>>
       \/ Cardinality(panes) <= MaxFds /\ inProgress' = TRUE /\ opc' = "pausing"
    /\ paused' = {} /\ committed' = FALSE /\ gaveUp' = FALSE
    /\ UNCHANGED <<panes, reader, dups, ipc, newVars, streamVars, publicVars, stuckPanes,
                   signalled>>

\* Mutant: a pane that did not acknowledge the pause is taken along.
PausePaneUnacknowledged(p) ==
    /\ opc = "pausing" /\ p \in panes \ paused
    /\ \E acknowledged \in BOOLEAN :
          reader' = [reader EXCEPT ![p] = IF acknowledged THEN "quiesced" ELSE @]
    /\ paused' = paused \cup {p}
    /\ stuckPanes' = stuckPanes \ {p}
    /\ UNCHANGED <<opc, inProgress, startFrame, committed, gaveUp, signalled>>

\* pause_handoff_reader for one pane of the map, in any order.  A pane that
\* does not acknowledge has been rolled back by its own handle.
PausePane(p) ==
    /\ opc = "pausing" /\ p \in panes \ paused
    /\ \/ /\ reader' = [reader EXCEPT ![p] = "quiesced"]
          /\ paused' = paused \cup {p}
          /\ stuckPanes' = stuckPanes \ {p}
          /\ UNCHANGED opc
       \/ /\ opc' = "rollback"
          /\ UNCHANGED <<reader, paused, stuckPanes>>
    /\ UNCHANGED <<inProgress, startFrame, committed, gaveUp, signalled>>

\* The snapshot and the manifest are captured and the importer is spawned, on
\* a fresh stream.
SpawnImport ==
    /\ opc = "pausing" /\ paused = panes
    /\ \/ /\ opc' = "duplicating"
          /\ ipc' = "connecting"
          /\ toOld' = <<>> /\ toNew' = <<>>
       \/ /\ opc' = "rollback"
          /\ UNCHANGED <<ipc, toOld, toNew>>
    /\ UNCHANGED <<oldVars, newVars, transit, publicVars, history>>

-----------------------------------------------------------------------------
(* The old server with an importer.                                        *)

\* cleanup_failed_import_child: killed and reaped; the kernel closes its files.
KillImporter ==
    /\ ipc' = "gone"
    /\ newFds' = {} /\ newReading' = {} /\ newOwns' = FALSE
    /\ toOld' = <<>> /\ toNew' = <<>> /\ transit' = {}
    /\ sockets' = Without("new")
    /\ UNCHANGED other

\* A step before the masters are with the importer fails.
Abort ==
    /\ opc' = "rollback"
    /\ dups' = {}
    /\ KillImporter
    /\ UNCHANGED <<panes, inProgress, paused, reader, attempts, history>>

Duplicate(p) ==
    /\ opc = "duplicating" /\ p \in panes \ dups
    /\ \/ /\ reader[p] = "quiesced"
          /\ dups' = dups \cup {p}
          /\ UNCHANGED <<panes, inProgress, paused, reader, attempts, opc, ipc,
                         newVars, streamVars, publicVars, history>>
       \/ Abort

\* accept_and_validate_on: the importer's token is answered by the manifest ...
SendManifest ==
    /\ opc = "duplicating" /\ dups = panes
    /\ toOld # <<>> /\ Head(toOld) = "token" /\ ipc # "gone"
    /\ toOld' = Tail(toOld)
    /\ toNew' = Append(toNew, "manifest")
    /\ opc' = "validating"
    /\ UNCHANGED <<oldVars, ipc, newVars, transit, publicVars, history>>

\* ... and its "validated" by the masters.
SendFds ==
    /\ opc = "validating"
    /\ toOld # <<>> /\ Head(toOld) = "validated" /\ ipc # "gone"
    /\ toOld' = Tail(toOld)
    /\ toNew' = Append(toNew, "fds")
    /\ transit' = dups
    /\ opc' = "restoring"
    /\ UNCHANGED <<oldVars, ipc, newVars, publicVars, history>>

\* remove_socket_file_if_owned, for both public sockets.
RemoveOwnSockets == sockets' = Without("old")

\* send_fds_and_wait_restored returns: the duplicates are closed and the old
\* server gives up the public sockets.
Restored ==
    /\ opc = "restoring"
    /\ toOld # <<>> /\ Head(toOld) = "restored"
    /\ toOld' = Tail(toOld)
    /\ dups' = {}
    /\ RemoveOwnSockets
    /\ opc' = "awaitReady"
    /\ UNCHANGED <<panes, inProgress, paused, reader, attempts, ipc, newVars, toNew,
                   transit, other, history>>

\* A wait of the old server fails: timeout, end of stream or a failed send.
WaitFails ==
    /\ \/ opc = "duplicating" /\ dups = panes
       \/ opc \in {"validating", "restoring"}
    /\ toOld = <<>> \/ ipc = "gone"
    /\ Abort

\* wait_ready and report_committed.  The write succeeds as long as the
\* importer has not closed its end, whether or not it will ever read it.
Commit ==
    /\ opc = "awaitReady"
    /\ toOld # <<>> /\ Head(toOld) = "ready"
    /\ ipc # "gone"
    /\ toOld' = Tail(toOld)
    /\ toNew' = Append(toNew, "committed")
    /\ committed' = TRUE
    /\ opc' = "releasing"
    /\ UNCHANGED <<oldVars, ipc, newVars, transit, publicVars, gaveUp, stuckPanes,
                   signalled>>

\* wait_ready or report_committed fails: the importer is killed and the public
\* sockets have to be restored before the rollback.
ReadyFails ==
    /\ opc = "awaitReady"
    /\ toOld = <<>> \/ ipc = "gone"
    /\ KillImporter
    /\ opc' = "waitSockets"
    /\ UNCHANGED <<oldVars, history>>

restoreFrame == <<oldVars, ipc, newVars, streamVars, other, committed, gaveUp, stuckPanes,
                  signalled>>

\* wait_then_restore_public_sockets: wait until nobody listens, then bind the
\* api socket ...
RestoreApi ==
    /\ opc = "waitSockets"
    /\ \A s \in Sockets : sockets[s] = "none"
    /\ sockets' = [sockets EXCEPT !["api"] = "old"]
    /\ opc' = "restoreClient"
    /\ UNCHANGED restoreFrame

\* ... and the client socket.
RestoreClient ==
    /\ opc = "restoreClient"
    /\ sockets["client"] = "none"
    /\ sockets' = [sockets EXCEPT !["client"] = "old"]
    /\ opc' = "rollback"
    /\ UNCHANGED restoreFrame

\* Mutant: the wait for the sockets has no deadline.
RestoreFailsOnBind ==
    /\ opc = "restoreClient"
    /\ \E s \in Sockets : sockets[s] \notin {"none", "old"}
    /\ sockets' = Without("old")
    /\ opc' = "rollback"
    /\ UNCHANGED restoreFrame

\* The wait times out or a bind finds the path taken; an api socket bound by then is dropped
\* with its handle.
RestoreFails ==
    /\ opc \in {"waitSockets", "restoreClient"}
    /\ \E s \in Sockets : sockets[s] \notin {"none", "old"}
    /\ sockets' = Without("old")
    /\ opc' = "rollback"
    /\ UNCHANGED restoreFrame

\* rollback_handoff_before_commit, for one paused pane.  A failed call is only
\* logged: its actor resumes late, with its gate closed, or not at all.
RollbackPane(p) ==
    /\ opc = "rollback" /\ p \in paused
    /\ paused' = paused \ {p}
    /\ \/ reader' = [reader EXCEPT ![p] = "running"] /\ UNCHANGED stuckPanes
       \/ /\ stuckPanes' = stuckPanes \cup {p}
          /\ \E late \in {"running", "quiesced"} :
                reader' = [reader EXCEPT ![p] = late]
    /\ UNCHANGED <<opc, inProgress, startFrame, committed, gaveUp,
                   signalled>>

\* Mutant: handoff mode is not left.
RollbackKeepsMode ==
    /\ opc = "rollback" /\ paused = {}
    /\ opc' = "idle"
    /\ UNCHANGED <<inProgress, paused, reader, startFrame, history>>

RollbackDone ==
    /\ opc = "rollback" /\ paused = {}
    /\ inProgress' = FALSE
    /\ opc' = "idle"
    /\ UNCHANGED <<paused, reader, startFrame, history>>

\* Mutant: the release of a pane fails and its reader goes on.
ReleasePaneResumes(p) ==
    /\ opc = "releasing" /\ p \in panes /\ reader[p] # "closed"
    /\ \E late \in {"running", "closed"} : reader' = [reader EXCEPT ![p] = late]
    /\ UNCHANGED <<opc, inProgress, paused, startFrame, history>>

\* preserve_for_handoff: the actor is released, or shut down when the release
\* fails; the pane's processes are left alone.
ReleasePane(p) ==
    /\ opc = "releasing" /\ p \in panes /\ reader[p] # "closed"
    /\ reader' = [reader EXCEPT ![p] = "closed"]
    /\ UNCHANGED <<opc, inProgress, paused, startFrame, history>>

\* Mutant: a missing ownership ack is taken for a failed handoff.
OwnedAckKills ==
    /\ opc = "releasing" /\ \A p \in panes : reader[p] = "closed"
    /\ \/ toOld # <<>> /\ opc' = "exited"
          /\ UNCHANGED <<ipc, newVars, streamVars, publicVars>>
       \/ toOld = <<>> /\ opc' = "exited" /\ KillImporter
    /\ UNCHANGED <<oldVars, history>>

\* wait_owned_ack: with the ack, or after 500 ms with a warning; the old server
\* exits either way.
OwnedAck ==
    /\ opc = "releasing" /\ \A p \in panes : reader[p] = "closed"
    /\ opc' = "exited"
    /\ UNCHANGED <<oldVars, ipc, newVars, streamVars, publicVars, history>>

OldCrashes ==
    /\ OldUp
    /\ opc' = "crashed"
    /\ reader' = [p \in panes |-> "closed"]
    /\ dups' = {}
    /\ sockets' = Without("old")
    /\ UNCHANGED <<panes, inProgress, paused, attempts, ipc, newVars, streamVars,
                   other, history>>

-----------------------------------------------------------------------------
(* The importer.                                                           *)

importFrame == <<oldVars, opc, other, committed, stuckPanes, signalled>>

\* receive: connect and send the token.
Connect ==
    /\ ipc = "connecting" /\ OldUp
    /\ toOld' = Append(toOld, "token")
    /\ ipc' = "manifest"
    /\ UNCHANGED <<importFrame, newVars, toNew, transit, sockets, gaveUp>>

ReadManifest ==
    /\ ipc = "manifest"
    /\ toNew # <<>> /\ Head(toNew) = "manifest" /\ OldUp
    /\ toNew' = Tail(toNew)
    /\ toOld' = Append(toOld, "validated")
    /\ ipc' = "fds"
    /\ UNCHANGED <<importFrame, newVars, transit, sockets, gaveUp>>

\* Mutant: the imported runtimes own their processes from the start.
ReceiveFdsOwning ==
    /\ ipc = "fds" /\ OldUp
    /\ toNew # <<>> /\ Head(toNew) = "fds"
    /\ toNew' = Tail(toNew)
    /\ newFds' = transit /\ transit' = {}
    /\ newOwns' = TRUE
    /\ toOld' = Append(toOld, "restored")
    /\ ipc' = "waitClosed"
    /\ UNCHANGED <<importFrame, newReading, sockets, gaveUp>>

\* recv_fds and new_from_handoff: the runtimes are rebuilt quiesced and will
\* not touch the processes if dropped.
ReceiveFds ==
    /\ ipc = "fds" /\ OldUp
    /\ toNew # <<>> /\ Head(toNew) = "fds"
    /\ toNew' = Tail(toNew)
    /\ newFds' = transit /\ transit' = {}
    /\ newOwns' = FALSE
    /\ toOld' = Append(toOld, "restored")
    /\ ipc' = "waitClosed"
    /\ UNCHANGED <<importFrame, newReading, sockets, gaveUp>>

\* wait_for_old_public_sockets_to_close.
SocketsClosed ==
    /\ ipc = "waitClosed"
    /\ \A s \in Sockets : sockets[s] = "none"
    /\ ipc' = "bindApi"
    /\ UNCHANGED <<importFrame, newVars, streamVars, sockets, gaveUp>>

BindApi ==
    /\ ipc = "bindApi" /\ sockets["api"] = "none"
    /\ sockets' = [sockets EXCEPT !["api"] = "new"]
    /\ ipc' = "bindClient"
    /\ UNCHANGED <<importFrame, newVars, streamVars, gaveUp>>

\* The client socket is bound and "ready" is reported.
BindClient ==
    /\ ipc = "bindClient" /\ sockets["client"] = "none" /\ OldUp
    /\ sockets' = [sockets EXCEPT !["client"] = "new"]
    /\ toOld' = Append(toOld, "ready")
    /\ ipc' = "waitCommitted"
    /\ UNCHANGED <<importFrame, newVars, toNew, transit, gaveUp>>

\* wait_committed and assume_handoff_ownership.
TakeOwnership ==
    /\ ipc = "waitCommitted"
    /\ toNew # <<>> /\ Head(toNew) = "committed"
    /\ toNew' = Tail(toNew)
    /\ newOwns' = TRUE
    /\ ipc' = "unpausing"
    /\ UNCHANGED <<importFrame, newFds, newReading, toOld, transit, sockets, gaveUp>>

\* unpause_handoff_readers, one pane at a time; a failure is logged.
UnpausePane(p) ==
    /\ ipc = "unpausing" /\ p \in newFds \ (newReading \cup stuckPanes)
    /\ \/ newReading' = newReading \cup {p} /\ UNCHANGED stuckPanes
       \/ stuckPanes' = stuckPanes \cup {p} /\ UNCHANGED newReading
    /\ UNCHANGED <<oldVars, opc, ipc, newFds, newOwns, streamVars, publicVars,
                   committed, gaveUp, signalled>>

\* report_owned; the new server goes on whether or not anybody reads it.
ReportOwned ==
    /\ ipc = "unpausing" /\ newFds \subseteq newReading \cup stuckPanes
    /\ toOld' = IF OldUp THEN Append(toOld, "owned") ELSE toOld
    /\ ipc' = "owner"
    /\ UNCHANGED <<importFrame, newVars, toNew, transit, sockets, gaveUp>>

\* Any step before that can fail; a line that has arrived is read, though.
ImporterFails ==
    /\ ipc \in {"connecting", "manifest", "fds", "waitClosed", "bindApi",
                "bindClient", "waitCommitted"}
    /\ ipc = "waitCommitted" => toNew = <<>>
    /\ ipc' = "failing"
    /\ gaveUp' = (gaveUp \/ ipc = "waitCommitted")
    /\ UNCHANGED <<importFrame, newVars, streamVars, sockets>>

\* The error leaves run_handoff_import_server: its runtimes are dropped, its
\* sockets removed, its end of the stream closed.
ImporterExits ==
    /\ ipc = "failing"
    /\ ipc' = "gone"
    /\ signalled' = IF newOwns THEN signalled \cup newFds ELSE signalled
    /\ newFds' = {} /\ newReading' = {} /\ newOwns' = FALSE
    /\ toNew' = <<>> /\ transit' = {}
    /\ sockets' = Without("new")
    /\ UNCHANGED <<oldVars, opc, other, committed, stuckPanes, gaveUp, toOld>>

-----------------------------------------------------------------------------
(* A client that finds no client socket starts a server of its own         *)
(* (auto_detect_launch), which binds the api socket and the client socket. *)

otherFrame == <<oldVars, opc, ipc, newVars, streamVars, history>>

OtherStarts ==
    /\ other = "none" /\ \A s \in Sockets : sockets[s] = "none"
    /\ sockets' = [sockets EXCEPT !["api"] = "other"]
    /\ other' = "started"
    /\ UNCHANGED otherFrame

OtherBinds ==
    /\ other = "started" /\ sockets["client"] = "none"
    /\ sockets' = [sockets EXCEPT !["client"] = "other"]
    /\ other' = "running"
    /\ UNCHANGED otherFrame

\* It finds the client socket taken, or is stopped.
OtherStops ==
    /\ other \in {"started", "running"}
    /\ sockets' = Without("other")
    /\ other' = "stopped"
    /\ UNCHANGED otherFrame

-----------------------------------------------------------------------------
OldServer ==
    \/ \E p \in panes :
          PausePane(p) \/ Duplicate(p) \/ RollbackPane(p) \/ ReleasePane(p)
    \/ SpawnImport \/ SendManifest \/ SendFds \/ Restored \/ WaitFails
    \/ Commit \/ ReadyFails \/ RestoreApi \/ RestoreClient \/ RestoreFails
    \/ RollbackDone \/ OwnedAck

Importer ==
    \/ Connect \/ ReadManifest \/ ReceiveFds \/ SocketsClosed \/ BindApi
    \/ BindClient \/ TakeOwnership \/ ReportOwned \/ ImporterFails \/ ImporterExits
    \/ \E p \in panes : UnpausePane(p)

Other == OtherStarts \/ OtherBinds \/ OtherStops

HandoffNext == StartHandoff \/ OldServer \/ OldCrashes \/ Importer \/ Other

HandoffSpec == HandoffInit /\ [][HandoffNext]_handoffVars

(***************************************************************************)
(* Fairness: each process runs on.  Every wait of the old server and the   *)
(* importer's wait for "committed" has a timeout; its earlier reads end    *)
(* with the stream.  Nothing is assumed of requests, crashes or the third  *)
(* server.                                                                 *)
(***************************************************************************)
FairHandoffSpec == HandoffSpec /\ WF_handoffVars(OldServer) /\ WF_handoffVars(Importer)

-----------------------------------------------------------------------------
(* Properties.                                                             *)

ServerFlagsOK ==
    inProgress \in BOOLEAN /\ newOwns \in BOOLEAN /\ committed \in BOOLEAN
      /\ gaveUp \in BOOLEAN

StreamOK ==
    /\ toOld \in Seq({"token", "validated", "restored", "ready", "owned"})
    /\ toNew \in Seq({"manifest", "fds", "committed"})

ServersOK ==
    /\ panes \subseteq Panes /\ paused \subseteq panes /\ attempts \in Nat
    /\ opc \in {"idle", "pausing", "duplicating", "validating", "restoring",
                "awaitReady", "waitSockets", "restoreClient", "rollback",
                "releasing", "exited", "crashed"}
    /\ reader \in [panes -> {"running", "quiesced", "closed"}]
    /\ dups \subseteq panes /\ transit \subseteq panes
    /\ newFds \subseteq panes /\ newReading \subseteq newFds
    /\ ipc \in {"none", "connecting", "manifest", "fds", "waitClosed", "bindApi",
                "bindClient", "waitCommitted", "unpausing", "owner", "failing",
                "gone"}
    /\ sockets \in [Sockets -> {"old", "new", "other", "none"}]
    /\ other \in {"none", "started", "running", "stopped"}
    /\ stuckPanes \subseteq panes /\ signalled \subseteq panes

\* The values the two servers, the stream and the sockets can have.
HandoffTypeOK == ServerFlagsOK /\ StreamOK /\ ServersOK

\* Who reads each pane.
Reads ==
    [p \in Panes |-> IF p \in panes /\ reader[p] = "running" THEN "old"
                    ELSE IF p \in newReading THEN "new" ELSE "nobody"]

Owners == INSTANCE PaneOwnership WITH reads <- Reads, handed <- committed

\* The handoff implements the ownership contract: a pane is read by one server
\* at a time, the old one takes panes back only before the commit, and the new
\* one takes them only after it.
OwnershipContract == Owners!Spec

\* Where the commit stands: it has been written once the old server releases
\* its panes, and the importer acts on it only then.
CommitPhases ==
    /\ committed => opc \in {"releasing", "exited", "crashed"}
    /\ opc \in {"releasing", "exited"} => committed
    /\ ipc \in {"unpausing", "owner"} => committed
    /\ newReading # {} => ipc \in {"unpausing", "owner"}
    /\ \A i \in 1 .. Len(toNew) : toNew[i] = "committed" => committed

\* The old server's readers: none runs from the capture to a rollback.
ReaderPhases ==
    /\ opc \in {"duplicating", "validating", "restoring", "awaitReady"} =>
          \A p \in panes : reader[p] = "quiesced"
    /\ opc \in {"releasing", "exited"} => \A p \in panes : reader[p] # "running"
    /\ opc = "crashed" => \A p \in panes : reader[p] = "closed"
    /\ opc = "pausing" => \A p \in paused : reader[p] = "quiesced"

\* The inductive invariant behind the ownership contract.
HandoffIInv == HandoffTypeOK /\ CommitPhases /\ ReaderPhases

\* The snapshot, the manifest and the duplicates are taken only while every
\* pane's reader is quiesced, so no output is read after its capture.
CapturedQuiesced ==
    opc \in {"duplicating", "validating", "restoring", "awaitReady"} =>
      \A p \in panes : reader[p] = "quiesced"

\* After a failed attempt the old server reads all its panes, but for those
\* whose rollback call failed; no importer, no fd copy and no handoff mode is
\* left behind; and it is reachable, unless a third server got hold of a socket.
RolledBack ==
    opc = "idle" =>
      /\ ~inProgress /\ ipc \in Dead /\ dups = {} /\ transit = {} /\ paused = {}
      /\ \A p \in panes : reader[p] = "running" \/ p \in stuckPanes
      /\ other # "none" \/ \A s \in Sockets : sockets[s] = "old"

Held(p) == reader[p] # "closed" \/ p \in dups \cup transit \cup newFds

\* A pane's last master is closed only when the old server crashes, or when
\* the importer stops waiting for the commit that is being written.
MasterKept == \A p \in panes : Held(p) \/ opc = "crashed" \/ gaveUp

\* No dropped runtime terminates a pane's processes: the importer's runtimes
\* own them only after a commit, which no failure follows.
NoPaneSignalled == signalled = {}

\* The panes outlive every attempt, the failed ones included: nobody closes
\* their last master and nobody terminates their processes.
PanesSurvive == MasterKept /\ NoPaneSignalled

\* The new server, once it owns the panes, is the one listening on both public
\* sockets, whatever third server started meanwhile.
OwnerReachable ==
    ipc \in {"waitCommitted", "unpausing", "owner"} =>
      \A s \in Sockets : sockets[s] = "new"

\* However an attempt ends, whoever has the panes then reads them and is
\* reachable by the clients.
OwnerServes == RolledBack /\ OwnerReachable

\* Once the importer has read the commit nothing ends it: a missing ownership
\* ack is only logged.
CommitIsFinal ==
    [][(ipc \in {"unpausing", "owner"}) => (ipc' \in {"unpausing", "owner"})]_handoffVars

\* A handoff request comes to an end, and then the importer too: it reads every
\* pane (but those whose unpause failed), or it is gone.
HandoffEnds ==
    /\ opc = "pausing" ~> opc \in {"idle", "exited", "crashed"}
    /\ ipc = "connecting" ~>
         \/ ipc = "gone"
         \/ ipc = "owner" /\ panes \subseteq newReading \cup stuckPanes

=============================================================================
