----------------------------- MODULE LiveHandoff -----------------------------
(***************************************************************************)
(* Replacing a running server without stopping its panes: the old server   *)
(* runs perform_live_handoff on its event loop, the import server it       *)
(* spawns runs run_handoff_import_server, and they talk over one stream,   *)
(* line by line.  Meanwhile anyone may start another server.               *)
(*                                                                         *)
(* The servers share the file system: the two public sockets' paths.  A    *)
(* path is bound by looking whether the file exists, connecting to see     *)
(* whether it is stale, unlinking it and binding; each is a step, so that  *)
(* other servers come in between.  A pane is PtyActor's: it is paused when *)
(* begin_handoff has succeeded and released by release_after_commit.       *)
(***************************************************************************)
EXTENDS FiniteSets

CONSTANTS
    Panes,      \* the panes of the old server's tabs
    Starters,   \* other servers that may be started
    Crashing,   \* servers that may die at any step
    Timeouts,   \* a wait for the other server may time out
    Stoppable   \* a stage of the handoff may fail for a reason of its own

ASSUME LiveHandoffAssumption ==
    /\ Starters \cap {"old", "new", "none", "stale"} = {}
    /\ Crashing \subseteq {"old", "new"} \cup Starters
    /\ {Timeouts, Stoppable} \subseteq BOOLEAN

VARIABLES
    phase,      \* what each server is doing
    sock,       \* the public socket each server is binding
    path,       \* the server that bound the file at each socket's path
    ident,      \* the file each server takes for its own: whose it is
    lines,      \* what was written to the handoff stream
    oldPane,    \* each pane in the old server
    newPane     \* each pane in the import server

public == <<sock, path, ident>>
panes == <<oldPane, newPane>>
vars == <<phase, public, lines, panes>>

Servers == {"old", "new"} \cup Starters
Sockets == {"api", "client"}
None == "none"
\* A file whose listener is gone.
Stale == "stale"

Init ==
    /\ phase = [s \in Servers |-> IF s = "old" THEN "serving" ELSE "off"]
    /\ sock = [s \in Servers |-> "api"]
    /\ path = [k \in Sockets |-> "old"]
    /\ ident = [s \in Servers |-> [k \in Sockets |-> IF s = "old" THEN "old" ELSE None]]
    /\ lines = {}
    /\ oldPane = [p \in Panes |-> "reading"]
    /\ newPane = [p \in Panes |-> "absent"]

Goto(s, next) == phase' = [phase EXCEPT ![s] = next]

-----------------------------------------------------------------------------
(* The public sockets.                                                     *)

\* bind(2) makes the file, only listen(2) makes it accept connections.
Connectable(k) ==
    /\ path[k] \in Servers
    /\ ~(phase[path[k]] = "listen" /\ sock[path[k]] = k)

\* remove_socket_file_if_owned compares the file with the one it remembers.
Owned(s, k) == path[k] # None /\ path[k] = ident[s][k]

\* Mutant: the file is removed whoever's it is.
RemoveIfOwnedBug(s, k) == path' = [path EXCEPT ![k] = None]

RemoveIfOwned(s, k) == path' = [path EXCEPT ![k] = IF Owned(s, k) THEN None ELSE @]

\* The paths when server s is gone, having removed those of the given sockets it owns.
Leftover(s, removed) ==
    [k \in Sockets |-> IF k \in removed /\ Owned(s, k) THEN None
                       ELSE IF path[k] = s THEN Stale ELSE path[k]]

\* What follows a server's two sockets being bound.
AfterBind(s) ==
    CASE s = "old" -> "rollback" [] s = "new" -> "reportReady" [] OTHER -> "serving"

\* A starting server exits, its ServerHandle dropped, if it cannot bind; an old server
\* goes on without its public sockets.
BindFails(s) ==
    /\ Goto(s, IF s = "old" THEN "rollback" ELSE "failing")
    /\ path' = Leftover(s, {"api"})
    /\ ident' = [ident EXCEPT ![s] = [k \in Sockets |-> None]]
    /\ UNCHANGED sock

\* prepare_socket_path: path.exists() ...
Exists(s) ==
    /\ phase[s] = "exists"
    /\ Goto(s, IF path[sock[s]] = None THEN "bind" ELSE "connect")
    /\ UNCHANGED public

\* ... connect_local_stream: somebody listens ...
ConnectBusy(s) ==
    /\ phase[s] = "connect" /\ Connectable(sock[s])
    /\ BindFails(s)

\* ... or nobody does ...
ConnectRefused(s) ==
    /\ phase[s] = "connect" /\ ~Connectable(sock[s])
    /\ Goto(s, "unlink")
    /\ UNCHANGED public

\* ... and the file is removed, whatever it is by now.
Unlink(s) ==
    /\ phase[s] = "unlink"
    /\ path' = [path EXCEPT ![sock[s]] = None]
    /\ Goto(s, "bind")
    /\ UNCHANGED <<sock, ident>>

Bind(s) ==
    /\ phase[s] = "bind" /\ path[sock[s]] = None
    /\ path' = [path EXCEPT ![sock[s]] = s]
    /\ Goto(s, "listen")
    /\ UNCHANGED <<sock, ident>>

\* bind(2) does not replace a file.
BindTaken(s) ==
    /\ phase[s] = "bind" /\ path[sock[s]] # None
    /\ BindFails(s)

Listen(s) ==
    /\ phase[s] = "listen"
    /\ Goto(s, "identify")
    /\ UNCHANGED public

\* socket_file_identity looks at what is at the path; then comes the other socket.
Identify(s) ==
    /\ phase[s] = "identify" /\ path[sock[s]] # None
    /\ ident' = [ident EXCEPT ![s][sock[s]] = path[sock[s]]]
    /\ Goto(s, IF sock[s] = "api" THEN "exists" ELSE AfterBind(s))
    /\ sock' = [sock EXCEPT ![s] = "client"]
    /\ UNCHANGED path

IdentifyFails(s) ==
    /\ phase[s] = "identify" /\ path[sock[s]] = None
    /\ BindFails(s)

BindStep(s) ==
    /\ \/ Exists(s) \/ ConnectBusy(s) \/ ConnectRefused(s) \/ Unlink(s) \/ Bind(s)
       \/ BindTaken(s) \/ Listen(s) \/ Identify(s) \/ IdentifyFails(s)
    /\ UNCHANGED <<lines, panes>>

StartBinding(s) ==
    /\ Goto(s, "exists")
    /\ sock' = [sock EXCEPT ![s] = "api"]
    /\ UNCHANGED <<path, ident>>

-----------------------------------------------------------------------------
(* The old server.                                                         *)

NoPanes == [p \in Panes |-> "absent"]

\* cleanup_failed_import_child: the import server is killed and reaped.
KillImport(next) ==
    /\ phase' = [phase EXCEPT !["old"] = next, !["new"] = "dead"]
    /\ path' = Leftover("new", {})
    /\ newPane' = NoPanes
    /\ UNCHANGED <<sock, ident, lines, oldPane>>

\* The request starts the first stage; an earlier handoff was rolled back.
StartHandoff ==
    /\ phase["old"] = "serving" /\ phase["new"] \in {"off", "dead"}
    /\ phase' = [phase EXCEPT !["old"] = "pausing", !["new"] = "off"]
    /\ lines' = {}
    /\ ident' = [ident EXCEPT !["new"] = [k \in Sockets |-> None]]
    /\ UNCHANGED <<sock, path, panes>>

PausePane(p) ==
    /\ phase["old"] = "pausing" /\ oldPane[p] = "reading"
    /\ oldPane' = [oldPane EXCEPT ![p] = "paused"]
    /\ UNCHANGED <<phase, public, lines, newPane>>

\* A pane that did not quiesce has rolled back by itself.
PauseFails ==
    /\ Stoppable
    /\ phase["old"] = "pausing"
    /\ \E p \in Panes : oldPane[p] = "reading"
    /\ Goto("old", "rollback")
    /\ UNCHANGED <<public, lines, panes>>

\* Mutant: a pane that has not been paused is handed over.
AllPausedBug == \E p \in Panes : oldPane[p] = "paused"

AllPaused == \A p \in Panes : oldPane[p] = "paused"

SpawnImport ==
    /\ phase["old"] = "pausing" /\ AllPaused
    /\ phase' = [phase EXCEPT !["old"] = "duplicate", !["new"] = "receive"]
    /\ UNCHANGED <<public, lines, panes>>

SpawnFails ==
    /\ Stoppable
    /\ phase["old"] = "pausing" /\ AllPaused
    /\ Goto("old", "rollback")
    /\ UNCHANGED <<public, lines, panes>>

DuplicateFds ==
    /\ phase["old"] = "duplicate"
    /\ Goto("old", "waitValidated")
    /\ UNCHANGED <<public, lines, panes>>

DuplicateFails ==
    /\ Stoppable
    /\ phase["old"] = "duplicate"
    /\ KillImport("rollback")

\* accept_and_validate_on ends, the descriptors are sent.
Validated ==
    /\ phase["old"] = "waitValidated" /\ "validated" \in lines
    /\ lines' = lines \cup {"fds"}
    /\ Goto("old", "waitRestored")
    /\ UNCHANGED <<public, panes>>

Restored ==
    /\ phase["old"] = "waitRestored" /\ "restored" \in lines
    /\ Goto("old", "removeApi")
    /\ UNCHANGED <<public, lines, panes>>

RemoveSocket(from, k, to) ==
    /\ phase["old"] = from
    /\ RemoveIfOwned("old", k)
    /\ Goto("old", to)
    /\ UNCHANGED <<sock, ident, lines, panes>>

RemoveApiSocket == RemoveSocket("removeApi", "api", "removeClient")
RemoveClientSocket == RemoveSocket("removeClient", "client", "waitReady")

Ready ==
    /\ phase["old"] = "waitReady" /\ "ready" \in lines
    /\ Goto("old", "commit")
    /\ UNCHANGED <<public, lines, panes>>

\* The line the old server reads at each stage.
Awaited == [waitValidated |-> "validated", waitRestored |-> "restored", waitReady |-> "ready"]

\* A line that does not come: the stream ends or the read times out.
NoAnswer(at) ==
    /\ phase["old"] = at /\ Awaited[at] \notin lines
    /\ phase["new"] = "dead" \/ Timeouts

\* Before the public sockets are gone it is enough to resume the panes ...
WaitFails ==
    /\ \E at \in {"waitValidated", "waitRestored"} : NoAnswer(at)
    /\ KillImport("rollback")

\* ... afterwards they have to be restored first.
WaitReadyFails == NoAnswer("waitReady") /\ KillImport("waitClosed")

\* report_committed: the write succeeds as long as the other end is open, read or not.
Commit ==
    /\ phase["old"] = "commit" /\ phase["new"] # "dead"
    /\ lines' = lines \cup {"committed"}
    /\ Goto("old", "release")
    /\ UNCHANGED <<public, panes>>

\* Mutant: a failed write is ignored.
CommitFailsBug ==
    /\ phase["old"] = "commit" /\ phase["new"] = "dead"
    /\ Goto("old", "release")
    /\ UNCHANGED <<public, lines, panes>>

CommitFails ==
    /\ phase["old"] = "commit" /\ phase["new"] = "dead"
    /\ KillImport("waitClosed")

\* wait_for_old_public_sockets_to_close, then both sockets are bound again.
RestoreSockets ==
    /\ phase["old"] = "waitClosed" /\ \A k \in Sockets : ~Connectable(k)
    /\ StartBinding("old")
    /\ UNCHANGED <<lines, panes>>

\* Mutant: the old server waits until nobody listens, however long.
RestoreTimesOutBug == FALSE

\* Another server listens there until the wait is over.
RestoreTimesOut ==
    /\ phase["old"] = "waitClosed" /\ \E k \in Sockets : Connectable(k)
    /\ Goto("old", "rollback")
    /\ UNCHANGED <<public, lines, panes>>

\* rollback_handoff_before_commit: every paused pane is resumed.
Rollback ==
    /\ phase["old"] = "rollback"
    /\ oldPane' = [p \in Panes |-> "reading"]
    /\ Goto("old", "serving")
    /\ UNCHANGED <<public, lines, newPane>>

\* preserve_for_handoff, for every pane.
ReleasePanes ==
    /\ phase["old"] = "release"
    /\ oldPane' = NoPanes
    /\ Goto("old", "waitOwned")
    /\ UNCHANGED <<public, lines, newPane>>

\* wait_owned_ack only delays the exit; both sockets' files are another server's by now.
OldExits ==
    /\ phase["old"] = "waitOwned"
    /\ "owned" \in lines \/ phase["new"] = "dead" \/ Timeouts
    /\ RemoveIfOwned("old", "api")
    /\ Goto("old", "removeLast")
    /\ UNCHANGED <<sock, ident, lines, panes>>

CleanupSockets == RemoveSocket("removeLast", "client", "gone")

\* A handoff that was started goes on.
OldStep ==
    \/ (\E p \in Panes : PausePane(p)) \/ SpawnImport \/ DuplicateFds \/ Validated
    \/ Restored \/ RemoveApiSocket \/ RemoveClientSocket \/ Ready \/ WaitFails \/ WaitReadyFails \/ Commit \/ CommitFails
    \/ RestoreSockets \/ RestoreTimesOut \/ BindStep("old") \/ Rollback
    \/ ReleasePanes \/ OldExits \/ CleanupSockets

-----------------------------------------------------------------------------
(* The import server.                                                      *)

\* Mutant: the end of the stream goes unnoticed.
OldClosedBug == FALSE

\* The old server has closed its end of the stream.
OldClosed == phase["old"] \in {"dead", "removeLast", "gone"}

\* receive: the manifest comes when the old server has accepted the connection.
Receive ==
    /\ phase["new"] = "receive" /\ phase["old"] = "waitValidated"
    /\ lines' = lines \cup {"validated"}
    /\ Goto("new", "import")
    /\ UNCHANGED <<public, panes>>

\* The runtimes are built around the descriptors, quiesced and preserved on drop.
Import ==
    /\ phase["new"] = "import" /\ "fds" \in lines
    /\ newPane' = [p \in Panes |-> "imported"]
    /\ lines' = lines \cup {"restored"}
    /\ Goto("new", "waitClosed")
    /\ UNCHANGED <<public, oldPane>>

\* Nobody listens at the public sockets any more: they are bound.
TakeSockets ==
    /\ phase["new"] = "waitClosed" /\ \A k \in Sockets : ~Connectable(k)
    /\ StartBinding("new")
    /\ UNCHANGED <<lines, panes>>

ReportReady ==
    /\ phase["new"] = "reportReady" /\ ~OldClosed
    /\ lines' = lines \cup {"ready"}
    /\ Goto("new", "waitCommitted")
    /\ UNCHANGED <<public, panes>>

\* Mutant: the panes are taken over without waiting for the commit.
CommitSeenBug == TRUE

CommitSeen == "committed" \in lines

WaitCommitted ==
    /\ phase["new"] = "waitCommitted" /\ CommitSeen
    /\ Goto("new", "own")
    /\ UNCHANGED <<public, lines, panes>>

\* assume_handoff_ownership, unpause_handoff_readers, report_owned.
Own ==
    /\ phase["new"] = "own"
    /\ newPane' = [p \in Panes |-> "reading"]
    /\ lines' = lines \cup {"owned"}
    /\ Goto("new", "serving")
    /\ UNCHANGED <<public, oldPane>>

\* A manifest that is refused, or a runtime that cannot be built.
ImportRefuses ==
    /\ Stoppable
    /\ phase["new"] \in {"receive", "import"}
    /\ Goto("new", "failing")
    /\ UNCHANGED <<public, lines, panes>>

\* The end of the stream, a listener that stays at the public sockets, or no commit in time.
ImportFails ==
    /\ \/ OldClosed /\ phase["new"] \in {"receive", "import", "reportReady"}
       \/ phase["new"] = "waitCommitted" /\ ~CommitSeen /\ (OldClosed \/ Timeouts)
       \/ phase["new"] = "waitClosed" /\ \E k \in Sockets :
                Connectable(k) /\ (Timeouts \/ path[k] # "old")
    /\ Goto("new", "failing")
    /\ UNCHANGED <<public, lines, panes>>

\* The error is on its way up: the stream is still open until the process ends.
ImportExits ==
    /\ phase["new"] = "failing"
    /\ path' = Leftover("new", Sockets)
    /\ newPane' = NoPanes
    /\ Goto("new", "dead")
    /\ UNCHANGED <<sock, ident, lines, oldPane>>

ImportStep ==
    \/ Receive \/ Import \/ TakeSockets \/ BindStep("new") \/ ReportReady
    \/ WaitCommitted \/ Own \/ ImportFails \/ ImportExits

-----------------------------------------------------------------------------
(* The others.                                                             *)

\* `herduck server`, run by a user or by a client that found nobody listening.
Start(s) ==
    /\ phase[s] = "off"
    /\ StartBinding(s)
    /\ UNCHANGED <<lines, panes>>

StarterExits(s) ==
    /\ phase[s] = "failing"
    /\ Goto(s, "dead")
    /\ UNCHANGED <<public, lines, panes>>

\* The kernel closes what the process had open.
Crash(s) ==
    /\ phase[s] \notin {"off", "dead", "gone"}
    /\ Goto(s, "dead")
    /\ path' = Leftover(s, {})
    /\ oldPane' = IF s = "old" THEN NoPanes ELSE oldPane
    /\ newPane' = IF s = "new" THEN NoPanes ELSE newPane
    /\ UNCHANGED <<sock, ident, lines>>

Next ==
    \/ StartHandoff \/ OldStep \/ ImportStep
    \/ PauseFails \/ SpawnFails \/ DuplicateFails \/ ImportRefuses
    \/ \E s \in Starters : Start(s) \/ BindStep(s) \/ StarterExits(s)
    \/ \E s \in Crashing : Crash(s)

Spec == Init /\ [][Next]_vars

\* A started handoff goes on: the event loop runs nothing else until it is over.
OldFairSpec == Spec /\ WF_vars(OldStep)
\* The import server is scheduled too.
FairSpec == OldFairSpec /\ WF_vars(ImportStep)

-----------------------------------------------------------------------------
(* Properties.                                                             *)

\* What each server may be doing.
Binding == {"exists", "connect", "unlink", "bind", "listen", "identify"}
\* The old server has begun a handoff it may still abandon, and paused every pane.
AllQuiet == {"duplicate", "waitValidated", "waitRestored", "removeApi", "removeClient",
             "waitReady", "commit"}
Decided == {"release", "waitOwned", "removeLast", "gone"}
OldPhases == {"serving", "pausing", "waitClosed", "rollback", "dead"}
             \cup AllQuiet \cup Decided \cup Binding
NewPhases == {"off", "receive", "import", "waitClosed", "reportReady", "waitCommitted",
              "own", "serving", "failing", "dead"} \cup Binding
StarterPhases == {"off", "serving", "failing", "dead"} \cup Binding

PhasesOK ==
    /\ phase \in [Servers -> OldPhases \cup NewPhases]
    /\ phase["old"] \in OldPhases
    /\ phase["new"] \in NewPhases
    /\ \A s \in Starters : phase[s] \in StarterPhases

PublicOK ==
    /\ sock \in [Servers -> Sockets]
    /\ path \in [Sockets -> Servers \cup {None, Stale}]
    /\ ident \in [Servers -> [Sockets -> Servers \cup {None, Stale}]]

TypeOK ==
    /\ PhasesOK /\ PublicOK
    /\ lines \subseteq {"validated", "fds", "restored", "ready", "committed", "owned"}
    /\ oldPane \in [Panes -> {"reading", "paused", "absent"}]
    /\ newPane \in [Panes -> {"imported", "reading", "absent"}]

\* Once the import server is spawned the old server reads no pane, unless it gives up.
QuietWhileHandingOff ==
    phase["old"] \in AllQuiet \cup Decided \cup {"dead"}
        => \A p \in Panes : oldPane[p] # "reading"

\* The commit is written by a server that goes on to release the panes.
CommitIsFinal == "committed" \in lines => phase["old"] \in Decided \cup {"dead"}

\* The import server owns nothing that was not committed to it.
OwnedWasCommitted ==
    phase["new"] = "own" \/ (\E p \in Panes : newPane[p] = "reading") => "committed" \in lines

\* It reads panes only once it serves.
ReadsWhenServing == (\E p \in Panes : newPane[p] = "reading") => phase["new"] = "serving"

\* The inductive invariant of the refinement: the old server is quiet from the moment it
\* spawns the import server, its commit is never taken back, and the import server reads
\* nothing before (headless.rs perform_live_handoff, run_handoff_import_server).
IndInv ==
    TypeOK /\ QuietWhileHandingOff /\ CommitIsFinal /\ OwnedWasCommitted /\ ReadsWhenServing

\* A live handoff keeps PaneOwnership's promise, whatever fails and whenever: no pane is
\* read twice, and none is read by the new server before the old one has committed.
Readers ==
    [p \in Panes |-> (IF oldPane[p] = "reading" THEN {"old"} ELSE {}) \cup
                     (IF newPane[p] = "reading" THEN {"new"} ELSE {})]
Ownership == INSTANCE PaneOwnership WITH readers <- Readers, committed <- "committed" \in lines
OwnershipSpec == Ownership!Spec

\* Some server always holds every pane's descriptor, so that no child is hung up: the old
\* one gives it up only after a commit, and a committed handoff loses the panes only when
\* the import server ends without having read the commit (report_committed is not
\* answered before preserve_for_handoff, headless.rs:1232-1256).  A crash of the server
\* that has the panes loses them.
PanesKept ==
    phase["old"] # "dead" => \A p \in Panes :
        \/ oldPane[p] # "absent" \/ newPane[p] # "absent"
        \/ "committed" \in lines /\ phase["new"] \in {"failing", "dead"}

\* Whoever is serving after a handoff, or after one was rolled back, is behind both public
\* sockets and reads every pane: restoring and handing over the sockets, each by several
\* steps of both servers, ends with the server that has the panes.
PanesAreReachable ==
    /\ phase["old"] = "serving" =>
           /\ \A k \in Sockets : path[k] = "old"
           /\ \A p \in Panes : oldPane[p] = "reading"
    /\ phase["new"] = "serving" =>
           /\ \A k \in Sockets : path[k] = "new"
           /\ \A p \in Panes : newPane[p] = "reading"

\* The same, as long as nobody starts a server of their own.
ReachableIfAlone == (\A s \in Starters : phase[s] = "off") => PanesAreReachable

\* A handoff does not keep the event loop: whatever the import server does, or fails to do,
\* the old server serves again or ends.
HandoffEnds == phase["old"] = "pausing" ~> phase["old"] \in {"serving", "gone", "dead"}

\* The import server never stays halfway: it serves or ends.
ImportEnds == phase["new"] = "receive" ~> phase["new"] \in {"serving", "dead"}
=============================================================================
