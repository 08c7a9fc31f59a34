# Verification of herduck

herduck (the crate is called `herdr` in parts of its sources) is a terminal multiplexer for
coding agents. A headless server owns the panes, each with a PTY and a child; thin clients
attach, send input and receive frames; the server recognises the agents that run in the panes,
resumes their conversations, queues messages for them and can replace its own process without
stopping a pane. This directory holds TLA+ models of its concurrent parts, TLC configurations
that check them on small instances, and TLAPS proofs.

Paths below are relative to the crate, `src/src/`.

| Module | Models | Checked by | Proofs |
|---|---|---|---|
| `PtyActor` | the I/O thread of one pane and its handle | `MCPtyActor`, 2 runs | `PtyActorProofs` |
| `PaneContract` | what that thread promises the server (abstract) | as a property of `PtyActor` | refinement proved |
| `LiveHandoff` | two servers, starters, the public sockets | itself, 2 runs | `LiveHandoffProofs` |
| `PaneOwnership` | what a handoff promises (abstract) | as a property of `LiveHandoff` | refinement proved |
| `RenderStream` | event loop, renders, clients and their writers | `MCRenderStream`, 2 runs | `RenderStreamProofs`, `RenderLoopProofs` |
| `ClientRegistry` | who is connected, in the foreground, attached to one terminal | `MCClientRegistry`, 1 run | `ClientRegistryProofs` |
| `AgentState` | what a terminal knows of its agent (handlers as functions) | through `AgentWatch` | — |
| `AgentWatch` | agents, their hooks, the detector and the server around it | `MCAgentWatch`, 1 run | `AgentWatchProofs` |
| `ProjectService` | the catalog's writer, title and topic workers, settings | `MCProjectService`, 1 run | `ProjectServiceProofs` |
| `FollowupQueue` | messages kept until an agent takes them | `MCFollowupQueue`, 3 runs | `FollowupQueueProofs` |

To check a run: `tlc -workers 2 -config LiveHandoff_handoff.cfg LiveHandoff`; to check a proof:
`tlapm PtyActorProofs.tla`. Every definition that translates code is listed in `PROJECT.json`
with the lines it stands for. A definition whose name ends in `Bug`, or whose comment begins
with "Mutant", is a plausible mistake: with it in place of the definition it varies, a run
finds the named property violated.

# 1. Inventory

| Component | State | Operations | What is hard |
|---|---|---|---|
| PTY I/O actor (`pty/actor/unix.rs`, `pty/fd.rs`) | gate, data and control channels, resize and nudge slots, wake pipe, runner state, pending writes | write (waiting, trying), resize, nudge, begin / roll back a handoff, duplicate, release, shut down; read, flush | threads, replies that time out, a full channel, two processes with one PTY |
| Live handoff (`server/handoff.rs`, `server/headless.rs`, `ipc.rs`, `api/server.rs`) | phase of both servers, socket files and their identities, protocol lines, panes | pause, spawn, send descriptors, import, remove and bind sockets, commit, release, own, restore, roll back | two processes, crashes, timeouts, non-atomic socket takeover |
| Event loop and render stream (`server/headless.rs`, `render_stream.rs`, `clients.rs`, `client_transport.rs`, `pane.rs`) | dirty flag, notify permit, clients, baselines, deferrals, render slots, emulator dirty rows | connect, input, resize, focus, detach, disconnect, drained; full and retained render; write a frame | threads, lossy one-place slot, lost wakeups, shared dirty state |
| Terminal attach and client registry (`server/headless.rs`, `terminal_attach.rs`) | connection modes, foreground, owner and size lock of a terminal, effective size | attach, observe, take over, control, promote, remove | many clients with conflicting rights, in any order |
| Follow-ups and drafts (`app/project_followup.rs`, `app/project_runtime.rs`, `app/api.rs`, `app/input/mod.rs`) | delivery records, leases, bindings, drafts | start, cancel, submit, flush, sync, resume | the agent changes between queueing and delivery; retries; limits |
| Agent state (`terminal/state.rs`, `pane.rs`, `pane/agent_detection.rs`, `detect/`) | detected agent and state, hook authority, sequences, session identity | detection, hooks, sessions, release, exit | two sources of truth, late and reordered reports |
| API server, waits, subscriptions (`api/`) | 512 last events, subscriber positions, request queue | push, poll, probe, wait, time out | lost events, position and probe out of step, queued requests across a handoff |
| Session persistence (`persist/`, `app/session.rs`, `app/agent_resume.rs`) | session file, history file, save deadline, save thread | save in background, save at exit, load, restore, resume | a crash between two files, overlapping saves |
| Start of a server (`server/autodetect.rs`, `client_accept.rs`, `socket_paths.rs`) | socket files | find, spawn, wait | two clients that both start one |
| Update (`update.rs`) | running servers | hand off, classify the result, stop | who answers after a failed handoff |
| Catalog service (`projects/service.rs`, `catalog.rs`, `semantic.rs`, `title.rs`) | one writer thread with a command queue, claims, cancel tokens, generations | sync, claim, write a result, reconfigure, cancel | late results of cancelled workers |
| Workspaces, tabs, layout (`workspace.rs`, `layout.rs`, `app/`) | tree of splits, tabs, focus | split, close, move, zoom, swap | sequential; invariants of a tree |
| Input routing, thin client, wire protocol, remote attach | modes, parser state, connection | parse, route, encode, reconnect | sequential conversions, I/O |
| Terminal emulation, UI drawing, configuration, CLI, plugins, integrations, platform | — | — | vendored, pure functions, or I/O |

How they interact. The server's *main thread* runs the event loop (`HeadlessServer::run`);
everything in `App` and the registry of clients changes there only. Around it: one actor thread
per pane (`PtyActor`), whose reader half feeds the emulator and raises a dirty flag and a
`Notify`; one reader and one writer thread per client, connected by a channel of server events
and by a queue with a one-place slot for frames; the API thread, which turns requests into
messages to the loop; detection tasks, which publish agent states as internal events;
background threads for saving, the catalog and summaries. During a live handoff the loop runs
`perform_live_handoff` to its end and a second server process runs `run_handoff_import_server`;
the two share the socket paths, the PTYs and one stream.

What makes each component correct, in one sentence: *PTY actor* — no accepted input is lost,
duplicated or reordered, and a paused pane is left alone; *handoff* — every pane has at most
one reader and at least one holder, and whoever serves is reachable; *render stream* — every
client ends up seeing what the server displays, and no differential frame is applied to the
wrong screen; *terminal attach* — a terminal's size lock belongs to its attached owner;
*follow-ups* — a message is delivered at most once, to the conversation it was written for, and
in the end; *agent state* — a late report never revives an ended agent; *API* — a wait or
subscription sees the change it waits for or is told; *persistence* — the files on disk are a
snapshot that existed, and never an older one; *catalog* — no result is written for a
configuration that has been replaced; *layout* — each operation keeps the tree's panes and a
focused one among them.

`PROJECT.json` lists the hazards line by line, those no property covers yet included.

# 2. Plan

Done: `PtyActor` refining `PaneContract`, `LiveHandoff` refining `PaneOwnership`, `RenderStream`, `ClientRegistry`,
`AgentState` with `AgentWatch`, `ProjectService` and `FollowupQueue`, each with its proofs. In
order of importance, still to write:

1. `SessionStore` — the background save, the save at exit, the two files, crash, restore
   (`app/session.rs`, `app/mod.rs:877` and `:1560`, `persist/io.rs`); two starters that restore
   the same session (joined with the socket steps of `LiveHandoff`). What is known so far is
   under "Not modelled".
2. `EventHub` — the bounded log of events, waits and subscriptions that poll it, the probe
   before or after; abstract specification: each subscriber sees a subsequence of the changes
   that ends with the last one. Hub of 2 events, 2 subscribers.
3. `LayoutTree` — the split tree as recursive functions, checked against a reference on bounded
   trees; the classification of the update after a handoff, added to `LiveHandoff`.
4. The merging of topics and the sessions of one title group, added to `ProjectService`; the
   reports of `AgentWatch` in the place of the free ones of `FollowupQueue`.

Every safety property the runs check is a theorem. Each new module comes with its inductive
invariant as an invariant of a run first. Runs are kept few, one per question.

# 3. The PTY I/O actor (`PtyActor`, `PaneContract`)

One action per step of a handle call, of the runner's loop and of the child. A handle call that
waits for a reply is two steps, so that the runner, the writers and a timeout come in between.
`gate`, `dataQ`, `ctlQ`, `resizeReq`, `nudgeReq`, `wake` are the fields shared by the handles;
`state`, `pc`, `pending`, `offset` are the runner's; `main`, `reply` and `current` the server's
main thread's side of the handoff protocol and the size it last asked for; `winSize`, `output`,
`eof` the PTY itself. A user write is the number of its acceptance, so that `InputInOrder` can
say which writes reached the PTY, in which order. A write that waits for capacity takes its
permit (`Reserve`) and sends (`SendPermit`) in separate steps, the gate being looked at before:
that is where a handoff can begin in between. What the PTY has got, what is left of the pending
write and what is in the channel are one sequence, the `Conduit`; `InputInOrder` says that it
is `Complete` (each accepted byte is in it once) and `Ordered`.

- `pty_safety`: channel of one place, two writers, two handoffs (begin, duplicate, rollback or
  release), late replies, failing writes and polls, both a pane of this server and one imported
  quiesced. Checks `OpenGateMeansRunning`, `QuiescedIsDry`, `InputInOrder` and that the actor
  implements `PaneContract` (`ContractSpec`). A channel of one place is full after one write, so that every path
  through a full channel is taken with few writes.
- `pty_wakeups`: the idle poll timeout (1 s) is taken away, so that liveness rests on the wake
  pipe alone: `AcceptedIsDelivered`, `CommandsAreHandled`. No reply is late here; under that
  assumption a rolled-back pane accepts input again and the PTY ends with the size the pane was
  last given: `RolledBackPaneAcceptsInput`, `WindowHasPaneSize`.

`PaneContract` is the pane as the rest of the server may rely on it: `serving`, `silent` or
`gone`; lent to another server or not; what was accepted and what has reached the child. It
falls silent only with everything delivered (a refused write excepted), is lent only while it
does not serve, and serves again only when it has been taken back. The mapping reads `silent`
off the runner's `Quiesced`, `gone` off its end, and `lent` off where the main thread is in the
protocol (`Paused`), so that the contract relates what two threads believe of one pane. It is
what `LiveHandoff` takes a paused pane to be.

The two conditions of the last properties are needed. A rollback whose reply takes over a
second (`unix.rs:275`) resumes the runner and leaves the gate closed, so that the pane takes no
input although `update.rs:1283` says "you can keep using the old server". And a nudge and a
later resize that the runner takes together are applied with the nudge last (`unix.rs:622`), so
that the PTY keeps the older size. `pty_wakeups` shows the one with `CallsTimeOut = TRUE` and
the other with `MaxNudges = 1` and a pane that is imported (`InitiallyQuiesced = {TRUE}`).

Fairness: weak on the runner's step and on the wake-up that follows an accepted write (threads
are scheduled); strong on `WriteAll`, since a child that lives reads its input now and then,
and a write retried for ever in the end is taken. A child that never reads would make
`AcceptedIsDelivered` false of any terminal.

Proved for any writers, sizes, channel length and bounds: `TypeCorrect`, `Inductive`,
`GateSafety`, `DryWhenQuiesced`, `PausedSilence`, `InputOrder`, `ContractKept`; and, each under the condition
explained above, `RollbackReopens` (`~CallsTimeOut`) and `WindowFollowsPane` (`MaxNudges = 0`
or a pane that is not imported). `OpenGateMeansRunning` is not inductive: after a timeout of
`begin_handoff` the main thread goes on while the runner may still execute that command.
`IndInv` adds which command in the channel still has a waiting caller (`CallerWaits`), that a
reply in the reply channel is still true of the runner (`ReplyStillTrue`), and that the gate is
shut while the main thread is inside the protocol (`GateFollowsMain`). `InputOrder` is inductive
relative to it: a step either leaves the conduit as it is (a chunk moves from the channel to the
pending write, bytes from there to the PTY) or appends the write just accepted.
`ContractKept` (`Spec => ContractSpec`) goes step by step: most steps are not seen by the
contract, each other one is one action of it. Two facts come on top of `IndInv` and
`InputInOrder` (`RouteInv`): delivered, pending and queued writes stay in order even after a
write was refused, and until then the writes delivered are the first ones; that makes the next
one delivered the right one, and the actor that falls silent one that owes nothing.
`RollbackReopens` needs that without timeouts a main thread that serves has an open gate
(`ServingMeansOpen`), `WindowFollowsPane` that the one resize that waits, or else the window, is
the pane's size (`SizeFollowsPane`). Only model-checked: liveness.

Left out: the foreground process group query (changes nothing), logging, and the Windows actor,
whose handle has no handoff.

# 4. Live handoff (`LiveHandoff`, `PaneOwnership`)

`phase[s]` is what each server is doing; a public socket is bound by the steps of `ipc.rs`
(does the file exist, does somebody answer, unlink, bind, listen, look at the file's identity),
each an action, because another server can come in between. `lines` is what has been written to
the handoff stream. A pane is `reading`, `paused` or `absent` in the old server, and
`imported`, `reading` or `absent` in the new one; pausing and releasing a pane are what
`PtyActor` shows in detail.

- `handoff`: two panes, a third server that may be started at any moment, every server may
  crash at any step, every wait may time out, every stage may fail for its own reasons. Checks
  `IndInv`, `PanesKept`, `ReachableIfAlone`, the refinement of `PaneOwnership`, and that a
  handoff and an import always end. Two panes suffice for "one pane paused, one not"; a second
  starter would repeat what the first one and the import server already do to the socket paths.
- `handoff_unreachable` (violation): after a failed handoff the old server waits 32 s for the
  public sockets to be free and otherwise resumes without them. A server started in between
  keeps both, and the panes cannot be reached, although the updater says "live handoff failed,
  but … is still running with your panes" (`update.rs:1276`).

`PanesKept` names the one case in which panes are lost without a crash of the old server:
`committed` is written without an answer, so the import server may give up in the same moment.

Fairness: weak on the old server's and the import server's steps. Both run straight code and
the old server's event loop does nothing else until the handoff ends. Failures, crashes and the
start of a handoff (`PauseFails`, `SpawnFails`, `DuplicateFails`, `ImportRefuses`, `Crash`,
`StartHandoff`) are not fair: they may never happen.

Proved for any panes, starters and crashes: `Inductive`; `Refinement`: the specification
implements `PaneOwnership`, so a pane never has two readers and the new server reads none
before the old one has given up all; `PanesAreKept`; `ReachableAlone`. The argument for the
first two: from the spawn of the import server the old one reads nothing unless it gives up
(`QuietWhileHandingOff`), a written commit is never taken back (`CommitIsFinal`), and the
import server has nothing that was not committed to it (`OwnedWasCommitted`,
`ReadsWhenServing`). `PanesKept` needs in addition in which phases each server holds all panes
(`PanesHeld`: when it may be without one, and which lines are then written), since a crash of
the import server may come between any two of them.
`ReachableIfAlone` follows from what is at each public path in each phase when nobody else
starts a server (`PathsFollow`), which phases the two servers can be in together
(`PhasesFollow`), who reads then (`ReadersFollow`), and how far a bind that is under way has got
(`BindsAlone`). The names of the starters must differ from those of the two servers and from
the values a path has without a server, `none` and `stale` (`LiveHandoffAssumption`). Only
model-checked: liveness.

Abstracted: panes that are not attached to a PTY, the limit of 64 descriptors (a refusal like
any other, `DuplicateFails`), the disconnection of clients before the handoff, and the contents
of the manifest. `Identify` reads the file at the path, as the code does, so a server may take
another's file for its own.

# 5. Render stream (`RenderStream`)

What is displayed is `now`, a version for each pane, for the rest of the interface (`chrome`)
and for the size (`shape`). A frame is a partial function of these parts: all of them (full) or
those that changed (differential). `baseline[c]` is what the server believes client `c` shows
(`ClientRenderState`), `slot[c]` its one-place render slot, `held[c]` the frame its writer
thread has taken, `screen[c]` what its terminal shows. `dirty[p]` is the emulator's dirty
state. The event loop's turn is split where other threads come in: `CheckDirty`, `Change`,
`Drain` with one `HandleEvent` each, `StartRender`, one `RenderTarget` per client, `Rendered`
or the retained path, `GoWait` and the three ways of waking.

- `render_panes`: one client and two panes, where the retained path (which patches the last
  frame with dirty rows) applies, with all kinds of messages and slow writers: `DiffsInv`,
  `StaleIsDirty`, `DeferralIsWoken`.
- `render_live`: a child writes for two clients, one of which leaves, so that the other is
  alone with panes that were rendered for both: `DiffsFit`, and in the end `CatchesUp`.

One write of a child, one message and one change are few, but each property needs only that one
thing changes while frames of an earlier state are in a slot, in a writer's hands and on a
screen; the mutants (a frame committed though the slot was full, a focus report that forgets to
ask for a render, a retained render for a client that missed a frame, a disconnection that asks
for no render) are all found within these bounds. The three properties hold together only
because of details a test would hardly reach: the foreground client is rendered last, after it
has given the panes their size for the others; a drained slot is announced before the frame is
written.

Fairness: weak on the loop, on the reader of each pane, on each writer and connection thread,
and on the exit of a detached client (it is sent `ServerShutdown`); strong on `StartRender`,
since the loop reaches its render point again and again and events do not arrive for ever. The
poll interval of the accept loop is left out, so no wakeup relies on it.

Proved for any clients, panes and bounds: `Inductive` (`DiffsInv`), `ClientsShowBaselines`
(`DiffsFit`), `NobodyUnintroduced`, and in `RenderLoopProofs` `SkippedAreServed`
(`DeferralIsWoken`) and `StalePanesAreDirty` (`StaleIsDirty`). `DiffsFit` says that once the
frames on their way are written, a client shows its baseline; to be kept by a step it needs
that only registered clients have a baseline, that a held frame belongs to a writer that will
write it, and that whom the loop is about to serve is still registered.

Both properties of the loop are about the end of a render, where the flag that asks for a full
one is reset, and rest on the same lemma about `render_targets` (`OrderCovers`): every client
that has a writer is served, the foreground client last. `DeferInv` therefore says of a skipped
client, in every state, that it is still to be served by the render under way, that a full
render is due, or that its writer holds the frame, has announced it or ended. For
`StaleIsDirty` the difficulty is that the retained path clears the dirty rows of a pane for
everybody. `StaleInv` is about the foreground client, which a client that is alone always is:
as long as its last frame can be patched (`Patchable`) and its turn in a full render is not to
come (`Awaits`), what the frame lacks is dirty (`DirtyWhereStale`). Being served last
(`ForegroundLast`) it gets the rows that the render cleans, and whoever becomes the foreground
client has no frame to be patched. Only model-checked: liveness.

Left out: clients attached to one terminal (`ClientRegistry`), kitty graphics, oversized
frames, control messages in the writer queue, the delay of synchronized output, and the
capacity (64) of the event channel. The next foreground after a removal is any remaining client
(the code takes the latest active one). A change of the application is assumed to ask for a
full render, as the handlers do. No client detaches in `render_live`.

# 6. Connected clients (`ClientRegistry`)

`server` is one record: the terminals there are, a `Connection` per client (mode, whether it
still waits for its terminal, target, size, writer), the order of `last_activity` (`behind`),
the foreground and the effective size, `terminal_attach_owners`, the size locks, and the size
of each PTY. The handlers call one another (`remove_client_and_resize_if_needed` promotes, a
promotion synchronises, a takeover removes and then attaches), so they are functions from
record to record (`Forget`, `Sync`, `Promote`, `PromoteLatest`, `Remove`, `TakeTerminal`), and
each action applies one of them as its handler does. `due` says that a full render will come;
`Render` keeps what a render does to the registry: it fits the panes to the foreground client,
and ends the streams of terminals that are gone and the connections whose writers it finds
closed.

- `client_registry`: two full clients, two direct ones, an ordinary and a popup terminal, two
  sizes; connections, takeovers, detaches, closed writers, terminals that die or are closed,
  and a handoff, in any order. Terminal ids are never reused, so the run is finite without a
  bound on steps. Two direct clients suffice for a takeover, two full ones for a promotion to
  another foreground. `OwnerIsAttached` and `LocksAreOwned` say that `terminal_attach_owners`
  and the locks, which are kept apart from the clients, agree with them; `AttachedHasItsSize`,
  `OthersFitTheForeground` and `NobodyShowsTheGone` what a user would see;
  `SomeoneIsForeground` that no removal leaves full clients without one that decides the size.

No fairness: all of these are safety. The last two hold when no render is due; that a due
render happens is `RenderStream`'s subject.

Proved for any clients, terminals and sizes: `RegistryIsSound` (`IndInv`, which adds to the
properties the types, that the foreground is a full client and gives the effective size, that
only terminals given out have owners, and that a direct client has a writer as long as it is
connected), and from it `OwnershipIsSound`, `LocksFollowOwners`, `AttachedSizesHold`,
`RenderRestores` and `NobodyStaysWithTheGone`. One lemma per function says which parts it
keeps between two others; only the functions that may move the foreground establish
`ForegroundIsFull`. `SomeoneLeads` (`SomeoneIsForeground`) has an invariant of its own, `Led`:
the full clients are finitely many and `behind` is a strict total order of them (`Ranked`), and
one is in the foreground unless there is none. That a ranked set has a first, so that
`latest_app_client` finds somebody, is taken from the well-founded order of the subsets of a
finite set: the member with the fewest others in front. The set of clients need not be finite.

Left out: clipboard, notifications, kitty graphics, the contents of frames, and layouts: a size
stands for the terminal it fits.

# 7. What a terminal knows of its agent (`AgentState`, `AgentWatch`)

`AgentState` is `TerminalState`: one record (`detected`, the fallback state, the hook and its
session, the saved owner, the last number of each source, suppressions, stale conversations,
the published state), each handler of `terminal/state.rs` a function on it. Instants are
compared in the code only to tell whether an observation of the detector was made before a hook
was taken or a source suppressed; an observation that waits in the event queue is marked at
that moment instead (`late`, `before`). `AgentWatch` puts around it what feeds it: agents that
start, change conversation, quit and exit; their reports, which arrive in any order and may be
repeated (a hook sends again after 500 ms); the detector task with its own variables (`watch`),
one action for each way an iteration of its loop can go; the server's handlers, which reset the
detector and hold it off; and a pane whose own process is an agent that is replaced by a shell.

- `agent_state`: a source with full lifecycle authority and one of which only sessions are
  taken, two conversations, two processes, two reports, one observation waiting.
  `PublishedIsArbitrated`: the state shown is the one arbitration gives, by whatever way a
  handler returned. `EndedSessionsStayEnded`: a late or repeated report never makes an ended
  conversation authoritative again; `EndedAreRefused` says why, each ended conversation being
  remembered as suppressed or stale. `ReportsInOrderAtFirst`: as long as its source has no
  stale conversation, a report with an older number changes nothing.

`Answered` (an agent that quits lives until its release is handled: the integrations wait for
the answer) is `TRUE` in the run and free in the theorems. No fairness is assumed.
Conversations whose release was handled while no hook was held are taken out of `over`, since
the code then forgets the suppressed session (see below).

Proved for any reporters, agents, sessions and bounds: `StatesAreArbitrated`,
`EndedStayRefused`, `EndedStayEnded`, `OrderAtFirst`. The invariant is `TypeOK`,
`PublishedIsArbitrated` and `EndedAreRefused`: `EndedSessionsStayEnded` alone is not inductive,
because what refuses an ended conversation moves from the suppression to the stale ones and is
dropped in several places. Each handler has a lemma that says what it does to the refusals.

Seen while modelling, and kept here since no document says otherwise:
- Once a source has a stale conversation every report of another one starts its count afresh
  (`terminal/state.rs:697`), so a repeated report of the running conversation can undo a newer
  one. That is why the order is only promised "at first".
- A release that finds no hook overwrites the suppressed session with none (`state.rs:590`),
  and an agent replaced by a shell takes all suppressions and stale conversations with it
  (`state.rs:1326`): a report of the old conversation that is still on its way is then taken.
- A reset of the detector forgets the agent it tracks (`pane.rs:2450`), so an exit before the
  next look at processes is never told.
- A session report of another source leaves the hook and the saved session with different
  owners.

Left out: the startup grace (`FollowupQueue` has its effect), custom metadata and labels,
notifications, restored sessions, and the patterns that read a state off the screen.

# 8. The catalog's writer and its workers (`ProjectService`)

One thread owns the catalog and does what it is asked, one command at a time; the callers wait,
so a call is one step, the one in which the writer handles it. `row[s]` is a session (`Row`):
how often the user renamed it, the generated title with its language and status, the versions
of the transcript that were named and seen, the lock, and the title its topic was found for.
`app` is where the App is in a change of the settings: it cancels the token in force
(`ReloadConfig`), waits for the writer to requeue claims (`ConfigureSummaries`, whose two
transactions fail separately), and starts the workers of the next `generation` (`StartWorkers`,
`StartFails`). Old workers are never joined: they go on in `titler[g]` and `sorter[g]` until
they look at their token or the writer refuses what they send. `titler[g].pc` is where a title
worker is in its round: read the language, the pending titles, claim a batch, ask the provider,
look at the language again, apply. Between any two of these the user may rename or lock a
session, an agent write, a scan find it, the settings change or the server restart.

- `project_titles`: two sessions, one of which is still being written, may be renamed once and
  locked, and is substantive enough for a topic; three settings (Chinese names by a model with
  topics, English ones made up without, none), two generations, batches of two, one further
  version of the transcript. Two generations are what it takes for a late result of one
  configuration to meet the claims of the next. `DoneInTheLanguage`, `RunningIsInHand`,
  `RenamedKeepsItsTopic`, `OffMeansQuiet`, `LockedStays`.

No fairness: all of these are safety. That pending titles are named in the end is not checked:
it would need a provider that answers and a user who leaves the settings alone.

Proved for any sessions, languages, settings and bounds: `TypesHold` and all five properties
(`TitlesInTheLanguage`, `RunningTitlesAreInHand`, `RenamedTopicsStay`, `LockedSessionsStay`,
`QuietWhenOff`). `RunningIsInHand` is not inductive: that a result ends its claim needs the
result to be in the catalog's language, or it is passed over. `IInv` adds that a worker which
is still listened to has read the language of its own configuration and that its results are in
it (`TitlersSound`), that a change of settings under way has cancelled the token
(`TokenSound`), that no claim is left when a generation starts (`StartIsClean`), that nobody
works ahead of the generation (`NobodyAhead`), and what holds while a worker is turned off
(`OffIsEmpty`). One lemma per function on rows says what it keeps, one per action combines
them.

Seen while modelling:
- A session renamed between the reading of the pending titles and their claim is set to running
  (`catalog.rs:1485` does not look at the user's name), its result is not stored, and so it is
  never sorted until the next configuration (`catalog.rs:1147`). `RunningIsInHand` therefore
  speaks of sessions without a user's name.
- A placeholder is stamped with the time at which it is stored (`catalog.rs:1324`), minutes
  after the transcript was read; what the agent wrote in between is not "new activity" for it,
  and it stays until there is more.

Left out: merging topics, sessions of one title group, aliases, directories, covers, deletion
by a finished scan, SQL, and a storage failure of a claim or a result (rows then stay running
until the next configuration).

# 9. Follow-ups and drafts (`FollowupQueue`)

`tasks[i]` is the delivery record of suggestion `i`, `panes[p]` what the server knows of pane
`p`: agent label, published state, session found by a report, lease of the runtime, the input
channel, and a draft. `Start` is `start_project_followup` with everything it calls (repeated
id, limits, eviction, a running, resumed or restored pane, the record); the reports of agents
and PTYs change a pane and, in the same step, update it and flush what waits for it, as
`handle_internal_event` does; `Flush` is one turn of the event loop.

- `followup_queue`: three suggestions, two about a conversation of the catalog and one about a
  conversation that is known only from its terminal; two panes; records and waiting places for
  two, so that a third start must evict or is refused. All safety properties. There are no
  drafts here: towards the queue they only refuse starts.
- `followup_settles`: two suggestions, room for one, drafts; `QueuedSettles`.
- `followup_prompt` (violation): the comment at `app/api.rs:360` says the first message is
  delivered "only after the resumed agent has rendered an idle prompt". The detection publishes
  an agent as idle in the moment it first sees its process (`pane.rs:766`), and a follow-up or
  draft is delivered on that news, while the agent starts.

Fairness: weak on `Flush`, because the event loop keeps turning (it has a timeout). Nothing is
assumed of agents; `QueuedSettles` promises a result only if the agent is idle again and again,
or the pane is gone, and from some time on the channel is not full.

Proved for any ids, sessions, panes and limits: `QueueIsSound` (types, `OneQueuedPerPane`,
`WithinLimits`, `SentOnce`, `WaitingKeepsItsTarget`), with `OneFollowupWaits`, `LimitsHold` and
`PromptsAreSentOnce` as its parts, and `OutcomesAreFinal`. The conjunction is
inductive as it stands: that a full set of records holds a settled one needs `MaxPending <=
MaxFollowups` (an assumption on the constants, 16 and 128 in the code) and a finite set of ids;
that a waiting follow-up keeps its target is proved per event, first for the pane the event is
about and then for the flush that follows. Only model-checked: `QueuedSettles`.

Abstracted: which settled record is evicted (the code takes the oldest), texts, the overview
the suggestions come from, updates of presentation only, and the replacement of the terminal in
a pane (tests only). A session identified from the agent's process is folded into `session`.
The channel of a pane fills, drains and closes at any time.

Seen while modelling, and not covered: the state stays idle after a delivery until the screen
is read again, so that a second message may follow the first (`project_followup.rs:458`); the
exit of an agent is published as idle with its label kept, so that a waiting draft is typed
into the shell (`app/api.rs:368`); a session that is only found by looking at processes is
looked for every five seconds (`app/mod.rs:1814`); and a follow-up whose resumed agent is never
recognised holds one of the sixteen places (`project_followup.rs:427`), which is why
`QueuedSettles` asks for an agent that is idle again and again.

# 10. What the proofs do not reach

Liveness under fairness is checked by TLC only, and so are the properties named above as only
model-checked. Theorems assume the named assumptions on the constants of each module
(`ConstantsAssumption`, `LiveHandoffAssumption`, `NamesAssumption`, `WatchAssumption`,
`ServiceAssumption`, `NoWorkerAssumption`), which TLC evaluates on each run. The bounds in
guards (`MaxWrites`, `MaxHandoffs`, `MaxGeneration`, …) are any natural numbers in the
theorems. No module uses `RECURSIVE`.

# 11. Not modelled

- *API server, waits and subscriptions*: planned (§2). The hub keeps 512 events and its readers
  poll (`api/event_hub.rs:22`); a subscription takes the hub's position before it probes the
  pane (`api/subscriptions.rs:259`).
- *Session persistence*: planned (§2). What reading it for the model has shown: a background
  save may be writing when another is due or the server stops (`app/session.rs:66`); the
  session and the history of its panes are two files, renamed one after the other, so that a
  crash can pair a session with another's history (`persist/io.rs:69`); changes made less than
  the 5 s of the save's debounce before a handoff are not saved until the new server changes
  something or exits (`app/mod.rs:877`, `server/headless.rs:1263`); turning `pane_history` off
  deletes the history file, but a save with history that is already on its way writes it again
  until the next one (`app/mod.rs:1560`).
- *Starting a server*: two clients that find none both spawn one (`server/autodetect.rs:293`).
  `LiveHandoff` has a starter next to the servers of a handoff; the client's wait, and two
  starters that restore the same session, are left to the persistence.
- *Workspaces, tabs and layout*: a sequential tree, planned as pure operators.
- *Transcripts, activity, overview, input parsing, codec, configuration, command line,
  integrations, user interface*: sequential conversions with unit tests; what the others need
  of them is an input of the models.
- *Terminal emulation* (vendored), *platform layer*, *remote attach*, *plugins*, *update*: I/O
  and child processes around the parts that are modelled.
