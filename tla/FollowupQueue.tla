---------------------------- MODULE FollowupQueue ----------------------------
(***************************************************************************)
(* Follow-ups and drafts: input the server keeps until an agent can take   *)
(* it (src/src/app/project_followup.rs, app/project_runtime.rs, and the    *)
(* drafts of app/input/mod.rs and app/api.rs).                             *)
(*                                                                         *)
(* A follow-up is queued for the pane of a session, resuming the session   *)
(* if it has no pane, and every internal event and every turn of the event *)
(* loop flushes the queue: a follow-up whose pane no longer holds its      *)
(* session is cancelled, one whose agent is idle is written to the pane.   *)
(* A draft is the first message of a resumed conversation; it waits per    *)
(* pane and is flushed when the state of the pane's terminal changes.      *)
(*                                                                         *)
(* Everything here runs on the server's main thread, one event at a time;  *)
(* what the events report of agents and PTYs changes between them.  Which  *)
(* settled record is evicted (the oldest) and the texts are abstracted.    *)
(***************************************************************************)
EXTENDS Naturals, FiniteSets

CONSTANTS
    Ids,           \* suggestion ids
    Sessions,      \* conversations of the catalog
    Live,          \* those known only by the terminal they run in ("herduck-live:")
    Backends,      \* kinds of agents
    SessionOf,     \* the session a suggestion is about
    BackendOf,     \* the agent a session belongs to
    Panes,
    NoSession, NoAgent, NoPane,
    MaxFollowups,  \* MAX_FOLLOWUPS: records retained
    MaxPending,    \* MAX_PENDING: follow-ups waiting
    Drafted        \* bound: sessions the user writes drafts to

ASSUME ConstantsAssumption ==
    /\ IsFiniteSet(Ids)
    /\ SessionOf \in [Ids -> Sessions] /\ BackendOf \in [Sessions -> Backends]
    /\ Live \subseteq Sessions /\ Drafted \subseteq Sessions
    /\ NoSession \notin Sessions /\ NoAgent \notin Backends /\ NoPane \notin Panes
    /\ MaxFollowups \in Nat /\ MaxPending \in Nat /\ MaxPending <= MaxFollowups

VARIABLES
    tasks,  \* ProjectFollowupQueue.tasks
    panes,  \* what the server knows of each pane, see PaneRecords
    sends   \* history: how often the prompt of a retained id was written

vars == <<tasks, panes, sends>>

TaskRecords == [state : {"none", "queued", "sent", "cancelled"},
                pane : Panes \cup {NoPane}, awaiting : BOOLEAN]
NoTask == [state |-> "none", pane |-> NoPane, awaiting |-> FALSE]

PaneRecords ==
    [status  : {"unused", "open", "gone"},
     label   : Backends \cup {NoAgent},      \* TerminalState::effective_agent_label
     state   : {"idle", "busy", "unknown"},  \* TerminalState.state; busy: Working, Blocked
     session : Sessions \cup {NoSession},    \* the identity a runtime report would find
     lease   : Sessions \cup {NoSession},    \* project_runtime_leases
     channel : {"none", "free", "full", "closed"},  \* the terminal runtime's input channel
     draft   : Sessions \cup {NoSession}]    \* pending_catalog_submissions, by its session

Unused == [status |-> "unused", label |-> NoAgent, state |-> "unknown",
           session |-> NoSession, lease |-> NoSession, channel |-> "none", draft |-> NoSession]
Shell == [Unused EXCEPT !.status = "open", !.channel = "free"]
Gone == [Unused EXCEPT !.status = "gone"]
\* A restored pane: the command that resumes its session is not running yet.
Restored(s) == [Unused EXCEPT !.status = "open", !.session = s, !.lease = s]

\* sync_project_runtime_for_pane; ok: the catalog accepts the report.
Synced(x, ok) ==
    IF x.lease = x.session THEN x
    ELSE [x EXCEPT !.lease = IF ok THEN x.session ELSE NoSession]

\* spawn_catalog_session_resume: a new pane, marked working at once.
Resumed(s, ok) ==
    Synced([Shell EXCEPT !.session = s, !.state = "busy"], ok)

\* clear_agent_runtime_identity_after_respawn
Forgotten(x) == [x EXCEPT !.label = NoAgent, !.state = "unknown", !.session = NoSession]

Init ==
    /\ tasks = [i \in Ids |-> NoTask]
    /\ panes \in [Panes -> {Unused} \cup {Restored(s) : s \in Sessions \ Live}]
    /\ sends = [i \in Ids |-> 0]

IsOpen(p) == panes[p].status = "open"
WithState(states) == {i \in Ids : tasks[i].state \in states}
QueuedIds == WithState({"queued"})
RetainedIds == WithState({"queued", "sent", "cancelled"})
SettledIds == WithState({"sent", "cancelled"})

-----------------------------------------------------------------------------
(* Flushing.                                                               *)

\* The pane still holds the session and its agent, or the resumed agent is still to be seen.
TargetMatches(i, t, x) ==
    /\ x.status = "open"
    /\ x.lease = SessionOf[i]
    /\ x.label = BackendOf[SessionOf[i]] \/ (t.awaiting /\ x.label = NoAgent)

\* try_send_bytes, once the agent is idle.  A closed channel cancels all that wait for the
\* pane, which is this one.
Delivery(x) ==
    CASE x.state = "idle" /\ x.channel = "free"   -> "sent"
      [] x.state = "idle" /\ x.channel = "closed" -> "cancelled"
      [] OTHER                                    -> "queued"

\* What flush_project_followups makes of a waiting follow-up.
Attempt(i, t, x) ==
    IF ~TargetMatches(i, t, x) THEN [t EXCEPT !.state = "cancelled"]
    ELSE IF x.label = NoAgent THEN t
    ELSE [t EXCEPT !.awaiting = FALSE, !.state = Delivery(x)]

Flushed(ts, ps) ==
    [i \in Ids |-> IF ts[i].state = "queued" THEN Attempt(i, ts[i], ps[ts[i].pane])
                   ELSE ts[i]]

\* The queue becomes ts; evicted ids are forgotten.
Record(ts) ==
    /\ tasks' = ts
    /\ sends' = [i \in Ids |-> IF ts[i] = NoTask THEN 0 ELSE sends[i]]

\* flush_project_followups, with the queue ts and the panes ps.
FlushQueue(ts, ps) ==
    /\ tasks' = Flushed(ts, ps)
    /\ sends' = [i \in Ids |->
                    IF ts[i] = NoTask THEN 0
                    ELSE IF ts[i].state = "queued" /\ tasks'[i].state = "sent"
                         THEN sends[i] + 1 ELSE sends[i]]

FlushWith(ts, ps) == FlushQueue(ts, ps) /\ panes' = ps

\* flush_pending_catalog_submission: it asks for no agent.
DraftFlushed(x) ==
    IF x.state = "idle" /\ x.channel = "free" /\ x.status = "open"
    THEN [x EXCEPT !.draft = NoSession] ELSE x

\* A change of the label or the state flushes the pane's draft.
Updated(p, x) ==
    IF x.label # panes[p].label \/ x.state # panes[p].state THEN DraftFlushed(x) ELSE x

\* Mutant: the event does not flush the queue.
EventBug(p, x) ==
    /\ panes' = [panes EXCEPT ![p] = Updated(p, x)]
    /\ UNCHANGED <<tasks, sends>>

\* The end of handle_internal_event: pane p is now x.
Event(p, x) == FlushWith(tasks, [panes EXCEPT ![p] = Updated(p, x)])

\* Mutant: the loop leaves flushing to the events.
FlushBug == UNCHANGED vars

\* sync_all_project_runtime_mappings, every five seconds.
Checked(ok) == [p \in Panes |-> IF IsOpen(p) THEN Synced(panes[p], ok[p]) ELSE panes[p]]

\* sync_projects_snapshot, at every turn of the event loop.
Flush ==
    /\ FlushQueue(tasks, panes)
    /\ panes' \in {panes} \cup {Checked(ok) : ok \in [Panes -> BOOLEAN]}
    /\ <<tasks, panes>>' # <<tasks, panes>>

-----------------------------------------------------------------------------
(* Requests of users and clients.                                          *)

\* Mutant: any record may go.
EvictableBug == RetainedIds

Evictable == SettledIds

\* Mutant: the limit is off by one.
RoomToKeepBug == Cardinality(RetainedIds) <= MaxFollowups

RoomToKeep == Cardinality(RetainedIds) < MaxFollowups

\* The queue once there is room for a record.
Evictions ==
    IF RoomToKeep \/ Evictable = {} THEN {tasks}
    ELSE {[tasks EXCEPT ![old] = NoTask] : old \in Evictable}

\* The pane a session runs in: the one that leases it, else one bound to it.
Targets(s) ==
    LET leased == {p \in Panes : IsOpen(p) /\ panes[p].lease = s}
    IN  IF leased # {} THEN leased ELSE {p \in Panes : IsOpen(p) /\ panes[p].session = s}

\* Mutant: a pane with a waiting follow-up takes another.
TakenBug(p, x) == x.draft # NoSession

\* Something already waits for the pane.
Taken(p, x) == x.draft # NoSession \/ \E i \in QueuedIds : tasks[i].pane = p

\* The end of queue_project_followup, with the target p now x.
Enqueue(i, kept, p, x, awaiting) ==
    \/ /\ Taken(p, x)
       /\ panes' = [panes EXCEPT ![p] = x]
       /\ Record(kept)
    \/ /\ ~Taken(p, x)
       /\ FlushWith([kept EXCEPT ![i] = [state |-> "queued", pane |-> p, awaiting |-> awaiting]],
                    [panes EXCEPT ![p] = x])

\* The agent runs in p.
ToRunning(i, kept, p, ok) ==
    /\ panes[p].channel # "none"
    /\ Enqueue(i, kept, p, Synced(panes[p], ok), FALSE)

\* p was restored: its agent is started now.
ToRestored(i, kept, p, ok) ==
    /\ panes[p].channel = "none" /\ panes[p].session # NoSession
    /\ Enqueue(i, kept, p, [Synced(panes[p], ok) EXCEPT !.channel = "free", !.state = "busy"], TRUE)

\* The agent could not be started; if the shell was not, the pane forgets its agent.
RestoreFails(kept, p, ok) ==
    /\ panes[p].channel = "none"
    /\ \E x \in {Synced(panes[p], ok), Forgotten(Synced(panes[p], ok))} :
          panes' = [panes EXCEPT ![p] = x]
    /\ Record(kept)

\* The session has no pane: it is resumed in a new one.
ToResumed(i, kept, p, ok) ==
    /\ SessionOf[i] \notin Live
    /\ panes[p].status = "unused"
    /\ Enqueue(i, kept, p, Resumed(SessionOf[i], ok), TRUE)

ResumeFails(kept) == Record(kept) /\ UNCHANGED panes

\* Mutant: a repeated start is not recognized.
NewIdBug(i) == tasks[i].state # "queued"

NewId(i) == tasks[i] = NoTask

RoomToWait == Cardinality(QueuedIds) < MaxPending

\* start_project_followup, queue_project_followup
Start(i) ==
    /\ NewId(i) /\ RoomToWait
    /\ \E kept \in Evictions, ok \in BOOLEAN :
          \/ \E p \in Targets(SessionOf[i]) :
                ToRunning(i, kept, p, ok) \/ ToRestored(i, kept, p, ok) \/ RestoreFails(kept, p, ok)
          \/ /\ Targets(SessionOf[i]) = {}
             /\ ResumeFails(kept) \/ \E p \in Panes : ToResumed(i, kept, p, ok)

\* cancel_project_followup
Cancel(i) ==
    /\ tasks[i].state = "queued"
    /\ tasks' = [tasks EXCEPT ![i].state = "cancelled"]
    /\ UNCHANGED <<panes, sends>>

\* submit_project_history_draft: a message goes to the pane of s, where it replaces a draft
\* that waits; else s is resumed, with or without a message.
SubmitDraft(s) ==
    /\ \/ \E p \in Panes :
             /\ s \in Drafted
             /\ IsOpen(p) /\ s \in {panes[p].lease, panes[p].session}
             /\ panes' = [panes EXCEPT ![p] = DraftFlushed([@ EXCEPT !.draft = s])]
       \/ /\ s \notin Live
          /\ \A p \in Panes : IsOpen(p) => s \notin {panes[p].lease, panes[p].session}
          /\ \E p \in Panes, ok \in BOOLEAN, draft \in {NoSession} \cup ({s} \cap Drafted) :
                /\ panes[p].status = "unused"
                /\ panes' = [panes EXCEPT ![p] = [Resumed(s, ok) EXCEPT !.draft = draft]]
    /\ UNCHANGED <<tasks, sends>>

OpenPane(p) ==
    /\ panes[p].status = "unused"
    /\ panes' = [panes EXCEPT ![p] = Shell]
    /\ UNCHANGED <<tasks, sends>>

\* A pane is closed through the API, which leaves its draft; what waits for the pane is
\* cancelled by the next flush.
ClosePane(p) ==
    /\ IsOpen(p)
    /\ panes' = [panes EXCEPT ![p] = [Gone EXCEPT !.draft = panes[p].draft]]
    /\ UNCHANGED <<tasks, sends>>

\* start_pending_agent_resume, when the restored pane is first drawn; it may fail.
StartRestored(p) ==
    /\ IsOpen(p) /\ panes[p].channel = "none" /\ panes[p].session # NoSession
    /\ \E x \in {[panes[p] EXCEPT !.channel = "free"], Forgotten(panes[p])} :
          panes' = [panes EXCEPT ![p] = x]
    /\ UNCHANGED <<tasks, sends>>

-----------------------------------------------------------------------------
(* What the detection, the hooks and the pane's process report.            *)

Running(p) == IsOpen(p) /\ panes[p].channel # "none"

\* A new foreground agent is published as idle, before its screen is read; a conversation
\* nobody reported is known by its terminal.
AgentAppears(p, b) ==
    /\ Running(p) /\ panes[p].label # b
    /\ \E s \in {panes[p].session}
                \cup {live \in Live : panes[p].session = NoSession /\ BackendOf[live] = b
                                       /\ \A q \in Panes : panes[q].session # live} :
          Event(p, [panes[p] EXCEPT !.label = b, !.state = "idle", !.session = s])

\* The agent's screen was read.
ScreenRead(p, state) ==
    /\ Running(p) /\ panes[p].label # NoAgent
    /\ panes[p].state # state
    /\ Event(p, [panes[p] EXCEPT !.state = state])

\* A report of a hook of another agent than the detected one is refused.
MayReport(p, s) ==
    /\ Running(p) /\ s \notin Live
    /\ panes[p].label \in {NoAgent, BackendOf[s]}

\* AgentSessionReported: the agent's conversation is s.
SessionReported(p, s) ==
    /\ MayReport(p, s)
    /\ \E ok \in BOOLEAN : Event(p, Synced([panes[p] EXCEPT !.session = s], ok))

\* HookStateReported, by a hook that has authority over the state.
HookReports(p, s, state) ==
    /\ MayReport(p, s)
    /\ \E ok \in BOOLEAN :
          Event(p, Synced([panes[p] EXCEPT !.session = s, !.label = BackendOf[s],
                                           !.state = state], ok))

\* HookAgentReleased, HookAuthorityCleared: a hook lets go of its agent, or of the session
\* of an agent that is still detected.
HookReleases(p) ==
    /\ Running(p) /\ panes[p].label # NoAgent
    /\ \E ok \in BOOLEAN :
          \/ \E s \in {NoSession} \cup ({panes[p].session} \ Live) :
                Event(p, Synced([panes[p] EXCEPT !.label = NoAgent, !.state = "unknown",
                                                 !.session = s], ok))
          \/ \E state \in {"idle", "busy"} :
                /\ panes[p].session \notin Live
                /\ Event(p, Synced([panes[p] EXCEPT !.session = NoSession, !.state = state], ok))

\* The shell is in the foreground again: the exit is published as an idle agent.
AgentExits(p) ==
    /\ Running(p) /\ panes[p].label # NoAgent
    /\ LET x == [panes[p] EXCEPT !.state = "idle",
                     !.session = IF @ # NoSession /\ @ \notin Live /\ BackendOf[@] = panes[p].label
                                 THEN NoSession ELSE @]
       IN  \E ok \in BOOLEAN : Event(p, Synced(x, ok))

\* No agent is seen any more.
AgentGone(p) ==
    /\ Running(p) /\ panes[p].label # NoAgent
    /\ Event(p, [panes[p] EXCEPT !.label = NoAgent, !.state = "unknown",
                                 !.session = IF @ \in Live THEN NoSession ELSE @])

\* TerminalCwdReported
CwdReported(p) ==
    /\ Running(p)
    /\ \E ok \in BOOLEAN : Event(p, Synced(panes[p], ok))

\* cancel_project_followups
CancelledFor(p) ==
    [i \in Ids |-> IF tasks[i].state = "queued" /\ tasks[i].pane = p
                   THEN [tasks[i] EXCEPT !.state = "cancelled"] ELSE tasks[i]]

\* PaneDied: a pane opened for a command gets a new shell, any other is closed.
PaneDies(p) ==
    /\ Running(p)
    /\ \/ panes' = [panes EXCEPT ![p] = Shell] /\ Record(CancelledFor(p))
       \/ FlushWith(CancelledFor(p), [panes EXCEPT ![p] = Gone])

\* The PTY actor takes input, falls behind, or ends.
ChannelChanges(p) ==
    /\ Running(p) /\ panes[p].channel # "closed"
    /\ \E c \in {"free", "full", "closed"} \ {panes[p].channel} :
          panes' = [panes EXCEPT ![p].channel = c]
    /\ UNCHANGED <<tasks, sends>>

Reports(p) ==
    \/ \E b \in Backends : AgentAppears(p, b)
    \/ \E state \in {"idle", "busy"} : ScreenRead(p, state)
    \/ \E s \in Sessions : SessionReported(p, s) \/ \E state \in {"idle", "busy"} : HookReports(p, s, state)
    \/ HookReleases(p) \/ AgentExits(p) \/ AgentGone(p) \/ CwdReported(p) \/ PaneDies(p) \/ ChannelChanges(p)

Next ==
    \/ \E i \in Ids : Start(i) \/ Cancel(i)
    \/ \E s \in Sessions : SubmitDraft(s)
    \/ \E p \in Panes : OpenPane(p) \/ ClosePane(p) \/ StartRestored(p) \/ Reports(p)
    \/ Flush

Spec == Init /\ [][Next]_vars

\* The event loop keeps turning.
FairSpec == Spec /\ WF_vars(Flush)

-----------------------------------------------------------------------------
(* Properties.                                                             *)

TypeOK ==
    /\ tasks \in [Ids -> TaskRecords]
    /\ panes \in [Panes -> PaneRecords]
    /\ sends \in [Ids -> Nat]

\* "At most one follow-up can wait per pane" (docs/project-overview.md), whatever resumes,
\* bindings and leases lead two sessions to one pane.
OneQueuedPerPane ==
    \A i, j \in QueuedIds : tasks[i].pane = tasks[j].pane => i = j

\* "with 16 pending and 128 retained delivery records per server": the limits hold
\* because a full set of records always holds one that is settled.
WithinLimits ==
    /\ Cardinality(QueuedIds) <= MaxPending
    /\ Cardinality(RetainedIds) <= MaxFollowups

\* "Repeating a start with the same retained ID returns its existing result without sending
\* again": a prompt is written once, when its record says so, and never for a cancelled one.
SentOnce ==
    \A i \in Ids : sends[i] = IF tasks[i].state = "sent" THEN 1 ELSE 0

\* A follow-up never leaves the records while it waits, and its outcome is final: only the
\* eviction of a settled record ends it.
OutcomeIsFinal ==
    [][\A i \in Ids :
          /\ tasks[i].state = "queued" => tasks'[i].state \in {"queued", "sent", "cancelled"}
          /\ tasks[i].state \in {"sent", "cancelled"} => tasks'[i] \in {tasks[i], NoTask}]_vars

\* "replacing or closing that target cancels pending input": while a follow-up waits its
\* pane is leased to its session and shows no other agent, and none only until a resumed
\* one is first seen.  What changes that cancels the follow-up in the same step; closing
\* the pane does at the next flush.
WaitingKeepsItsTarget ==
    \A i \in QueuedIds :
       /\ tasks[i].pane \in Panes
       /\ LET x == panes[tasks[i].pane]
          IN  \/ x.status = "gone"
              \/ /\ x.status = "open" /\ x.channel # "none"
                 /\ x.lease = SessionOf[i] /\ x.session = x.lease
                 /\ x.label \in {BackendOf[SessionOf[i]], NoAgent}
                 /\ tasks[i].awaiting <=> x.label = NoAgent

\* The pane of a follow-up is gone, or its agent is idle and takes input.
Answers(i) ==
    tasks[i].state = "queued" =>
       LET x == panes[tasks[i].pane]
       IN  x.status # "open" \/ (x.label # NoAgent /\ x.state = "idle" /\ x.channel = "free")

\* A follow-up does not wait for ever once its agent is idle for good or again and again
\* while its channel has room: no delivery is lost between the events and the loop.
QueuedSettles ==
    \A i \in Ids :
       (/\ []<>Answers(i)
        /\ <>[](tasks[i].state = "queued" => panes[tasks[i].pane].channel # "full"))
       => (tasks[i].state = "queued" ~> tasks[i].state # "queued")

\* A follow-up or a draft is written to pane p.
Delivered(p) ==
    \/ \E i \in Ids : tasks[i].state # "sent" /\ tasks'[i].state = "sent" /\ tasks'[i].pane = p
    \/ panes[p].draft # NoSession /\ panes'[p].draft = NoSession /\ panes'[p].channel = "free"

\* "Delivers the first user message only after the resumed agent has rendered an idle prompt"
\* (app/api.rs): the news that an agent has been started delivers nothing.
InputWaitsForThePrompt ==
    [][\A p \in Panes : (\E b \in Backends : AgentAppears(p, b)) => ~Delivered(p)]_vars
=============================================================================
