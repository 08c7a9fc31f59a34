----------------------------- MODULE AgentWatch -----------------------------
(***************************************************************************)
(* A pane whose agents come and go, the detector task that watches it      *)
(* (src/src/pane.rs), the hooks of the agents, whose reports arrive over   *)
(* the API in any order and may be repeated, and the server that handles   *)
(* both (src/src/app/api.rs, src/src/app/actions.rs) on the terminal's     *)
(* state.                                                                  *)
(*                                                                         *)
(* While the hook of an agent is authoritative the detector does not read  *)
(* the screen, and looks at processes only when the foreground changes.    *)
(***************************************************************************)
EXTENDS AgentState, FiniteSets

CONSTANTS
    Kinds,       \* what the hooks send: "state", "session", "release", "clear"
    Reported,    \* states the hooks report
    Shown,       \* states the detector reads off the screen
    MaxProcs,    \* agents started in the pane
    MaxSent,     \* reports sent
    MaxNews,     \* observations that wait in the event queue
    Respawns,    \* whether the pane's own process may be an agent and be replaced by a shell
    Answered,    \* whether an agent that quits lives until its release is handled
    Repeats      \* whether a report that was not answered in time is sent again

ASSUME WatchAssumption ==
    /\ Kinds \subseteq {"state", "session", "release", "clear"}
    /\ Reported \subseteq States /\ Shown \subseteq States
    /\ {MaxProcs, MaxSent, MaxNews} \subseteq Nat
    /\ {Respawns, Answered, Repeats} \subseteq BOOLEAN

VARIABLES
    term,    \* TerminalState, with the observations that wait
    watch,   \* the detector's own variables
    proc,    \* the foreground process: an agent with its conversation, or the shell
    procs,   \* processes started so far
    mail,    \* reports on their way
    sent,    \* numbers given to reports: the clock they are numbered by
    launched,\* the pane's own process is an agent, to be replaced by a shell
    over     \* history: conversations whose authority ended and that have not begun again

vars == <<term, watch, proc, procs, mail, sent, launched, over>>

Process == [id : 0..MaxProcs, by : Reporters \cup {Nobody}, session : Sessions \cup {NoSession},
            quits : BOOLEAN]
Report == [kind : Kinds, by : Reporters, session : Sessions \cup {NoSession}, state : States,
           start : Starts, n : 1..MaxSent]
Watch == [tracked : Agents \cup {NoAgent}, told : BOOLEAN, clearing : BOOLEAN,
          probed : BOOLEAN, group : 0..MaxProcs, reset : BOOLEAN, shown : BOOLEAN,
          holdoff : Agents \cup {NoAgent}]

Shell == [id |-> 0, by |-> Nobody, session |-> NoSession, quits |-> FALSE]
NewWatch == [tracked |-> NoAgent, told |-> FALSE, clearing |-> FALSE, probed |-> FALSE,
             group |-> 0, reset |-> FALSE, shown |-> TRUE, holdoff |-> NoAgent]

Running == LabelAgent(proc.by)

Init ==
    /\ term = NewTerminal /\ watch = NewWatch
    /\ proc = Shell /\ procs = 0
    /\ mail = {} /\ sent = 0
    /\ launched \in {FALSE, Respawns} /\ over = {}

-----------------------------------------------------------------------------
(* The agents.                                                             *)

Begun(owner) == over' = over \ {owner}

StartAgent(r, s) ==
    /\ proc = Shell /\ procs < MaxProcs
    /\ procs' = procs + 1
    /\ proc' = [id |-> procs + 1, by |-> r, session |-> s, quits |-> FALSE]
    /\ Begun([by |-> r, session |-> s])
    /\ UNCHANGED <<term, watch, mail, sent, launched>>

\* The process ends, by itself or killed.
Exit ==
    /\ proc.by # Nobody
    /\ Answered => {m \in mail : m.kind = "release" /\ m.by = proc.by} = {}
    /\ proc' = Shell
    /\ UNCHANGED <<term, watch, procs, mail, sent, launched, over>>

Posted(kind, session, state, start) ==
    [kind |-> kind, by |-> proc.by, session |-> session, state |-> state,
     start |-> start, n |-> sent + 1]

Post(m) ==
    /\ proc.by # Nobody /\ ~proc.quits /\ m.kind \in Kinds /\ sent < MaxSent
    /\ sent' = sent + 1 /\ mail' = mail \cup {m}

Send ==
    /\ \/ \E st \in Reported, s \in {proc.session, NoSession} :
              Post(Posted("state", s, st, "none"))
       \/ \E start \in Starts : Post(Posted("session", proc.session, "unknown", start))
       \/ Post(Posted("clear", proc.session, "unknown", "none"))
    /\ UNCHANGED <<term, watch, proc, procs, launched, over>>

\* The agent begins or resumes another conversation.
Switch(s) ==
    /\ s # proc.session
    /\ Post(Posted("session", s, "unknown", "replace"))
    /\ proc' = [proc EXCEPT !.session = s]
    /\ Begun([by |-> proc.by, session |-> s])
    /\ UNCHANGED <<term, watch, procs, launched>>

\* An agent that is about to end releases the pane.
Quit ==
    /\ Post(Posted("release", proc.session, "unknown", "none"))
    /\ proc' = [proc EXCEPT !.quits = TRUE]
    /\ UNCHANGED <<term, watch, procs, launched, over>>

-----------------------------------------------------------------------------
(* The detector: one action for an iteration of its loop that looks at     *)
(* processes, one for an iteration that only reads the screen.             *)

Seen(agent, state, blocker, exited) ==
    [agent |-> agent, state |-> state, blocker |-> blocker, exited |-> exited,
     late |-> FALSE, before |-> {}]

Publish(o) == term' = [term EXCEPT !.news = Append(@, o)]

Room == Len(term.news) < MaxNews

\* set_full_lifecycle_authority_active: the server sets it after every event.
Paused == Live(term)

ShouldProbe ==
    \/ ~Paused \/ watch.clearing \/ watch.holdoff # NoAgent
    \/ ~watch.probed \/ proc.id # watch.group

\* A probe of the foreground; an agent that has just been released is not recognized.
Found == IF Running = watch.holdoff THEN NoAgent ELSE Running

Probed == [watch EXCEPT !.probed = TRUE, !.group = proc.id,
                        !.holdoff = IF Running # NoAgent /\ Running = @ THEN @ ELSE NoAgent]

Stable == [Probed EXCEPT !.clearing = FALSE, !.told = FALSE]

\* An agent is found: it is published at once, if it is another one.
ProbeAgent ==
    /\ ShouldProbe /\ Room /\ Found # NoAgent
    /\ watch' = [Stable EXCEPT !.tracked = Found, !.shown = @ \/ Found # watch.tracked]
    /\ IF Found # watch.tracked THEN Publish(Seen(Found, "idle", FALSE, FALSE))
       ELSE UNCHANGED term
    /\ UNCHANGED <<proc, procs, mail, sent, launched, over>>

ProbeNothing ==
    /\ ShouldProbe /\ Found = NoAgent /\ watch.tracked = NoAgent
    /\ watch' = Stable
    /\ UNCHANGED <<term, proc, procs, mail, sent, launched, over>>

\* Something else than an agent or the pane's shell is in the foreground: a miss.
Unknown == proc # Shell \/ launched

ProbeMiss ==
    /\ ShouldProbe /\ Found = NoAgent /\ watch.tracked # NoAgent /\ ~watch.told /\ Unknown
    /\ watch' = Stable
    /\ UNCHANGED <<term, proc, procs, mail, sent, launched, over>>

\* The shell is in the foreground: first the end of the process is published ...
ProbeExit ==
    /\ ShouldProbe /\ Room /\ Found = NoAgent
    /\ watch.tracked # NoAgent /\ ~watch.told /\ ~Unknown
    /\ watch' = [Probed EXCEPT !.clearing = TRUE, !.told = TRUE, !.shown = TRUE]
    /\ Publish(Seen(watch.tracked, "idle", FALSE, TRUE))
    /\ UNCHANGED <<proc, procs, mail, sent, launched, over>>

\* ... and at the next look that there is no agent; the same after repeated misses, which
\* there are not while the hook is authoritative.
ProbeGone ==
    /\ ShouldProbe /\ Room /\ Found = NoAgent /\ watch.tracked # NoAgent
    /\ watch.told \/ (~Paused /\ Unknown)
    /\ watch' = [Stable EXCEPT !.tracked = NoAgent, !.shown = Paused /\ @]
    /\ IF Paused THEN UNCHANGED term ELSE Publish(Seen(NoAgent, "unknown", FALSE, FALSE))
    /\ UNCHANGED <<proc, procs, mail, sent, launched, over>>

\* The screen is read; without an agent its state is unknown, which is published once.
Read ==
    /\ ~Paused /\ Room
    /\ \/ /\ watch.tracked # NoAgent
          /\ \E st \in Shown : Publish(Seen(watch.tracked, st, st = "blocked", FALSE))
          /\ watch' = [watch EXCEPT !.shown = TRUE]
       \/ /\ watch.tracked = NoAgent /\ watch.shown
          /\ Publish(Seen(NoAgent, "unknown", FALSE, FALSE))
          /\ watch' = [watch EXCEPT !.shown = FALSE]
    /\ UNCHANGED <<proc, procs, mail, sent, launched, over>>

Reset ==
    /\ watch.reset
    /\ watch' = [NewWatch EXCEPT !.holdoff = watch.holdoff, !.shown = FALSE]
    /\ UNCHANGED <<term, proc, procs, mail, sent, launched, over>>

HoldoffEnds ==
    /\ watch.holdoff # NoAgent
    /\ watch' = [watch EXCEPT !.holdoff = NoAgent, !.probed = FALSE]
    /\ UNCHANGED <<term, proc, procs, mail, sent, launched, over>>

-----------------------------------------------------------------------------
(* The server.                                                             *)

\* What is shown as the agent's name.
Label(t) ==
    IF t.hook.by = Nobody THEN t.detected
    ELSE IF AgentOf[t.hook.by] = NoAgent THEN t.hook.by ELSE AgentOf[t.hook.by]

\* The conversation whose authority has ended; one that runs again has not.
Ended(t, u) ==
    IF Live(t) /\ t.hook.session # NoSession /\ u.hook = NoHook
    THEN {HookOwner(t)} \
         {[by |-> proc.by, session |-> proc.session]}
    ELSE {}

\* sync_full_lifecycle_authority_detection_pauses: a hook that becomes authoritative resets
\* the detector.
Settle(u, ended, kept) ==
    /\ term' = u
    /\ over' = (kept \cup ended) \ (IF u.saved = term.saved THEN {} ELSE {u.saved})

Synced(u) == [watch EXCEPT !.reset = @ \/ (Live(u) /\ ~Live(term))]

HandleNews ==
    /\ term.news # <<>>
    /\ LET o == Head(term.news)
           t == [term EXCEPT !.news = Tail(@)]
           u == SetDetected(t, o)
       IN /\ Settle(u, IF o.exited /\ o.agent = LabelAgent(t.hook.by) THEN Ended(t, u) ELSE {}, over)
          /\ watch' = Synced(u)
    /\ UNCHANGED <<proc, procs, mail, sent, launched>>

Handled(m) ==
    CASE m.kind = "state" /\ m.by \in Native ->
             IF m.session = NoSession THEN term
             ELSE SetSession(term, m.by, m.session, m.n, "none")
      [] m.kind = "state" /\ m.by \notin Native -> SetHook(term, m.by, m.state, m.session, m.n)
      [] m.kind = "session" -> SetSession(term, m.by, m.session, m.n, m.start)
      [] m.kind = "clear" -> ClearHook(term, m.by, m.n)
      [] m.kind = "release" ->
             IF m.by \in Native THEN term ELSE Release(term, m.by, m.n)

\* A report is handled; if the answer is late the hook sends it a second time.
Deliver(m) ==
    /\ m \in mail
    /\ mail' = mail \ {m} \/ (Repeats /\ mail' = mail)
    /\ LET u == Handled(m)
           released == /\ m.kind = "release" /\ AgentOf[m.by] # NoAgent
                       /\ <<Label(u), u.state>> # <<Label(term), term.state>>
           blind == m.kind = "release" /\ term.hook.by = Nobody /\ u # term
       IN /\ Settle(u, IF m.kind \in {"release", "session"} THEN Ended(term, u) ELSE {},
                    IF blind THEN {e \in over : e.by # m.by} ELSE over)
          /\ watch' = IF released
                      THEN [Synced(u) EXCEPT !.reset = TRUE, !.holdoff = AgentOf[m.by]]
                      ELSE Synced(u)
    /\ UNCHANGED <<proc, procs, sent, launched>>

\* publish_pane_process_exit_if_agent: the pane's own process has died ...
DeathOf(t) ==
    LET agent == IF t.hook.by # Nobody /\ AgentOf[t.hook.by] # NoAgent
                 THEN AgentOf[t.hook.by] ELSE t.detected
    IN IF agent = NoAgent /\ ~Live(t) THEN t
       ELSE SetDetected(t, Seen(agent, "idle", FALSE, TRUE))

\* ... and the pane is given a shell, with a detector of its own.
PaneDies ==
    /\ launched /\ procs > 0 /\ proc = Shell
    /\ launched' = FALSE
    /\ term' = ForgetAgent(DeathOf(term))
    /\ watch' = NewWatch
    /\ over' = {}
    /\ UNCHANGED <<proc, procs, mail, sent>>

-----------------------------------------------------------------------------

Probe == ProbeAgent \/ ProbeNothing \/ ProbeMiss \/ ProbeExit \/ ProbeGone

Next ==
    \/ \E r \in Reporters, s \in Sessions : StartAgent(r, s)
    \/ Exit \/ Send \/ Quit
    \/ \E s \in Sessions : Switch(s)
    \/ Probe \/ Read \/ Reset \/ HoldoffEnds
    \/ HandleNews \/ PaneDies
    \/ \E m \in mail : Deliver(m)

Spec == Init /\ [][Next]_vars

-----------------------------------------------------------------------------
(* Properties.                                                             *)

TypeOK ==
    /\ term \in Terminal /\ watch \in Watch
    /\ proc \in Process /\ procs \in 0..MaxProcs
    /\ proc.by # Nobody => proc.session # NoSession
    /\ mail \subseteq Report /\ sent \in 0..MaxSent
    /\ \A m \in mail : m.kind = "session" => m.session # NoSession
    /\ launched \in BOOLEAN /\ over \subseteq Owner

\* The published state is the one arbitration gives for the hook, the screen and the agent as
\* they are now, however a handler has returned (recompute_effective_state).
PublishedIsArbitrated == term.state = Arbitrated(term)

\* A conversation whose agent has ended, released the pane or left it for another one is not
\* made authoritative again by a report that comes late or twice.
EndedSessionsStayEnded == Live(term) => HookOwner(term) \notin over

Refused(t, e) ==
    \/ t.suppressed[e.by].why # "none" /\ t.suppressed[e.by].session = e.session
    \/ e.session \in t.stale[e.by]

\* Why: each of them is kept as suppressed or stale whatever is detected, released or taken
\* over meanwhile, no reporter is suppressed under its own hook, and the conversation saved
\* for a restart is none of them either.
EndedAreRefused ==
    /\ \A e \in over : e.by \in Lifecycle /\ e.session # NoSession /\ Refused(term, e)
    /\ term.saved \notin over
    /\ Live(term) => /\ HookOwner(term) \notin over
                     /\ term.suppressed[term.hook.by].why = "none"

SameHook == term.hook.by # Nobody /\ term'.hook.by = term.hook.by

InOrder == SameHook => term'.seqs[term.hook.by] >= term.seqs[term.hook.by]

\* While the hook's source has no stale conversation its reports are taken in the order they
\* were numbered: one that comes late or twice changes nothing.
ReportsInOrderAtFirst == [][SameHook /\ term.stale[term.hook.by] = {} => InOrder]_vars
=============================================================================
