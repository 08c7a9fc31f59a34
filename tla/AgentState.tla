----------------------------- MODULE AgentState -----------------------------
(***************************************************************************)
(* What a terminal knows of the agent that runs in it                      *)
(* (src/src/terminal/state.rs): the screen is read and processes are       *)
(* watched by a detector, and the agents' own hooks report states and      *)
(* sessions.  The two arrive late and out of order, and this component     *)
(* decides which of them is published.                                     *)
(*                                                                         *)
(* A reporter is a pair of a hook's source and the label it uses; a source *)
(* reports one label.  A terminal is one record, each handler of the code  *)
(* a function of it.  Instants are not kept: an observation of the         *)
(* detector that waits in the event queue is marked when a hook is taken   *)
(* or a reporter suppressed after it was made, which is all that instants  *)
(* are compared for.                                                       *)
(***************************************************************************)
EXTENDS Integers, Sequences

CONSTANTS
    Reporters,   \* hooks: a source with its agent label
    Agents,      \* agents the detector can name
    Sessions,    \* conversations of the agents
    NoAgent, Nobody, NoSession,
    AgentOf,     \* the agent a reporter's label names, or NoAgent
    Lifecycle,   \* full_lifecycle_hook_authority
    Native,      \* is_reserved_native_state_source: only sessions are taken from it
    Resumable,   \* agent_resume::plan gives a plan
    Replaceable, \* session_start_source_allows_session_replacement
    Rethreading, \* herdr:mastracode
    PathSessions \* sessions named by a path instead of an id

ASSUME NamesAssumption ==
    /\ NoAgent \notin Agents /\ Nobody \notin Reporters /\ NoSession \notin Sessions
    /\ AgentOf \in [Reporters -> Agents \cup {NoAgent}]
    /\ Lifecycle \subseteq Reporters /\ Native \subseteq Reporters
    /\ Lifecycle \cap Native = {}
    /\ \A r \in Lifecycle : AgentOf[r] # NoAgent

States == {"idle", "working", "blocked", "unknown"}
Starts == {"none", "startup", "replace"}

LabelAgent(r) == IF r = Nobody THEN NoAgent ELSE AgentOf[r]

Hook == [by : Reporters \cup {Nobody}, state : States, session : Sessions \cup {NoSession}]
Observation == [agent : Agents \cup {NoAgent}, state : States, blocker : BOOLEAN,
                exited : BOOLEAN, late : BOOLEAN, before : SUBSET Reporters]
Suppression == [why : {"none", "clear", "exit"}, session : Sessions \cup {NoSession}]

NoHook == [by |-> Nobody, state |-> "unknown", session |-> NoSession]
NoOwner == [by |-> Nobody, session |-> NoSession]
Owner == [by : Reporters, session : Sessions] \cup {NoOwner}
NotSuppressed == [why |-> "none", session |-> NoSession]

Terminal ==
    [detected : Agents \cup {NoAgent}, fallback : States, blocker : BOOLEAN,
     fresh : BOOLEAN, hook : Hook, saved : Owner, seqs : [Reporters -> Nat],
     suppressed : [Reporters -> Suppression], stale : [Reporters -> SUBSET Sessions],
     state : States, news : Seq(Observation)]

NewTerminal ==
    [detected |-> NoAgent, fallback |-> "unknown", blocker |-> FALSE, fresh |-> FALSE,
     hook |-> NoHook, saved |-> NoOwner, seqs |-> [r \in Reporters |-> 0],
     suppressed |-> [r \in Reporters |-> NotSuppressed],
     stale |-> [r \in Reporters |-> {}], state |-> "unknown", news |-> <<>>]

-----------------------------------------------------------------------------
(* What is published.                                                      *)

Live(t) == t.hook.by \in Lifecycle

BlockerOverrides(t) ==
    /\ ~Live(t)
    /\ t.blocker /\ t.fresh
    /\ t.hook.by # Nobody /\ t.hook.state # "blocked"
    /\ LabelAgent(t.hook.by) = t.detected

Arbitrated(t) ==
    IF BlockerOverrides(t) THEN "blocked"
    ELSE IF t.hook.by # Nobody THEN t.hook.state ELSE t.fallback

Recompute(t) == [t EXCEPT !.state = Arbitrated(t)]

-----------------------------------------------------------------------------
(* Suppressed and stale reports.                                           *)

SuppressAs(t, r, s, why) ==
    [t EXCEPT !.suppressed[r] = [why |-> why, session |-> s],
              !.news = [i \in DOMAIN t.news |->
                           [t.news[i] EXCEPT !.before = @ \cup {r}]]]

\* The hook's authority ends; an authoritative one is remembered as suppressed.
Withdraw(t, why) ==
    [IF Live(t) THEN SuppressAs(t, t.hook.by, t.hook.session, why) ELSE t
        EXCEPT !.hook = NoHook]

IsSuppressed(t, r, s) ==
    /\ r \in Lifecycle
    /\ LET old == t.suppressed[r] IN
           \/ old.why = "exit"
           \/ old.why = "clear" /\ (IF s = NoSession THEN TRUE ELSE s = old.session)

IsStale(t, r, s) == r \in Lifecycle /\ s \in t.stale[r]

\* A session that was not heard of before the suppression, or differs from all stale ones,
\* starts the count of reports afresh.
Reanchors(t, r, s) ==
    /\ r \in Lifecycle /\ s # NoSession
    /\ \/ /\ t.suppressed[r].why = "clear"
          /\ t.suppressed[r].session \notin {NoSession, s}
       \/ t.stale[r] # {} /\ s \notin t.stale[r]

RememberStale(t, r, s) ==
    IF s = NoSession THEN t ELSE [t EXCEPT !.stale[r] = @ \cup {s}]

\* Mutant of Unsuppress: the suppressed session is forgotten.
UnsuppressAll(t, previous, agent) ==
    IF agent = NoAgent \/ agent = previous THEN t
    ELSE [t EXCEPT !.suppressed = [r \in Reporters |->
             IF AgentOf[r] = agent THEN NotSuppressed ELSE t.suppressed[r]],
                   !.seqs = [r \in Reporters |->
             IF AgentOf[r] = agent THEN 0 ELSE t.seqs[r]]]

\* A freshly detected process of an agent ends the suppression of its reporters; the
\* sessions that were suppressed stay so, and reports are counted from the start.
Unsuppress(t, previous, agent) ==
    IF agent = NoAgent \/ agent = previous THEN t
    ELSE LET cleared == {r \in Reporters : AgentOf[r] = agent /\ t.suppressed[r].why # "none"}
         IN [t EXCEPT
                !.suppressed = [r \in Reporters |->
                    IF r \in cleared THEN NotSuppressed ELSE t.suppressed[r]],
                !.stale = [r \in Reporters |->
                    IF r \in cleared
                    THEN t.stale[r] \cup ({t.suppressed[r].session} \ {NoSession})
                    ELSE t.stale[r]],
                !.seqs = [r \in Reporters |->
                    IF r \in Lifecycle /\ AgentOf[r] = agent THEN 0 ELSE t.seqs[r]]]

-----------------------------------------------------------------------------
(* Who owns the session.                                                   *)

HookOwner(t) == [by |-> t.hook.by, session |-> t.hook.session]

Identity(t) ==
    IF t.hook.by # Nobody /\ t.hook.session # NoSession THEN HookOwner(t) ELSE t.saved

OwnerConflicts(t, r) == Identity(t).by \notin {Nobody, r}

LabelConflicts(t, r) == {t.detected, AgentOf[r]} \cap {NoAgent} = {} /\ AgentOf[r] # t.detected

\* foreground_agent_confirms_session_owner
Confirmed(t, r) == t.detected # NoAgent /\ AgentOf[r] = t.detected /\ r \in Resumable

Allows(r, start) == start = "replace" /\ r \in Replaceable

\* The reporter's own session is another one, and both are named by ids.
HoldsOther(t, r, s, start) ==
    /\ Identity(t).by = r /\ Identity(t).session # s
    /\ {Identity(t).session, s} \cap PathSessions = {}
    /\ ~Allows(r, start)

Rethreads(t, r, s) ==
    /\ t.hook.by = Nobody /\ r \in Rethreading
    /\ t.saved.by = r /\ t.saved.session # s
    /\ {t.saved.session, s} \cap PathSessions = {}

\* Mutant of Accepts: the number is not looked at.
AcceptsAny(t, r, n) == TRUE

\* accept_hook_report: 0 stands for a report without a number.
Accepts(t, r, n) == IF n = 0 THEN t.seqs[r] = 0 ELSE n > t.seqs[r]
Count(t, r, n) == IF n = 0 THEN t ELSE [t EXCEPT !.seqs[r] = n]

-----------------------------------------------------------------------------
(* The handlers.                                                           *)

\* set_detected_state_with_screen_signals_at, for an observation o.
IsIgnored(t, o) ==
    Live(t) /\ ~o.exited /\ o.agent \in {NoAgent, LabelAgent(t.hook.by)}

\* detected_state_observed_before_release_suppression
PrecedesSuppression(t, o) ==
    /\ ~o.exited /\ o.agent # NoAgent
    /\ \E r \in o.before : AgentOf[r] = o.agent /\ t.suppressed[r].why # "none"

HookNotNewer(t, o) == t.hook.by # Nobody /\ ~o.late

\* Mutant of EndHook: the authority is dropped without a trace.
EndHookOnly(t, o) ==
    IF o.exited /\ HookNotNewer(t, o) /\ LabelAgent(t.hook.by) = o.agent
    THEN [t EXCEPT !.hook = NoHook, !.seqs[t.hook.by] = 0]
    ELSE t

\* The process of the hook's agent has ended.
EndHook(t, o) ==
    IF o.exited /\ HookNotNewer(t, o) /\ LabelAgent(t.hook.by) = o.agent
    THEN [Withdraw(t, "exit") EXCEPT !.seqs[t.hook.by] = 0]
    ELSE t

EndSaved(t, o) ==
    IF o.exited /\ t.saved.by # Nobody /\ LabelAgent(t.saved.by) = o.agent
    THEN [t EXCEPT !.saved = NoOwner] ELSE t

\* The detector has found another agent than the hook's, or lost the hook's.
Displace(t, previous, o) ==
    LET of == LabelAgent(t.hook.by) IN
    IF /\ HookNotNewer(t, o)
       /\ \/ NoAgent \notin {o.agent, of} /\ o.agent # of
          \/ previous # NoAgent /\ o.agent # previous /\ of = previous
    THEN [Withdraw(t, "clear") EXCEPT
             !.saved = IF t.hook.session = NoSession THEN NoOwner ELSE HookOwner(t)]
    ELSE t

See(t, o) ==
    [t EXCEPT !.detected = o.agent, !.fallback = o.state,
              !.blocker = o.blocker /\ o.state = "blocked", !.fresh = ~o.late]

SetDetected(t, o) ==
    LET seen == See(t, o)
        told == IF o.exited THEN seen ELSE Unsuppress(seen, t.detected, o.agent)
    IN Recompute(
        IF IsIgnored(t, o)
        THEN IF LabelAgent(t.hook.by) = o.agent THEN [t EXCEPT !.detected = o.agent] ELSE t
        ELSE IF PrecedesSuppression(t, o) THEN t
        ELSE Displace(EndSaved(EndHook(told, o), o), t.detected, o))

\* set_hook_authority_at
TakeHook(t, r, state, s) ==
    LET waking == IF s = NoSession THEN t
                  ELSE [RememberStale(t, r, t.suppressed[r].session)
                          EXCEPT !.suppressed[r] = NotSuppressed]
    IN [waking EXCEPT
           !.saved = NoOwner, !.fresh = FALSE,
           !.hook = [by |-> r, state |-> state, session |-> s],
           !.news = [i \in DOMAIN t.news |-> [t.news[i] EXCEPT !.late = TRUE]]]

SetHook(t, r, state, s, n) ==
    LET held == IF s # NoSession /\ ~Rethreads(t, r, s) /\ HoldsOther(t, r, s, "none")
                THEN Identity(t).session ELSE s
        takeover == OwnerConflicts(t, r)
        counted == IF Reanchors(t, r, s) THEN [t EXCEPT !.seqs[r] = 0] ELSE t
    IN IF \/ IsSuppressed(t, r, s) \/ IsStale(t, r, s) \/ LabelConflicts(t, r)
          \/ takeover /\ (s = NoSession \/ ~Confirmed(t, r))
          \/ /\ Live(t) /\ t.hook.by = r
             /\ NoSession \notin {t.hook.session, held} /\ t.hook.session # held
          \/ ~Accepts(counted, r, n)
       THEN t
       ELSE LET kept == Count(counted, r, n) IN
            Recompute(TakeHook(IF takeover THEN Withdraw(kept, "clear") ELSE kept,
                               r, state, held))

\* set_agent_session_ref_for_session_start
SetSession(t, r, s, n, start) ==
    LET takeover == OwnerConflicts(t, r)
        replaces == Live(t) /\ t.hook.by = r /\ t.hook.session \notin {NoSession, s}
        kept == Count(t, r, n)
        forgot == IF Allows(r, start) \/ takeover
                  THEN [kept EXCEPT !.stale[r] = @ \ {s}] ELSE kept
        left == IF replaces THEN [RememberStale(forgot, r, t.hook.session) EXCEPT !.hook = NoHook]
                ELSE IF takeover THEN Withdraw(forgot, "clear") ELSE forgot
    IN IF ~Accepts(t, r, n) THEN t
       ELSE IF \/ LabelConflicts(t, r)
               \/ takeover /\ (start = "none" \/ ~Confirmed(t, r))
               \/ HoldsOther(t, r, s, start)
               \/ replaces /\ ~Allows(r, start)
       THEN kept
       ELSE Recompute([left EXCEPT !.saved = [by |-> r, session |-> s]])

\* clear_hook_authority_with_mutation, for one source or (Nobody) for any.
ClearHook(t, r, n) ==
    LET source == IF r = Nobody THEN t.hook.by ELSE r
        kept == IF source = Nobody THEN t ELSE Count(t, source, n)
    IN IF source # Nobody /\ ~Accepts(t, source, n) THEN t
       ELSE IF t.hook.by = Nobody \/ t.hook.by # source THEN kept
       ELSE Recompute([Withdraw(kept, "clear") EXCEPT !.saved = NoOwner])

\* release_agent_with_mutation
Labelled(t, r) ==
    IF t.hook.by # Nobody THEN t.hook.by = r
    ELSE AgentOf[r] # NoAgent /\ AgentOf[r] = t.detected

\* Mutant of Release: the state is left as it was.
ReleaseQuietly(t, r, n) ==
    LET kept == Count(t, r, n) IN
    IF ~Accepts(t, r, n) THEN t
    ELSE IF t.hook.by \notin {Nobody, r} \/ (~Labelled(t, r) /\ t.saved.by # r) THEN kept
    ELSE [kept EXCEPT !.detected = NoAgent, !.hook = NoHook, !.saved = NoOwner]

Release(t, r, n) ==
    LET kept == Count(t, r, n)
        quiet == IF r \in Lifecycle THEN SuppressAs(kept, r, t.hook.session, "clear") ELSE kept
    IN IF ~Accepts(t, r, n) THEN t
       ELSE IF \/ t.hook.by \notin {Nobody, r}
               \/ ~Labelled(t, r) /\ t.saved.by # r THEN kept
       ELSE Recompute([quiet EXCEPT
                !.detected = NoAgent, !.fallback = "unknown", !.blocker = FALSE,
                !.fresh = FALSE, !.hook = NoHook,
                !.saved = IF @.by \in {Nobody, r} THEN NoOwner ELSE @])

\* clear_agent_runtime_identity_after_respawn: the counts of the reports are kept.
ForgetAgent(t) ==
    [NewTerminal EXCEPT !.seqs = t.seqs, !.news = t.news]
=============================================================================
