------------------------- MODULE FollowupQueueProofs -------------------------
(***************************************************************************)
(* The queue of follow-ups, for any panes, suggestions and limits: every   *)
(* step either moves the records on or adds one (Shape), from which the    *)
(* properties of the records follow; that a follow-up that waits keeps its *)
(* target is shown for each kind of step.                                  *)
(***************************************************************************)
EXTENDS FollowupQueue, FiniteSetTheorems, TLAPS

\* The record of i moves on, from the queue ts: it is settled, evicted, or stays.
MovesOn(ts, i) ==
    \/ tasks'[i] = ts[i] /\ sends'[i] = IF ts[i] = NoTask THEN 0 ELSE sends[i]
    \/ /\ ts[i].state = "queued"
       /\ tasks'[i].pane = ts[i].pane
       /\ \/ tasks'[i].state \in {"queued", "cancelled"} /\ sends'[i] = sends[i]
          \/ tasks'[i].state = "sent" /\ sends'[i] = sends[i] + 1
    \/ /\ ts[i].state \in {"sent", "cancelled"}
       /\ tasks'[i] = NoTask /\ sends'[i] = 0

\* A record of i is added, for a pane nothing waits for; if need be, a settled one goes.
Adds(i) ==
    /\ NewId(i) /\ RoomToWait
    /\ tasks'[i].state \in {"queued", "sent", "cancelled"}
    /\ sends'[i] = IF tasks'[i].state = "sent" THEN 1 ELSE 0
    /\ \A j \in QueuedIds : tasks[j].pane # tasks'[i].pane
    /\ \/ RoomToKeep
       \/ SettledIds = {}
       \/ \E old \in SettledIds : tasks'[old] = NoTask

Shape ==
    \/ \A i \in Ids : MovesOn(tasks, i)
    \/ \E i \in Ids : Adds(i) /\ \A j \in Ids \ {i} : MovesOn(tasks, j)

-----------------------------------------------------------------------------
(* Flushing.                                                               *)

\* What an attempt to deliver makes of a follow-up that waits; if it still waits, its
\* target still matches and its agent, if seen, has been noted.
LEMMA AttemptOutcome ==
    ASSUME NEW i \in Ids, NEW t \in TaskRecords, NEW x, t.state = "queued"
    PROVE  /\ Attempt(i, t, x) \in TaskRecords
           /\ Attempt(i, t, x).pane = t.pane
           /\ Attempt(i, t, x).state \in {"queued", "sent", "cancelled"}
           /\ Attempt(i, t, x).state = "queued" =>
                 /\ TargetMatches(i, t, x)
                 /\ Attempt(i, t, x).awaiting <=> x.label = NoAgent
<1>1. CASE ~TargetMatches(i, t, x)
  <2>1. Attempt(i, t, x) = [t EXCEPT !.state = "cancelled"]
    BY <1>1 DEF Attempt
  <2> QED BY <2>1 DEF TaskRecords
<1>2. CASE TargetMatches(i, t, x) /\ x.label = NoAgent
  <2>1. Attempt(i, t, x) = t
    BY <1>2 DEF Attempt
  <2>2. t.awaiting = TRUE
    BY <1>2, ConstantsAssumption DEF TargetMatches, TaskRecords
  <2> QED BY <1>2, <2>1, <2>2
<1>3. CASE TargetMatches(i, t, x) /\ x.label # NoAgent
  <2> DEFINE d == Delivery(x)
  <2>1. d \in {"queued", "sent", "cancelled"}
    BY DEF Delivery
  <2>2. Attempt(i, t, x) = [t EXCEPT !.awaiting = FALSE, !.state = d]
    BY <1>3 DEF Attempt
  <2> HIDE DEF d
  <2> QED BY <1>3, <2>1, <2>2 DEF TaskRecords
<1> QED BY <1>1, <1>2, <1>3

\* A flush with the queue ts and the panes ps settles follow-ups and leaves the rest.
LEMMA FlushOutcome ==
    ASSUME NEW ts \in [Ids -> TaskRecords], NEW ps, FlushQueue(ts, ps),
           sends \in [Ids -> Nat]
    PROVE  /\ tasks' \in [Ids -> TaskRecords]
           /\ sends' \in [Ids -> Nat]
           /\ \A i \in Ids : MovesOn(ts, i)
           /\ \A i \in Ids : ts[i].state # "queued" => tasks'[i] = ts[i]
           /\ \A i \in Ids : tasks'[i].state = "queued" =>
                 /\ ts[i].state = "queued"
                 /\ TargetMatches(i, ts[i], ps[ts[i].pane])
                 /\ tasks'[i].pane = ts[i].pane
                 /\ tasks'[i].awaiting <=> ps[ts[i].pane].label = NoAgent
<1>1. ASSUME NEW i \in Ids
      PROVE  /\ tasks'[i] \in TaskRecords
             /\ sends'[i] \in Nat
             /\ MovesOn(ts, i)
             /\ ts[i].state # "queued" => tasks'[i] = ts[i]
             /\ tasks'[i].state = "queued" =>
                 /\ ts[i].state = "queued"
                 /\ TargetMatches(i, ts[i], ps[ts[i].pane])
                 /\ tasks'[i].pane = ts[i].pane
                 /\ tasks'[i].awaiting <=> ps[ts[i].pane].label = NoAgent
  <2>1. sends'[i] = IF ts[i] = NoTask THEN 0
                    ELSE IF ts[i].state = "queued" /\ tasks'[i].state = "sent"
                         THEN sends[i] + 1 ELSE sends[i]
    BY DEF FlushQueue
  <2>2. CASE ts[i].state = "queued"
    <3>1. tasks'[i] = Attempt(i, ts[i], ps[ts[i].pane])
      BY <2>2 DEF FlushQueue, Flushed
    <3>2. ts[i] # NoTask
      BY <2>2 DEF NoTask
    <3>3. ts[i] \in TaskRecords
      OBVIOUS
    <3> DEFINE x == ps[ts[i].pane]
    <3>4. /\ Attempt(i, ts[i], x) \in TaskRecords
          /\ Attempt(i, ts[i], x).pane = ts[i].pane
          /\ Attempt(i, ts[i], x).state \in {"queued", "sent", "cancelled"}
          /\ Attempt(i, ts[i], x).state = "queued" =>
                /\ TargetMatches(i, ts[i], x)
                /\ Attempt(i, ts[i], x).awaiting <=> x.label = NoAgent
      <4> HIDE DEF x
      <4> QED BY <2>2, <3>3, AttemptOutcome, Zenon
    <3> QED BY <2>1, <2>2, <3>1, <3>2, <3>4 DEF MovesOn
  <2>3. CASE ts[i].state # "queued"
    <3>1. tasks'[i] = ts[i]
      BY <2>3 DEF FlushQueue, Flushed
    <3>2. sends'[i] = IF ts[i] = NoTask THEN 0 ELSE sends[i]
      BY <2>1, <2>3
    <3> QED BY <2>3, <3>1, <3>2 DEF MovesOn
  <2> QED BY <2>2, <2>3
<1>2. tasks' = [i \in Ids |-> tasks'[i]] /\ sends' = [i \in Ids |-> sends'[i]]
  BY DEF FlushQueue, Flushed
<1> QED BY <1>1, <1>2

\* Recording the queue ts writes nothing.
LEMMA RecordOutcome ==
    ASSUME NEW ts \in [Ids -> TaskRecords], Record(ts), sends \in [Ids -> Nat]
    PROVE  /\ tasks' = ts
           /\ sends' \in [Ids -> Nat]
           /\ \A i \in Ids : MovesOn(ts, i)
<1>1. /\ tasks' = ts
      /\ \A i \in Ids : sends'[i] = IF ts[i] = NoTask THEN 0 ELSE sends[i]
      /\ sends' = [i \in Ids |-> sends'[i]]
  BY DEF Record
<1> QED BY <1>1 DEF MovesOn

-----------------------------------------------------------------------------
(* The records of panes are well formed.                                   *)

LEMMA PaneTypes ==
    /\ Shell \in PaneRecords /\ Gone \in PaneRecords
    /\ \A x \in PaneRecords : Forgotten(x) \in PaneRecords
    /\ \A x \in PaneRecords, ok \in BOOLEAN : Synced(x, ok) \in PaneRecords
    /\ \A s \in Sessions, ok \in BOOLEAN : Resumed(s, ok) \in PaneRecords
    /\ \A x \in PaneRecords : DraftFlushed(x) \in PaneRecords
    /\ \A p \in Panes : \A x \in PaneRecords : Updated(p, x) \in PaneRecords
<1>1. Shell \in PaneRecords /\ Gone \in PaneRecords
  BY DEF Shell, Gone, Unused, PaneRecords
<1>2. ASSUME NEW x \in PaneRecords, NEW ok \in BOOLEAN PROVE Synced(x, ok) \in PaneRecords
  <2>1. Synced(x, ok) \in {x, [x EXCEPT !.lease = x.session], [x EXCEPT !.lease = NoSession]}
    BY DEF Synced
  <2> QED BY <2>1 DEF PaneRecords
<1>3. ASSUME NEW s \in Sessions, NEW ok \in BOOLEAN PROVE Resumed(s, ok) \in PaneRecords
  <2>1. [Shell EXCEPT !.session = s, !.state = "busy"] \in PaneRecords
    BY DEF Shell, Unused, PaneRecords
  <2> QED BY <1>2, <2>1 DEF Resumed
<1>4. ASSUME NEW x \in PaneRecords PROVE DraftFlushed(x) \in PaneRecords
  BY DEF DraftFlushed, PaneRecords
<1>5. ASSUME NEW p \in Panes, NEW x \in PaneRecords PROVE Updated(p, x) \in PaneRecords
  BY <1>4 DEF Updated
<1>6. ASSUME NEW x \in PaneRecords PROVE Forgotten(x) \in PaneRecords
  BY DEF Forgotten, PaneRecords
<1> QED BY <1>1, <1>2, <1>3, <1>4, <1>5, <1>6

-----------------------------------------------------------------------------
(* Every step moves the records on, or adds one.                           *)

\* What an eviction leaves.
LEMMA EvictionOutcome ==
    ASSUME tasks \in [Ids -> TaskRecords], NEW kept \in Evictions
    PROVE  /\ kept \in [Ids -> TaskRecords]
           /\ \A i \in Ids : kept[i] = tasks[i] \/ (i \in SettledIds /\ kept[i] = NoTask)
           /\ RoomToKeep \/ SettledIds = {} \/ \E old \in SettledIds : kept[old] = NoTask
<1>1. CASE kept = tasks /\ (RoomToKeep \/ SettledIds = {})
  BY <1>1
<1>2. CASE \E old \in SettledIds : kept = [tasks EXCEPT ![old] = NoTask]
  <2>1. NoTask \in TaskRecords
    BY DEF NoTask, TaskRecords
  <2> QED BY <1>2, <2>1 DEF SettledIds, WithState
<1> QED BY <1>1, <1>2 DEF Evictions, Evictable

\* What moves on from what the eviction left, moves on from the queue as it was.
LEMMA MovesOnFromKept ==
    ASSUME NEW ts, NEW i \in Ids, MovesOn(ts, i),
           ts[i] = tasks[i] \/ (i \in SettledIds /\ ts[i] = NoTask)
    PROVE  MovesOn(tasks, i)
<1>1. CASE ts[i] = tasks[i]
  BY <1>1 DEF MovesOn
<1>2. CASE i \in SettledIds /\ ts[i] = NoTask
  <2>1. tasks[i].state \in {"sent", "cancelled"}
    BY <1>2 DEF SettledIds, WithState
  <2>2. ts[i].state = "none"
    BY <1>2 DEF NoTask
  <2>3. tasks'[i] = NoTask /\ sends'[i] = 0
    BY <1>2, <2>2 DEF MovesOn
  <2> QED BY <2>1, <2>3 DEF MovesOn
<1> QED BY <1>1, <1>2

\* A start that keeps what the eviction left.
LEMMA KeptShape ==
    ASSUME TypeOK, NEW kept \in Evictions, Record(kept)
    PROVE  tasks' \in [Ids -> TaskRecords] /\ sends' \in [Ids -> Nat] /\ Shape
<1>1. kept \in [Ids -> TaskRecords] /\ sends \in [Ids -> Nat]
  BY EvictionOutcome DEF TypeOK
<1>2. /\ tasks' = kept /\ sends' \in [Ids -> Nat]
      /\ \A i \in Ids : MovesOn(kept, i)
  BY <1>1, RecordOutcome
<1>3. ASSUME NEW i \in Ids PROVE MovesOn(tasks, i)
  <2>1. kept[i] = tasks[i] \/ (i \in SettledIds /\ kept[i] = NoTask)
    BY EvictionOutcome DEF TypeOK
  <2> QED BY <1>2, <2>1, MovesOnFromKept
<1> QED BY <1>1, <1>2, <1>3 DEF Shape

\* A start that finds the pane p.
LEMMA EnqueueShape ==
    ASSUME TypeOK, SentOnce, NEW i \in Ids, NewId(i), RoomToWait, NEW kept \in Evictions,
           NEW p \in Panes, NEW x \in PaneRecords, NEW awaiting \in BOOLEAN,
           Enqueue(i, kept, p, x, awaiting)
    PROVE  TypeOK' /\ Shape
<1>1. CASE Taken(p, x)
  <2>1. panes' = [panes EXCEPT ![p] = x] /\ Record(kept)
    BY <1>1 DEF Enqueue
  <2> QED BY <2>1, KeptShape DEF TypeOK
<1>2. CASE ~Taken(p, x)
  <2> DEFINE new == [state |-> "queued", pane |-> p, awaiting |-> awaiting]
             ts == [kept EXCEPT ![i] = new]
             ps == [panes EXCEPT ![p] = x]
  <2>1. FlushWith(ts, ps)
    BY <1>2 DEF Enqueue
  <2>2. /\ kept \in [Ids -> TaskRecords]
        /\ \A j \in Ids : kept[j] = tasks[j] \/ (j \in SettledIds /\ kept[j] = NoTask)
        /\ RoomToKeep \/ SettledIds = {} \/ \E old \in SettledIds : kept[old] = NoTask
    BY EvictionOutcome DEF TypeOK
  <2>3. ts \in [Ids -> TaskRecords] /\ sends \in [Ids -> Nat]
    BY <2>2 DEF TaskRecords, TypeOK
  <2>4. ts[i] = new /\ \A j \in Ids \ {i} : ts[j] = kept[j]
    BY <2>2
  <2> HIDE DEF ts
  <2>5. tasks' \in [Ids -> TaskRecords] /\ sends' \in [Ids -> Nat] /\ \A j \in Ids : MovesOn(ts, j)
    BY <2>1, <2>3, FlushOutcome DEF FlushWith
  <2>6. ASSUME NEW j \in Ids \ {i} PROVE MovesOn(tasks, j)
    BY <2>2, <2>4, <2>5, MovesOnFromKept
  <2>7. Adds(i)
    <3>1. tasks[i] = NoTask /\ sends[i] = 0
      BY DEF NewId, SentOnce, NoTask
    <3>2. MovesOn(ts, i) /\ ts[i].state = "queued" /\ ts[i].pane = p
      BY <2>4, <2>5
    <3>3. /\ tasks'[i].pane = p
          /\ tasks'[i].state \in {"queued", "sent", "cancelled"}
          /\ sends'[i] = IF tasks'[i].state = "sent" THEN 1 ELSE 0
      BY <3>1, <3>2 DEF MovesOn, NoTask
    <3>4. \A j \in QueuedIds : tasks[j].pane # p
      BY <1>2 DEF Taken
    <3>5. \A old \in SettledIds : kept[old] = NoTask => tasks'[old] = NoTask
      <4> TAKE old \in SettledIds
      <4>1. old \in Ids /\ old # i
        BY <3>1 DEF SettledIds, WithState, NoTask
      <4>2. MovesOn(ts, old) /\ ts[old] = kept[old]
        BY <2>4, <2>5, <4>1
      <4> QED BY <4>2 DEF MovesOn, NoTask
    <3> QED BY <2>2, <3>3, <3>4, <3>5 DEF Adds
  <2>8. panes' \in [Panes -> PaneRecords]
    BY <2>1 DEF FlushWith, TypeOK
  <2> QED BY <2>5, <2>6, <2>7, <2>8 DEF TypeOK, Shape
<1> QED BY <1>1, <1>2

\* A step that leaves the queue alone.
LEMMA QuietShape ==
    ASSUME TypeOK, SentOnce, UNCHANGED <<tasks, sends>>, panes' \in [Panes -> PaneRecords]
    PROVE  TypeOK' /\ Shape
<1>1. ASSUME NEW i \in Ids PROVE MovesOn(tasks, i)
  BY DEF SentOnce, MovesOn, NoTask
<1> QED BY <1>1 DEF TypeOK, Shape

\* A flush of the queue, some of it cancelled before.
LEMMA FlushShape ==
    ASSUME TypeOK, SentOnce, NEW ts \in [Ids -> TaskRecords], NEW ps \in [Panes -> PaneRecords],
           FlushWith(ts, ps),
           \A i \in Ids : \/ ts[i] = tasks[i]
                          \/ /\ tasks[i].state = "queued"
                             /\ ts[i].state = "cancelled" /\ ts[i].pane = tasks[i].pane
    PROVE  TypeOK' /\ Shape
<1>1. sends \in [Ids -> Nat]
  BY DEF TypeOK
<1>2. tasks' \in [Ids -> TaskRecords] /\ sends' \in [Ids -> Nat] /\ \A i \in Ids : MovesOn(ts, i)
  BY <1>1, FlushOutcome DEF FlushWith
<1>3. ASSUME NEW i \in Ids PROVE MovesOn(tasks, i)
  <2>1. MovesOn(ts, i)
    BY <1>2
  <2>2. CASE ts[i] = tasks[i]
    BY <2>1, <2>2 DEF MovesOn
  <2>3. CASE /\ tasks[i].state = "queued"
             /\ ts[i].state = "cancelled" /\ ts[i].pane = tasks[i].pane
    <3>1. ts[i] # NoTask /\ tasks[i] # NoTask
      BY <2>3 DEF NoTask
    <3>2. tasks'[i] = ts[i]
      BY <1>1, <2>3, FlushOutcome DEF FlushWith
    <3>3. sends'[i] = sends[i]
      BY <2>1, <2>3, <3>1, <3>2 DEF MovesOn
    <3> QED BY <2>3, <3>2, <3>3 DEF MovesOn
  <2> QED BY <2>2, <2>3
<1>4. panes' = ps
  BY DEF FlushWith
<1> QED BY <1>2, <1>3, <1>4 DEF TypeOK, Shape

-----------------------------------------------------------------------------
(* Events.                                                                 *)

\* x, the pane p as an event leaves it, has an agent a follow-up may have waited for only
\* if that agent's session is still the leased one.
Steady(p, x) ==
    /\ x.status = "open" /\ x.channel # "none" /\ panes[p].status = "open"
    /\ \/ x.lease \in {x.session, NoSession}
       \/ x.lease = panes[p].lease /\ x.session = panes[p].session
       \/ panes[p].session = NoSession
       \/ x.label = NoAgent /\ panes[p].label # NoAgent

\* What an agent, a hook or a shell reports is an event that leaves its pane steady.
LEMMA ReportsAreEvents ==
    ASSUME TypeOK, NEW p \in Panes, Reports(p), ~PaneDies(p), ~ChannelChanges(p)
    PROVE  \E x \in PaneRecords : Steady(p, x) /\ Event(p, x)
<1>1. panes[p] \in PaneRecords
  BY DEF TypeOK
<1>2. \A x \in PaneRecords, ok \in BOOLEAN :
         /\ Synced(x, ok) \in PaneRecords
         /\ Synced(x, ok).status = x.status /\ Synced(x, ok).channel = x.channel
         /\ Synced(x, ok).session = x.session
         /\ Synced(x, ok).lease \in {x.session, NoSession}
  BY PaneTypes DEF Synced, PaneRecords
<1>3. ASSUME NEW b \in Backends, AgentAppears(p, b)
      PROVE  \E x \in PaneRecords : Steady(p, x) /\ Event(p, x)
  <2>1. PICK s \in {panes[p].session}
                \cup {live \in Live : panes[p].session = NoSession /\ BackendOf[live] = b
                                       /\ \A q \in Panes : panes[q].session # live} :
          Event(p, [panes[p] EXCEPT !.label = b, !.state = "idle", !.session = s])
    BY <1>3 DEF AgentAppears
  <2> DEFINE x == [panes[p] EXCEPT !.label = b, !.state = "idle", !.session = s]
  <2>2. s \in Sessions \cup {NoSession}
    BY <1>1, ConstantsAssumption DEF PaneRecords
  <2>3. x \in PaneRecords
    BY <1>1, <2>2 DEF PaneRecords
  <2>4. Steady(p, x)
    BY <1>1, <1>3 DEF AgentAppears, Running, IsOpen, Steady, PaneRecords
  <2> QED BY <2>1, <2>3, <2>4
<1>4. ASSUME NEW state \in {"idle", "busy"}, ScreenRead(p, state)
      PROVE  \E x \in PaneRecords : Steady(p, x) /\ Event(p, x)
  <2> DEFINE x == [panes[p] EXCEPT !.state = state]
  <2>1. x \in PaneRecords /\ Steady(p, x)
    BY <1>1, <1>4 DEF ScreenRead, Running, IsOpen, Steady, PaneRecords
  <2> QED BY <1>4, <2>1 DEF ScreenRead
<1>5. ASSUME NEW s \in Sessions, SessionReported(p, s)
      PROVE  \E x \in PaneRecords : Steady(p, x) /\ Event(p, x)
  <2> DEFINE y == [panes[p] EXCEPT !.session = s]
  <2>1. PICK ok \in BOOLEAN : Event(p, Synced(y, ok))
    BY <1>5 DEF SessionReported
  <2>2. y \in PaneRecords /\ y.status = panes[p].status /\ y.channel = panes[p].channel
    BY <1>1 DEF PaneRecords
  <2> HIDE DEF y
  <2>3. Synced(y, ok) \in PaneRecords /\ Steady(p, Synced(y, ok))
    BY <1>2, <1>5, <2>2 DEF SessionReported, MayReport, Running, IsOpen, Steady
  <2> QED BY <2>1, <2>3
<1>6. ASSUME NEW s \in Sessions, NEW state \in {"idle", "busy"}, HookReports(p, s, state)
      PROVE  \E x \in PaneRecords : Steady(p, x) /\ Event(p, x)
  <2> DEFINE y == [panes[p] EXCEPT !.session = s, !.label = BackendOf[s], !.state = state]
  <2>1. PICK ok \in BOOLEAN : Event(p, Synced(y, ok))
    BY <1>6 DEF HookReports
  <2>2. y \in PaneRecords /\ y.status = panes[p].status /\ y.channel = panes[p].channel
    BY <1>1, ConstantsAssumption DEF PaneRecords
  <2> HIDE DEF y
  <2>3. Synced(y, ok) \in PaneRecords /\ Steady(p, Synced(y, ok))
    BY <1>2, <1>6, <2>2 DEF HookReports, MayReport, Running, IsOpen, Steady
  <2> QED BY <2>1, <2>3
<1>7. ASSUME AgentExits(p) PROVE \E x \in PaneRecords : Steady(p, x) /\ Event(p, x)
  <2> DEFINE kept == IF panes[p].session # NoSession /\ panes[p].session \notin Live
                        /\ BackendOf[panes[p].session] = panes[p].label
                     THEN NoSession ELSE panes[p].session
             y == [panes[p] EXCEPT !.state = "idle", !.session = kept]
  <2>1. PICK ok \in BOOLEAN : Event(p, Synced(y, ok))
    BY <1>7 DEF AgentExits
  <2>2. kept \in Sessions \cup {NoSession}
    BY <1>1 DEF PaneRecords
  <2>3. y \in PaneRecords /\ y.status = panes[p].status /\ y.channel = panes[p].channel
    BY <1>1, <2>2 DEF PaneRecords
  <2> HIDE DEF y
  <2>4. Synced(y, ok) \in PaneRecords /\ Steady(p, Synced(y, ok))
    BY <1>2, <1>7, <2>3 DEF AgentExits, Running, IsOpen, Steady
  <2> QED BY <2>1, <2>4
<1>8. ASSUME AgentGone(p) PROVE \E x \in PaneRecords : Steady(p, x) /\ Event(p, x)
  <2> DEFINE kept == IF panes[p].session \in Live THEN NoSession ELSE panes[p].session
             x == [panes[p] EXCEPT !.label = NoAgent, !.state = "unknown", !.session = kept]
  <2>1. Event(p, x)
    BY <1>8 DEF AgentGone
  <2>2. kept \in Sessions \cup {NoSession}
    BY <1>1 DEF PaneRecords
  <2>3. x \in PaneRecords /\ Steady(p, x)
    BY <1>1, <1>8, <2>2 DEF AgentGone, Running, IsOpen, Steady, PaneRecords
  <2> QED BY <2>1, <2>3
<1>9. ASSUME CwdReported(p) PROVE \E x \in PaneRecords : Steady(p, x) /\ Event(p, x)
  <2>1. PICK ok \in BOOLEAN : Event(p, Synced(panes[p], ok))
    BY <1>9 DEF CwdReported
  <2>2. Synced(panes[p], ok) \in PaneRecords /\ Steady(p, Synced(panes[p], ok))
    BY <1>1, <1>2, <1>9 DEF CwdReported, Running, IsOpen, Steady
  <2> QED BY <2>1, <2>2
<1>10. ASSUME HookReleases(p) PROVE \E x \in PaneRecords : Steady(p, x) /\ Event(p, x)
  <2>1. PICK y \in PaneRecords, ok \in BOOLEAN :
           /\ Event(p, Synced(y, ok))
           /\ y.status = panes[p].status /\ y.channel = panes[p].channel
    <3>1. ASSUME NEW ok \in BOOLEAN, NEW s \in {NoSession} \cup ({panes[p].session} \ Live)
          PROVE  LET y == [panes[p] EXCEPT !.label = NoAgent, !.state = "unknown", !.session = s]
                 IN  /\ y \in PaneRecords
                     /\ y.status = panes[p].status /\ y.channel = panes[p].channel
      BY <1>1, <3>1 DEF PaneRecords
    <3>2. ASSUME NEW state \in {"idle", "busy"}
          PROVE  LET y == [panes[p] EXCEPT !.session = NoSession, !.state = state]
                 IN  /\ y \in PaneRecords
                     /\ y.status = panes[p].status /\ y.channel = panes[p].channel
      BY <1>1, <3>2 DEF PaneRecords
    <3> QED BY <1>10, <3>1, <3>2 DEF HookReleases
  <2>2. Synced(y, ok) \in PaneRecords /\ Steady(p, Synced(y, ok))
    BY <1>2, <1>10, <2>1 DEF HookReleases, Running, IsOpen, Steady
  <2> QED BY <2>1, <2>2
<1> QED BY <1>3, <1>4, <1>5, <1>6, <1>7, <1>8, <1>9, <1>10 DEF Reports

\* An event moves the records on.
LEMMA EventShape ==
    ASSUME TypeOK, SentOnce, NEW p \in Panes, NEW x \in PaneRecords, Event(p, x)
    PROVE  TypeOK' /\ Shape
<1> DEFINE ps == [panes EXCEPT ![p] = Updated(p, x)]
<1>1. ps \in [Panes -> PaneRecords]
  BY PaneTypes DEF TypeOK
<1>2. FlushWith(tasks, ps)
  BY DEF Event
<1> HIDE DEF ps
<1> QED BY <1>1, <1>2, FlushShape DEF TypeOK

\* What a follow-up that waits needs of its pane x.
Held(i, t, x) ==
    \/ x.status = "gone"
    \/ /\ x.status = "open" /\ x.channel # "none"
       /\ x.lease = SessionOf[i] /\ x.session = x.lease
       /\ x.label \in {BackendOf[SessionOf[i]], NoAgent}
       /\ t.awaiting <=> x.label = NoAgent

\* An event cancels the follow-ups whose target it takes away.
LEMMA EventKeepsTargets ==
    ASSUME TypeOK, WaitingKeepsItsTarget, NEW p \in Panes, NEW x \in PaneRecords,
           Steady(p, x), Event(p, x)
    PROVE  WaitingKeepsItsTarget'
<1> DEFINE y == Updated(p, x)
           ps == [panes EXCEPT ![p] = y]
<1>1. /\ y.status = x.status /\ y.channel = x.channel /\ y.lease = x.lease
      /\ y.session = x.session /\ y.label = x.label
  BY DEF Updated, DraftFlushed, PaneRecords
<1>2. ps[p] = y /\ \A q \in Panes \ {p} : ps[q] = panes[q]
  BY DEF TypeOK
<1>3. FlushWith(tasks, ps) /\ panes' = ps
  BY DEF Event, FlushWith
<1> HIDE DEF y, ps
<1>4. SUFFICES ASSUME NEW i \in Ids, tasks'[i].state = "queued"
               PROVE  tasks'[i].pane \in Panes /\ Held(i, tasks'[i], panes'[tasks'[i].pane])
  BY DEF WaitingKeepsItsTarget, QueuedIds, WithState, Held
<1> DEFINE q == tasks[i].pane
<1>5. /\ tasks[i].state = "queued"
      /\ TargetMatches(i, tasks[i], ps[q])
      /\ tasks'[i].pane = q
      /\ tasks'[i].awaiting <=> ps[q].label = NoAgent
  BY <1>3, <1>4, FlushOutcome DEF FlushWith, TypeOK
<1>6. q \in Panes /\ Held(i, tasks[i], panes[q])
  BY <1>5 DEF WaitingKeepsItsTarget, QueuedIds, WithState, Held
<1>7. /\ ps[q].status = "open" /\ ps[q].lease = SessionOf[i]
      /\ ps[q].label \in {BackendOf[SessionOf[i]], NoAgent}
      /\ ps[q].label = NoAgent => tasks[i].awaiting
  BY <1>5, ConstantsAssumption DEF TargetMatches
<1>8. CASE q # p
  BY <1>2, <1>3, <1>5, <1>6, <1>7, <1>8 DEF Held
<1>9. CASE q = p
  <2>1. SessionOf[i] # NoSession
    BY ConstantsAssumption
  <2>2. panes[p].lease = SessionOf[i] /\ panes[p].session = SessionOf[i]
    BY <1>6, <1>9 DEF Held, Steady
  <2>3. x.label = NoAgent => panes[p].label = NoAgent
    BY <1>1, <1>2, <1>6, <1>7, <1>9 DEF Held, Steady
  <2>4. x.session = x.lease /\ x.channel # "none"
    BY <1>1, <1>2, <1>7, <1>9, <2>1, <2>2, <2>3 DEF Steady
  <2> QED BY <1>1, <1>2, <1>3, <1>5, <1>6, <1>7, <1>9, <2>4 DEF Held
<1> QED BY <1>8, <1>9

\* A change of one pane only, while nothing is added to the queue: the pane is closed, or
\* nothing waits for it, or it is the same to what waits for it.
LEMMA ChangeKeepsTargets ==
    ASSUME TypeOK, WaitingKeepsItsTarget, NEW p \in Panes, NEW x,
           panes' = [panes EXCEPT ![p] = x],
           \A i \in Ids : tasks'[i].state = "queued" => tasks'[i] = tasks[i],
           \/ x.status = "gone"
           \/ \A i \in Ids : tasks'[i].state = "queued" => tasks'[i].pane # p
           \/ /\ x.status = panes[p].status /\ x.lease = panes[p].lease
              /\ x.session = panes[p].session /\ x.label = panes[p].label
              /\ x.channel # "none"
    PROVE  WaitingKeepsItsTarget'
<1>1. panes'[p] = x /\ \A q \in Panes \ {p} : panes'[q] = panes[q]
  BY DEF TypeOK
<1>2. SUFFICES ASSUME NEW i \in Ids, tasks'[i].state = "queued"
               PROVE  tasks'[i].pane \in Panes /\ Held(i, tasks'[i], panes'[tasks'[i].pane])
  BY DEF WaitingKeepsItsTarget, QueuedIds, WithState, Held
<1> DEFINE q == tasks[i].pane
<1>3. tasks'[i] = tasks[i] /\ tasks[i].state = "queued"
  BY <1>2
<1>4. q \in Panes /\ Held(i, tasks[i], panes[q])
  BY <1>3 DEF WaitingKeepsItsTarget, QueuedIds, WithState, Held
<1>5. CASE q # p
  BY <1>1, <1>3, <1>4, <1>5
<1>6. CASE q = p
  BY <1>1, <1>2, <1>3, <1>4, <1>6 DEF Held
<1> QED BY <1>3, <1>4, <1>5, <1>6

\* Nothing waits for a pane that is not open or has no input channel yet, unless it is gone.
LEMMA NothingWaits ==
    ASSUME WaitingKeepsItsTarget, NEW p,
           panes[p].status # "gone", panes[p].status # "open" \/ panes[p].channel = "none"
    PROVE  \A i \in Ids : tasks[i].state = "queued" => tasks[i].pane # p
BY DEF WaitingKeepsItsTarget, QueuedIds, WithState

-----------------------------------------------------------------------------
(* Starts.                                                                 *)

\* A started follow-up finds its target ready, and what waited there before keeps it.
LEMMA EnqueueKeepsTargets ==
    ASSUME TypeOK, WaitingKeepsItsTarget, NEW i \in Ids, NEW kept \in Evictions,
           NEW p \in Panes, NEW x \in PaneRecords, NEW awaiting \in BOOLEAN,
           x.status = "open", x.channel # "none", x.lease \in {x.session, NoSession},
           \A j \in QueuedIds : tasks[j].pane = p => x = panes[p],
           Enqueue(i, kept, p, x, awaiting)
    PROVE  WaitingKeepsItsTarget'
<1>1. /\ kept \in [Ids -> TaskRecords]
      /\ \A j \in Ids : kept[j].state = "queued" => kept[j] = tasks[j]
  BY EvictionOutcome DEF TypeOK, NoTask
<1>2. CASE Taken(p, x)
  <2>1. panes' = [panes EXCEPT ![p] = x] /\ tasks' = kept
    BY <1>2 DEF Enqueue, Record
  <2>2. \A j \in Ids : tasks'[j].state = "queued" => tasks'[j] = tasks[j]
    BY <1>1, <2>1
  <2>3. CASE \A j \in QueuedIds : tasks[j].pane # p
    <3>1. \A j \in Ids : tasks'[j].state = "queued" => tasks'[j].pane # p
      BY <2>2, <2>3 DEF QueuedIds, WithState
    <3> QED BY <2>1, <2>2, <3>1, ChangeKeepsTargets
  <2>4. CASE x = panes[p]
    BY <2>1, <2>2, <2>4, ChangeKeepsTargets
  <2> QED BY <2>3, <2>4
<1>3. CASE ~Taken(p, x)
  <2> DEFINE new == [state |-> "queued", pane |-> p, awaiting |-> awaiting]
             ts == [kept EXCEPT ![i] = new]
             ps == [panes EXCEPT ![p] = x]
  <2>1. FlushWith(ts, ps) /\ panes' = ps
    BY <1>3 DEF Enqueue, FlushWith
  <2>2. ts \in [Ids -> TaskRecords] /\ sends \in [Ids -> Nat]
    BY <1>1 DEF TaskRecords, TypeOK
  <2>3. ts[i] = new /\ \A j \in Ids \ {i} : ts[j] = kept[j]
    BY <1>1
  <2>4. ps[p] = x /\ \A q \in Panes \ {p} : ps[q] = panes[q]
    BY DEF TypeOK
  <2> HIDE DEF ts, ps
  <2>5. SUFFICES ASSUME NEW j \in Ids, tasks'[j].state = "queued"
                 PROVE  tasks'[j].pane \in Panes /\ Held(j, tasks'[j], panes'[tasks'[j].pane])
    BY DEF WaitingKeepsItsTarget, QueuedIds, WithState, Held
  <2> DEFINE q == ts[j].pane
  <2>6. /\ ts[j].state = "queued"
        /\ TargetMatches(j, ts[j], ps[q])
        /\ tasks'[j].pane = q
        /\ tasks'[j].awaiting <=> ps[q].label = NoAgent
    BY <2>1, <2>2, <2>5, FlushOutcome DEF FlushWith
  <2>7. /\ ps[q].status = "open" /\ ps[q].lease = SessionOf[j]
        /\ ps[q].label \in {BackendOf[SessionOf[j]], NoAgent}
    BY <2>6 DEF TargetMatches
  <2>8. CASE j = i
    <3>1. q = p /\ ps[q] = x
      BY <2>3, <2>4, <2>8
    <3>2. x.lease = x.session
      BY <2>7, <3>1, ConstantsAssumption
    <3> QED BY <2>1, <2>6, <2>7, <3>1, <3>2 DEF Held
  <2>9. CASE j # i
    <3>1. ts[j] = tasks[j] /\ j \in QueuedIds
      BY <1>1, <2>3, <2>6, <2>9 DEF QueuedIds, WithState
    <3>2. q \in Panes /\ Held(j, tasks[j], panes[q])
      BY <3>1 DEF WaitingKeepsItsTarget, Held
    <3>3. q # p
      BY <1>3, <3>1 DEF Taken
    <3> QED BY <2>1, <2>4, <2>6, <2>7, <3>2, <3>3 DEF Held
  <2> QED BY <2>8, <2>9
<1> QED BY <1>2, <1>3

\* The pane a start opens or finds has an agent or a shell that takes input.
LEMMA StartOutcome ==
    ASSUME TypeOK, SentOnce, WaitingKeepsItsTarget, NEW i \in Ids, Start(i)
    PROVE  TypeOK' /\ Shape /\ WaitingKeepsItsTarget'
<1>1. PICK kept \in Evictions, ok \in BOOLEAN :
          \/ \E p \in Targets(SessionOf[i]) :
                ToRunning(i, kept, p, ok) \/ ToRestored(i, kept, p, ok) \/ RestoreFails(kept, p, ok)
          \/ /\ Targets(SessionOf[i]) = {}
             /\ ResumeFails(kept) \/ \E p \in Panes : ToResumed(i, kept, p, ok)
  BY DEF Start
<1>2. NewId(i) /\ RoomToWait
  BY DEF Start
<1>3. \A x \in PaneRecords :
         /\ Synced(x, ok) \in PaneRecords
         /\ Synced(x, ok).status = x.status /\ Synced(x, ok).channel = x.channel
         /\ Synced(x, ok).session = x.session
         /\ Synced(x, ok).lease \in {x.session, NoSession}
         /\ x.lease = x.session => Synced(x, ok) = x
  BY PaneTypes DEF Synced, PaneRecords
<1>4. \A p \in Targets(SessionOf[i]) : p \in Panes /\ panes[p].status = "open" /\ panes[p] \in PaneRecords
  BY DEF Targets, IsOpen, TypeOK
<1>5. ASSUME NEW p \in Targets(SessionOf[i]), ToRunning(i, kept, p, ok)
      PROVE  TypeOK' /\ Shape /\ WaitingKeepsItsTarget'
  <2> DEFINE x == Synced(panes[p], ok)
  <2>1. /\ x \in PaneRecords /\ x.status = "open" /\ x.channel # "none"
        /\ x.lease \in {x.session, NoSession}
        /\ p \in Panes /\ Enqueue(i, kept, p, x, FALSE)
    BY <1>3, <1>4, <1>5 DEF ToRunning
  <2>2. \A j \in QueuedIds : tasks[j].pane = p => x = panes[p]
    BY <1>3, <1>4 DEF WaitingKeepsItsTarget
  <2> HIDE DEF x
  <2>3. TypeOK' /\ Shape
    BY <1>2, <2>1, EnqueueShape
  <2>4. WaitingKeepsItsTarget'
    BY <2>1, <2>2, EnqueueKeepsTargets
  <2> QED BY <2>3, <2>4
<1>6. ASSUME NEW p \in Targets(SessionOf[i]), ToRestored(i, kept, p, ok)
      PROVE  TypeOK' /\ Shape /\ WaitingKeepsItsTarget'
  <2> DEFINE y == Synced(panes[p], ok)
             x == [y EXCEPT !.channel = "free", !.state = "busy"]
  <2>1. /\ y \in PaneRecords /\ y.status = "open" /\ y.lease \in {y.session, NoSession}
        /\ p \in Panes /\ Enqueue(i, kept, p, x, TRUE) /\ panes[p].channel = "none"
    BY <1>3, <1>4, <1>6 DEF ToRestored
  <2> HIDE DEF y
  <2>2. /\ x \in PaneRecords /\ x.status = "open" /\ x.channel # "none"
        /\ x.lease \in {x.session, NoSession}
    BY <2>1 DEF PaneRecords
  <2>3. \A j \in QueuedIds : tasks[j].pane # p
    BY <1>4, <2>1, NothingWaits DEF QueuedIds, WithState
  <2> HIDE DEF x
  <2>4. TypeOK' /\ Shape
    BY <1>2, <2>1, <2>2, EnqueueShape
  <2>5. WaitingKeepsItsTarget'
    BY <2>1, <2>2, <2>3, EnqueueKeepsTargets
  <2> QED BY <2>4, <2>5
<1>7. ASSUME NEW p \in Targets(SessionOf[i]), RestoreFails(kept, p, ok)
      PROVE  TypeOK' /\ Shape /\ WaitingKeepsItsTarget'
  <2> DEFINE y == Synced(panes[p], ok)
  <2>1. y \in PaneRecords /\ p \in Panes /\ panes[p].channel = "none"
    BY <1>3, <1>4, <1>7 DEF RestoreFails
  <2>2. Record(kept) /\ \E x \in {y, Forgotten(y)} : panes' = [panes EXCEPT ![p] = x]
    BY <1>7 DEF RestoreFails
  <2> HIDE DEF y
  <2>3. PICK x \in PaneRecords : panes' = [panes EXCEPT ![p] = x]
    BY <2>1, <2>2, PaneTypes
  <2>4. \A j \in Ids : tasks[j].state = "queued" => tasks[j].pane # p
    BY <1>4, <2>1, NothingWaits
  <2>5. \A j \in Ids : tasks'[j].state = "queued" => tasks'[j] = tasks[j]
    BY <2>2, EvictionOutcome DEF TypeOK, NoTask, Record
  <2>6. TypeOK' /\ Shape
    BY <2>1, <2>2, <2>3, KeptShape DEF TypeOK
  <2>7. WaitingKeepsItsTarget'
    BY <2>1, <2>3, <2>4, <2>5, ChangeKeepsTargets
  <2> QED BY <2>6, <2>7
<1>8. ASSUME ResumeFails(kept) PROVE TypeOK' /\ Shape /\ WaitingKeepsItsTarget'
  <2>1. TypeOK' /\ Shape
    BY <1>8, KeptShape DEF ResumeFails, TypeOK
  <2>2. \A j \in Ids : tasks'[j].state = "queued" => tasks'[j] = tasks[j]
    BY <1>8, EvictionOutcome DEF TypeOK, NoTask, ResumeFails, Record
  <2>3. WaitingKeepsItsTarget'
    BY <1>8, <2>2 DEF ResumeFails, WaitingKeepsItsTarget, QueuedIds, WithState
  <2> QED BY <2>1, <2>3
<1>9. ASSUME NEW p \in Panes, ToResumed(i, kept, p, ok)
      PROVE  TypeOK' /\ Shape /\ WaitingKeepsItsTarget'
  <2> DEFINE y == [Shell EXCEPT !.session = SessionOf[i], !.state = "busy"]
             x == Resumed(SessionOf[i], ok)
  <2>1. SessionOf[i] \in Sessions
    BY ConstantsAssumption
  <2>2. y \in PaneRecords /\ y.status = "open" /\ y.channel = "free"
    BY <2>1 DEF Shell, Unused, PaneRecords
  <2>3. x = Synced(y, ok)
    BY DEF Resumed
  <2> HIDE DEF y, x
  <2>4. /\ x \in PaneRecords /\ x.status = "open" /\ x.channel # "none"
        /\ x.lease \in {x.session, NoSession}
    BY <1>3, <2>2, <2>3
  <2>5. panes[p].status = "unused" /\ Enqueue(i, kept, p, x, TRUE)
    BY <1>9 DEF ToResumed, x
  <2>6. \A j \in QueuedIds : tasks[j].pane # p
    BY <2>5, NothingWaits DEF QueuedIds, WithState
  <2>7. TypeOK' /\ Shape
    BY <1>2, <2>4, <2>5, EnqueueShape
  <2>8. WaitingKeepsItsTarget'
    BY <2>4, <2>5, <2>6, EnqueueKeepsTargets
  <2> QED BY <2>7, <2>8
<1> QED BY <1>1, <1>5, <1>6, <1>7, <1>8, <1>9

-----------------------------------------------------------------------------
(* Every step.                                                             *)

\* A draft goes to a live pane.
DraftGoes(s, p) ==
    /\ IsOpen(p)
    /\ panes' = [panes EXCEPT ![p] = DraftFlushed([@ EXCEPT !.draft = s])]

\* What holds of a step in every case.
StepHolds == TypeOK' /\ Shape /\ WaitingKeepsItsTarget'

\* The requests about drafts and panes: they leave the queue alone.
LEMMA RequestHolds ==
    ASSUME TypeOK, SentOnce, WaitingKeepsItsTarget,
           \/ \E s \in Sessions : SubmitDraft(s)
           \/ \E p \in Panes : OpenPane(p) \/ ClosePane(p) \/ StartRestored(p) \/ ChannelChanges(p)
    PROVE  StepHolds
<1>1. UNCHANGED <<tasks, sends>>
  BY DEF SubmitDraft, OpenPane, ClosePane, StartRestored, ChannelChanges
<1>2. SUFFICES \E p \in Panes, x \in PaneRecords :
         /\ panes' = [panes EXCEPT ![p] = x]
         /\ \/ x.status = "gone"
            \/ \A i \in Ids : tasks[i].state = "queued" => tasks[i].pane # p
            \/ /\ x.status = panes[p].status /\ x.lease = panes[p].lease
               /\ x.session = panes[p].session /\ x.label = panes[p].label
               /\ x.channel # "none"
  <2>1. PICK p \in Panes, x \in PaneRecords :
         /\ panes' = [panes EXCEPT ![p] = x]
         /\ \/ x.status = "gone"
            \/ \A i \in Ids : tasks[i].state = "queued" => tasks[i].pane # p
            \/ /\ x.status = panes[p].status /\ x.lease = panes[p].lease
               /\ x.session = panes[p].session /\ x.label = panes[p].label
               /\ x.channel # "none"
    BY <1>2
  <2>2. panes' \in [Panes -> PaneRecords]
    BY <2>1 DEF TypeOK
  <2>3. TypeOK' /\ Shape
    BY <1>1, <2>2, QuietShape
  <2>4. WaitingKeepsItsTarget'
    BY <1>1, <2>1, ChangeKeepsTargets
  <2> QED BY <2>3, <2>4 DEF StepHolds
<1>3. \A p \in Panes : panes[p] \in PaneRecords
  BY DEF TypeOK
<1>4. ASSUME NEW s \in Sessions, NEW p \in Panes, DraftGoes(s, p)
      PROVE  \E x \in PaneRecords :
         /\ panes' = [panes EXCEPT ![p] = x]
         /\ \/ \A i \in Ids : tasks[i].state = "queued" => tasks[i].pane # p
            \/ /\ x.status = panes[p].status /\ x.lease = panes[p].lease
               /\ x.session = panes[p].session /\ x.label = panes[p].label
               /\ x.channel # "none"
  <2> DEFINE y == [panes[p] EXCEPT !.draft = s]
             x == DraftFlushed(y)
  <2>1. /\ y \in PaneRecords /\ y.status = panes[p].status /\ y.lease = panes[p].lease
        /\ y.session = panes[p].session /\ y.label = panes[p].label
        /\ y.channel = panes[p].channel
    BY <1>3 DEF PaneRecords
  <2>2. panes' = [panes EXCEPT ![p] = x]
    BY <1>4 DEF DraftGoes
  <2> HIDE DEF y
  <2>3. /\ x \in PaneRecords /\ x.status = panes[p].status /\ x.lease = panes[p].lease
        /\ x.session = panes[p].session /\ x.label = panes[p].label
        /\ x.channel = panes[p].channel
    BY <2>1, PaneTypes DEF DraftFlushed, PaneRecords
  <2>4. x.channel = "none" => \A i \in Ids : tasks[i].state = "queued" => tasks[i].pane # p
    BY <1>4, <2>3, NothingWaits DEF IsOpen, DraftGoes
  <2> QED BY <2>2, <2>3, <2>4
<1>5. ASSUME NEW s \in Sessions, NEW p \in Panes, NEW ok \in BOOLEAN,
             NEW draft \in {NoSession} \cup ({s} \cap Drafted), panes[p].status = "unused",
             panes' = [panes EXCEPT ![p] = [Resumed(s, ok) EXCEPT !.draft = draft]]
      PROVE  \E x \in PaneRecords :
         /\ panes' = [panes EXCEPT ![p] = x]
         /\ \A i \in Ids : tasks[i].state = "queued" => tasks[i].pane # p
  <2>1. Resumed(s, ok) \in PaneRecords
    BY PaneTypes
  <2>2. [Resumed(s, ok) EXCEPT !.draft = draft] \in PaneRecords
    BY <2>1 DEF PaneRecords
  <2>3. \A i \in Ids : tasks[i].state = "queued" => tasks[i].pane # p
    BY <1>5, NothingWaits
  <2> QED BY <1>5, <2>2, <2>3
<1>6. CASE \E s \in Sessions : SubmitDraft(s)
  <2>1. PICK s \in Sessions : SubmitDraft(s)
    BY <1>6
  <2>2. CASE \E p \in Panes : DraftGoes(s, p)
    BY <1>4, <2>2
  <2>3. CASE \E p \in Panes, ok \in BOOLEAN, draft \in {NoSession} \cup ({s} \cap Drafted) :
                /\ panes[p].status = "unused"
                /\ panes' = [panes EXCEPT ![p] = [Resumed(s, ok) EXCEPT !.draft = draft]]
    <3>1. PICK p \in Panes, ok \in BOOLEAN, draft \in {NoSession} \cup ({s} \cap Drafted) :
                /\ panes[p].status = "unused"
                /\ panes' = [panes EXCEPT ![p] = [Resumed(s, ok) EXCEPT !.draft = draft]]
      BY <2>3
    <3>2. PICK x \in PaneRecords :
                /\ panes' = [panes EXCEPT ![p] = x]
                /\ \A i \in Ids : tasks[i].state = "queued" => tasks[i].pane # p
      BY <1>5, <3>1
    <3> QED BY <3>2
  <2> QED BY <2>1, <2>2, <2>3 DEF SubmitDraft, DraftGoes
<1>7. ASSUME NEW p \in Panes, OpenPane(p)
      PROVE  \E x \in PaneRecords :
         /\ panes' = [panes EXCEPT ![p] = x]
         /\ \A i \in Ids : tasks[i].state = "queued" => tasks[i].pane # p
  BY <1>7, NothingWaits, PaneTypes DEF OpenPane
<1>8. ASSUME NEW p \in Panes, ClosePane(p)
      PROVE  \E x \in PaneRecords : panes' = [panes EXCEPT ![p] = x] /\ x.status = "gone"
  <2> DEFINE x == [Gone EXCEPT !.draft = panes[p].draft]
  <2>1. x \in PaneRecords /\ x.status = "gone"
    BY <1>3 DEF Gone, Unused, PaneRecords
  <2>2. panes' = [panes EXCEPT ![p] = x]
    BY <1>8 DEF ClosePane, TypeOK
  <2> QED BY <2>1, <2>2
<1>9. ASSUME NEW p \in Panes, StartRestored(p)
      PROVE  \E x \in PaneRecords :
         /\ panes' = [panes EXCEPT ![p] = x]
         /\ \A i \in Ids : tasks[i].state = "queued" => tasks[i].pane # p
  <2>1. \E x \in PaneRecords : panes' = [panes EXCEPT ![p] = x]
    <3>1. [panes[p] EXCEPT !.channel = "free"] \in PaneRecords
      BY <1>3 DEF PaneRecords
    <3>2. Forgotten(panes[p]) \in PaneRecords
      BY <1>3, PaneTypes
    <3> QED BY <1>9, <3>1, <3>2 DEF StartRestored
  <2>2. \A i \in Ids : tasks[i].state = "queued" => tasks[i].pane # p
    BY <1>9, NothingWaits DEF StartRestored, IsOpen
  <2> QED BY <2>1, <2>2
<1>10. ASSUME NEW p \in Panes, ChannelChanges(p)
       PROVE  \E x \in PaneRecords :
         /\ panes' = [panes EXCEPT ![p] = x]
         /\ x.status = panes[p].status /\ x.lease = panes[p].lease
         /\ x.session = panes[p].session /\ x.label = panes[p].label
         /\ x.channel # "none"
  <2>1. PICK c \in {"free", "full", "closed"} : panes' = [panes EXCEPT ![p].channel = c]
    BY <1>10 DEF ChannelChanges
  <2> DEFINE x == [panes[p] EXCEPT !.channel = c]
  <2>2. x \in PaneRecords /\ panes' = [panes EXCEPT ![p] = x]
    BY <1>3, <2>1 DEF PaneRecords
  <2>3. /\ x.status = panes[p].status /\ x.lease = panes[p].lease
        /\ x.session = panes[p].session /\ x.label = panes[p].label /\ x.channel # "none"
    BY <1>3 DEF PaneRecords
  <2> QED BY <2>2, <2>3
<1> QED BY <1>6, <1>7, <1>8, <1>9, <1>10

\* A process that ends cancels what waits for its pane.
LEMMA DeathHolds ==
    ASSUME TypeOK, SentOnce, WaitingKeepsItsTarget, NEW p \in Panes, PaneDies(p)
    PROVE  StepHolds
<1> DEFINE ts == CancelledFor(p)
           x == Gone
<1>1. panes[p] \in PaneRecords /\ sends \in [Ids -> Nat]
  BY DEF TypeOK
<1>2. /\ ts \in [Ids -> TaskRecords]
      /\ \A i \in Ids : \/ ts[i] = tasks[i]
                        \/ /\ tasks[i].state = "queued"
                           /\ ts[i].state = "cancelled" /\ ts[i].pane = tasks[i].pane
      /\ \A i \in Ids : ts[i].state = "queued" => ts[i] = tasks[i] /\ tasks[i].pane # p
  <2>1. ASSUME NEW i \in Ids
        PROVE  /\ ts[i] \in TaskRecords
               /\ \/ ts[i] = tasks[i]
                  \/ /\ tasks[i].state = "queued"
                     /\ ts[i].state = "cancelled" /\ ts[i].pane = tasks[i].pane
               /\ ts[i].state = "queued" => ts[i] = tasks[i] /\ tasks[i].pane # p
    <3>1. tasks[i] \in TaskRecords
      BY DEF TypeOK
    <3>2. CASE tasks[i].state = "queued" /\ tasks[i].pane = p
      <4>1. ts[i] = [tasks[i] EXCEPT !.state = "cancelled"]
        BY <3>2 DEF CancelledFor
      <4> QED BY <3>1, <3>2, <4>1 DEF TaskRecords
    <3>3. CASE ~(tasks[i].state = "queued" /\ tasks[i].pane = p)
      <4>1. ts[i] = tasks[i]
        BY <3>3 DEF CancelledFor
      <4> QED BY <3>1, <3>3, <4>1
    <3> QED BY <3>2, <3>3
  <2>2. ts = [i \in Ids |-> ts[i]]
    BY DEF CancelledFor
  <2> HIDE DEF ts
  <2> QED BY <2>1, <2>2
<1>3. Shell \in PaneRecords /\ x \in PaneRecords /\ x.status = "gone"
  BY PaneTypes DEF Gone, Unused
<1>4. \/ panes' = [panes EXCEPT ![p] = Shell] /\ Record(ts)
      \/ FlushWith(ts, [panes EXCEPT ![p] = x])
  BY DEF PaneDies, TypeOK
<1> HIDE DEF ts, x
<1>5. CASE panes' = [panes EXCEPT ![p] = Shell] /\ Record(ts)
  <2>1. /\ tasks' = ts /\ sends' \in [Ids -> Nat]
        /\ \A i \in Ids : MovesOn(ts, i)
    BY <1>1, <1>2, <1>5, RecordOutcome
  <2>2. ASSUME NEW i \in Ids PROVE MovesOn(tasks, i)
    <3>1. CASE ts[i] = tasks[i]
      BY <2>1, <3>1 DEF MovesOn
    <3>2. CASE ts[i] # tasks[i]
      <4>1. ts[i] # NoTask /\ ts[i].state = "cancelled" /\ tasks'[i] = ts[i]
        BY <1>2, <2>1, <3>2 DEF NoTask
      <4>2. sends'[i] = sends[i]
        BY <1>5, <4>1 DEF Record
      <4> QED BY <1>2, <3>2, <4>1, <4>2 DEF MovesOn
    <3> QED BY <3>1, <3>2
  <2>3. TypeOK'
    BY <1>2, <1>3, <1>5, <2>1 DEF TypeOK
  <2>4. WaitingKeepsItsTarget'
    <3>1. /\ \A i \in Ids : tasks'[i].state = "queued" => tasks'[i] = tasks[i]
          /\ \A i \in Ids : tasks'[i].state = "queued" => tasks'[i].pane # p
      BY <1>2, <2>1
    <3> QED BY <1>5, <3>1, ChangeKeepsTargets
  <2> QED BY <2>2, <2>3, <2>4 DEF StepHolds, Shape
<1>6. CASE FlushWith(ts, [panes EXCEPT ![p] = x])
  <2> DEFINE ps == [panes EXCEPT ![p] = x]
  <2>1. ps \in [Panes -> PaneRecords] /\ FlushWith(ts, ps) /\ panes' = ps
    BY <1>3, <1>6 DEF TypeOK, FlushWith
  <2>2. \A q \in Panes \ {p} : ps[q] = panes[q]
    BY DEF TypeOK
  <2> HIDE DEF ps
  <2>3. TypeOK' /\ Shape
    BY <1>2, <2>1, FlushShape
  <2>4. ASSUME NEW i \in Ids, tasks'[i].state = "queued"
        PROVE  tasks'[i].pane \in Panes /\ Held(i, tasks'[i], panes'[tasks'[i].pane])
    <3>1. /\ ts[i].state = "queued" /\ tasks'[i].pane = ts[i].pane
          /\ TargetMatches(i, ts[i], ps[ts[i].pane])
          /\ tasks'[i].awaiting <=> ps[ts[i].pane].label = NoAgent
      BY <1>1, <1>2, <2>1, <2>4, FlushOutcome DEF FlushWith
    <3>2. ts[i] = tasks[i] /\ tasks[i].pane # p
      BY <1>2, <3>1
    <3>3. tasks[i].pane \in Panes /\ Held(i, tasks[i], panes[tasks[i].pane])
      BY <3>1, <3>2 DEF WaitingKeepsItsTarget, QueuedIds, WithState, Held
    <3> QED BY <2>1, <2>2, <3>1, <3>2, <3>3 DEF Held, TargetMatches
  <2>5. WaitingKeepsItsTarget'
    BY <2>4 DEF WaitingKeepsItsTarget, QueuedIds, WithState, Held
  <2> QED BY <2>3, <2>5 DEF StepHolds
<1> QED BY <1>4, <1>5, <1>6

\* A waiting follow-up is cancelled by its user.
LEMMA CancelHolds ==
    ASSUME TypeOK, SentOnce, WaitingKeepsItsTarget, NEW i \in Ids, Cancel(i)
    PROVE  StepHolds
<1>1. /\ tasks[i].state = "queued" /\ UNCHANGED <<panes, sends>>
      /\ tasks' = [tasks EXCEPT ![i].state = "cancelled"]
  BY DEF Cancel
<1>2. /\ tasks' \in [Ids -> TaskRecords]
      /\ tasks'[i].state = "cancelled" /\ tasks'[i].pane = tasks[i].pane
      /\ \A j \in Ids \ {i} : tasks'[j] = tasks[j]
  <2>1. tasks[i] \in TaskRecords
    BY DEF TypeOK
  <2>2. [tasks[i] EXCEPT !.state = "cancelled"] \in TaskRecords
    BY <2>1 DEF TaskRecords
  <2> QED BY <1>1, <2>1, <2>2 DEF TypeOK, TaskRecords
<1>3. ASSUME NEW j \in Ids PROVE MovesOn(tasks, j)
  <2>1. CASE j = i
    BY <1>1, <1>2, <2>1 DEF MovesOn
  <2>2. CASE j # i
    BY <1>1, <1>2, <2>2 DEF MovesOn, SentOnce, NoTask
  <2> QED BY <2>1, <2>2
<1>4. WaitingKeepsItsTarget'
  <2>1. \A j \in Ids : tasks'[j].state = "queued" => tasks'[j] = tasks[j]
    BY <1>2
  <2> QED BY <1>1, <2>1 DEF WaitingKeepsItsTarget, QueuedIds, WithState
<1> QED BY <1>1, <1>2, <1>3, <1>4 DEF StepHolds, Shape, TypeOK

\* The turn of the event loop.
LEMMA LoopHolds ==
    ASSUME TypeOK, SentOnce, WaitingKeepsItsTarget, Flush
    PROVE  StepHolds
<1>1. FlushQueue(tasks, panes)
  BY DEF Flush
<1>2. /\ panes' \in [Panes -> PaneRecords]
      /\ \A p \in Panes : panes[p].lease = panes[p].session => panes'[p] = panes[p]
  <2>1. CASE panes' = panes
    BY <2>1 DEF TypeOK
  <2>2. CASE \E ok \in [Panes -> BOOLEAN] : panes' = Checked(ok)
    <3>1. PICK ok \in [Panes -> BOOLEAN] : panes' = Checked(ok)
      BY <2>2
    <3>2. ASSUME NEW p \in Panes
          PROVE  /\ panes'[p] \in PaneRecords
                 /\ panes[p].lease = panes[p].session => panes'[p] = panes[p]
      <4>1. panes[p] \in PaneRecords /\ ok[p] \in BOOLEAN
        BY DEF TypeOK
      <4>2. panes'[p] = IF IsOpen(p) THEN Synced(panes[p], ok[p]) ELSE panes[p]
        BY <3>1 DEF Checked
      <4> QED BY <4>1, <4>2, PaneTypes DEF Synced
    <3>3. panes' = [p \in Panes |-> panes'[p]]
      BY <3>1 DEF Checked
    <3> QED BY <3>2, <3>3
  <2> QED BY <2>1, <2>2 DEF Flush
<1>3. /\ tasks' \in [Ids -> TaskRecords]
      /\ sends' \in [Ids -> Nat]
      /\ \A i \in Ids : MovesOn(tasks, i)
  BY <1>1, FlushOutcome DEF TypeOK
<1>4. ASSUME NEW i \in Ids, tasks'[i].state = "queued"
      PROVE  tasks'[i].pane \in Panes /\ Held(i, tasks'[i], panes'[tasks'[i].pane])
  <2>1. /\ tasks[i].state = "queued" /\ tasks'[i].pane = tasks[i].pane
        /\ TargetMatches(i, tasks[i], panes[tasks[i].pane])
        /\ tasks'[i].awaiting <=> panes[tasks[i].pane].label = NoAgent
    BY <1>1, <1>4, FlushOutcome DEF TypeOK
  <2>2. tasks[i].pane \in Panes /\ Held(i, tasks[i], panes[tasks[i].pane])
    BY <2>1 DEF WaitingKeepsItsTarget, QueuedIds, WithState, Held
  <2>3. panes'[tasks[i].pane] = panes[tasks[i].pane]
    BY <1>2, <2>1, <2>2 DEF Held, TargetMatches
  <2> QED BY <2>1, <2>2, <2>3 DEF Held, TargetMatches
<1>5. WaitingKeepsItsTarget'
  BY <1>4 DEF WaitingKeepsItsTarget, QueuedIds, WithState, Held
<1> QED BY <1>2, <1>3, <1>5 DEF StepHolds, Shape, TypeOK

LEMMA StepOutcome ==
    ASSUME TypeOK, SentOnce, WaitingKeepsItsTarget, [Next]_vars
    PROVE  StepHolds
<1>1. CASE UNCHANGED vars
  <2>1. panes' \in [Panes -> PaneRecords] /\ UNCHANGED <<tasks, sends>>
    BY <1>1 DEF vars, TypeOK
  <2>2. TypeOK' /\ Shape
    BY <2>1, QuietShape
  <2>3. WaitingKeepsItsTarget'
    BY <1>1 DEF vars, WaitingKeepsItsTarget, QueuedIds, WithState
  <2> QED BY <2>2, <2>3 DEF StepHolds
<1>2. ASSUME NEW i \in Ids, Start(i) PROVE StepHolds
  BY <1>2, StartOutcome DEF StepHolds
<1>3. ASSUME NEW i \in Ids, Cancel(i) PROVE StepHolds
  BY <1>3, CancelHolds
<1>4. ASSUME NEW p \in Panes, Reports(p) PROVE StepHolds
  <2>1. CASE PaneDies(p)
    BY <2>1, DeathHolds
  <2>2. CASE ChannelChanges(p)
    BY <2>2, RequestHolds
  <2>3. CASE ~PaneDies(p) /\ ~ChannelChanges(p)
    <3>1. PICK x \in PaneRecords : Steady(p, x) /\ Event(p, x)
      BY <1>4, <2>3, ReportsAreEvents
    <3>2. TypeOK' /\ Shape
      BY <3>1, EventShape
    <3>3. WaitingKeepsItsTarget'
      BY <3>1, EventKeepsTargets
    <3> QED BY <3>2, <3>3 DEF StepHolds
  <2> QED BY <2>1, <2>2, <2>3
<1> QED BY <1>1, <1>2, <1>3, <1>4, LoopHolds, RequestHolds DEF Next

-----------------------------------------------------------------------------
(* What follows for the records.                                           *)

LEMMA OneAPane ==
    ASSUME OneQueuedPerPane, Shape PROVE OneQueuedPerPane'
<1>1. SUFFICES ASSUME NEW i \in Ids, NEW j \in Ids, i # j,
                      tasks'[i].state = "queued", tasks'[j].state = "queued",
                      tasks'[i].pane = tasks'[j].pane
               PROVE  FALSE
  BY DEF OneQueuedPerPane, QueuedIds, WithState
<1>2. ASSUME NEW k \in {i, j}, MovesOn(tasks, k)
      PROVE  k \in QueuedIds /\ tasks'[k].pane = tasks[k].pane
  BY <1>1, <1>2 DEF MovesOn, QueuedIds, WithState, NoTask
<1>3. CASE \A k \in Ids : MovesOn(tasks, k)
  BY <1>1, <1>2, <1>3 DEF OneQueuedPerPane
<1>4. CASE \E new \in Ids : Adds(new) /\ \A k \in Ids \ {new} : MovesOn(tasks, k)
  <2>1. PICK new \in Ids : Adds(new) /\ \A k \in Ids \ {new} : MovesOn(tasks, k)
    BY <1>4
  <2>2. CASE i = new
    BY <1>1, <1>2, <2>1, <2>2 DEF Adds
  <2>3. CASE j = new
    BY <1>1, <1>2, <2>1, <2>3 DEF Adds
  <2>4. CASE new \notin {i, j}
    BY <1>1, <1>2, <2>1, <2>4 DEF OneQueuedPerPane
  <2> QED BY <2>2, <2>3, <2>4
<1> QED BY <1>3, <1>4 DEF Shape

LEMMA OneSend ==
    ASSUME TypeOK, SentOnce, Shape PROVE SentOnce'
<1>1. ASSUME NEW i \in Ids, MovesOn(tasks, i)
      PROVE  sends'[i] = IF tasks'[i].state = "sent" THEN 1 ELSE 0
  <2>1. sends[i] = IF tasks[i].state = "sent" THEN 1 ELSE 0
    BY DEF SentOnce
  <2>2. CASE tasks'[i] = tasks[i] /\ sends'[i] = IF tasks[i] = NoTask THEN 0 ELSE sends[i]
    BY <2>1, <2>2 DEF NoTask
  <2>3. CASE /\ tasks[i].state = "queued"
             /\ \/ tasks'[i].state \in {"queued", "cancelled"} /\ sends'[i] = sends[i]
                \/ tasks'[i].state = "sent" /\ sends'[i] = sends[i] + 1
    BY <2>1, <2>3
  <2>4. CASE tasks'[i] = NoTask /\ sends'[i] = 0
    BY <2>4 DEF NoTask
  <2> QED BY <1>1, <2>2, <2>3, <2>4 DEF MovesOn
<1>2. ASSUME NEW i \in Ids, Adds(i)
      PROVE  sends'[i] = IF tasks'[i].state = "sent" THEN 1 ELSE 0
  BY <1>2 DEF Adds
<1> QED BY <1>1, <1>2 DEF Shape, SentOnce

LEMMA Limited ==
    ASSUME TypeOK, WithinLimits, Shape PROVE WithinLimits'
<1>1. /\ QueuedIds \subseteq RetainedIds /\ RetainedIds \subseteq Ids
      /\ RetainedIds = QueuedIds \cup SettledIds
      /\ (QueuedIds \subseteq Ids)' /\ (RetainedIds \subseteq Ids)'
  BY DEF QueuedIds, RetainedIds, SettledIds, WithState
<1>2. \A S \in SUBSET Ids : IsFiniteSet(S) /\ Cardinality(S) \in Nat
  BY ConstantsAssumption, FS_Subset, FS_CardinalityType
<1>3. \A S, T \in SUBSET Ids : S \subseteq T => Cardinality(S) <= Cardinality(T)
  BY <1>2, FS_Subset
<1>4. ASSUME NEW i \in Ids, MovesOn(tasks, i)
      PROVE  /\ (i \in QueuedIds') => i \in QueuedIds
             /\ (i \in RetainedIds') => i \in RetainedIds
  BY <1>4 DEF MovesOn, QueuedIds, RetainedIds, WithState, NoTask
<1>5. CASE \A i \in Ids : MovesOn(tasks, i)
  <2>1. QueuedIds' \subseteq QueuedIds /\ RetainedIds' \subseteq RetainedIds
    BY <1>1, <1>4, <1>5
  <2>2. /\ Cardinality(QueuedIds') <= Cardinality(QueuedIds)
        /\ Cardinality(RetainedIds') <= Cardinality(RetainedIds)
    BY <1>1, <1>3, <2>1
  <2>3. Cardinality(QueuedIds') \in Nat /\ Cardinality(RetainedIds') \in Nat
    BY <1>1, <1>2
  <2> QED BY <1>1, <1>2, <2>2, <2>3, ConstantsAssumption DEF WithinLimits
<1>6. CASE \E i \in Ids : Adds(i) /\ \A j \in Ids \ {i} : MovesOn(tasks, j)
  <2>1. PICK i \in Ids : Adds(i) /\ \A j \in Ids \ {i} : MovesOn(tasks, j)
    BY <1>6
  <2>2. i \notin RetainedIds
    BY <2>1 DEF Adds, NewId, NoTask, RetainedIds, WithState
  <2>3. QueuedIds' \subseteq QueuedIds \cup {i} /\ RetainedIds' \subseteq RetainedIds \cup {i}
    BY <1>1, <1>4, <2>1
  <2>4. ASSUME NEW S \in SUBSET Ids, NEW T \in SUBSET Ids, i \notin S, T \subseteq S \cup {i}
        PROVE  Cardinality(T) <= Cardinality(S) + 1
    <3>1. Cardinality(S \cup {i}) = Cardinality(S) + 1
      BY <1>2, <2>4, FS_AddElement
    <3>2. S \cup {i} \in SUBSET Ids
      OBVIOUS
    <3> QED BY <1>3, <2>4, <3>1, <3>2
  <2>5. Cardinality(QueuedIds') <= MaxPending
    <3>1. Cardinality(QueuedIds) < MaxPending
      BY <2>1 DEF Adds, RoomToWait
    <3>2. Cardinality(QueuedIds') <= Cardinality(QueuedIds) + 1
      BY <1>1, <2>2, <2>3, <2>4
    <3> QED BY <1>1, <1>2, <3>1, <3>2, ConstantsAssumption
  <2>6. Cardinality(RetainedIds') <= MaxFollowups
    <3>1. CASE Cardinality(RetainedIds) < MaxFollowups
      <4>1. Cardinality(RetainedIds') <= Cardinality(RetainedIds) + 1
        BY <1>1, <2>2, <2>3, <2>4
      <4> QED BY <1>1, <1>2, <3>1, <4>1, ConstantsAssumption
    <3>2. CASE SettledIds = {}
      <4>1. RetainedIds = QueuedIds
        BY <1>1, <3>2
      <4>2. Cardinality(QueuedIds) < MaxPending /\ Cardinality(QueuedIds) \in Nat
        BY <1>1, <1>2, <2>1 DEF Adds, RoomToWait
      <4>3. Cardinality(RetainedIds) < MaxFollowups
        BY <4>1, <4>2, ConstantsAssumption
      <4> QED BY <3>1, <4>3
    <3>3. CASE \E old \in SettledIds : tasks'[old] = NoTask
      <4>1. PICK old \in SettledIds : tasks'[old] = NoTask
        BY <3>3
      <4>2. old \in RetainedIds /\ old \notin RetainedIds'
        BY <1>1, <4>1 DEF RetainedIds, WithState, NoTask
      <4> DEFINE rest == RetainedIds \ {old}
      <4>3. Cardinality(rest) = Cardinality(RetainedIds) - 1
        BY <1>1, <1>2, <4>2, FS_RemoveElement
      <4>4. RetainedIds' \subseteq rest \cup {i} /\ rest \in SUBSET Ids /\ i \notin rest
        BY <1>1, <2>2, <2>3, <4>2
      <4> HIDE DEF rest
      <4>5. Cardinality(RetainedIds') <= Cardinality(rest) + 1
        BY <1>1, <2>4, <4>4
      <4>6. Cardinality(RetainedIds) <= MaxFollowups
        BY DEF WithinLimits
      <4> QED BY <1>1, <1>2, <4>3, <4>4, <4>5, <4>6, ConstantsAssumption
    <3> QED BY <2>1, <3>1, <3>2, <3>3 DEF Adds, RoomToKeep
  <2> QED BY <2>5, <2>6 DEF WithinLimits
<1> QED BY <1>5, <1>6 DEF Shape

-----------------------------------------------------------------------------
(* The theorems.                                                           *)

\* The inductive invariant: types and sends are needed for the records to move on, and the
\* targets for nothing to wait for a pane that is opened or started.
Inv == TypeOK /\ OneQueuedPerPane /\ WithinLimits /\ SentOnce /\ WaitingKeepsItsTarget

LEMMA InitInv == Init => Inv
<1> SUFFICES ASSUME Init PROVE Inv
  OBVIOUS
<1>1. TypeOK
  <2>1. NoTask \in TaskRecords
    BY DEF NoTask, TaskRecords
  <2>2. Unused \in PaneRecords /\ \A s \in Sessions : Restored(s) \in PaneRecords
    BY DEF Unused, Restored, PaneRecords
  <2>3. panes \in [Panes -> PaneRecords]
    BY <2>2 DEF Init
  <2> QED BY <2>1, <2>3 DEF Init, TypeOK
<1>2. QueuedIds = {} /\ RetainedIds = {}
  BY DEF Init, QueuedIds, RetainedIds, WithState, NoTask
<1>3. OneQueuedPerPane /\ WaitingKeepsItsTarget
  BY <1>2 DEF OneQueuedPerPane, WaitingKeepsItsTarget
<1>4. WithinLimits
  BY <1>2, FS_EmptySet, ConstantsAssumption DEF WithinLimits
<1>5. SentOnce
  BY DEF Init, SentOnce, NoTask
<1> QED BY <1>1, <1>3, <1>4, <1>5 DEF Inv

LEMMA StepInv == Inv /\ [Next]_vars => Inv'
<1> SUFFICES ASSUME Inv, [Next]_vars PROVE Inv'
  OBVIOUS
<1>1. StepHolds
  BY StepOutcome DEF Inv
<1> QED BY <1>1, OneAPane, OneSend, Limited DEF Inv, StepHolds

\* However sessions move between panes and follow-ups are started, cancelled, delivered and
\* evicted (project_followup.rs), the records are well formed and within their limits, at
\* most one follow-up waits per pane, a prompt is written once for a record that says so,
\* and a follow-up that waits keeps its target.
THEOREM QueueIsSound ==
    Spec => [](TypeOK /\ OneQueuedPerPane /\ WithinLimits /\ SentOnce /\ WaitingKeepsItsTarget)
<1>1. Spec => []Inv
  BY InitInv, StepInv, PTL DEF Spec
<1>2. Inv => TypeOK /\ OneQueuedPerPane /\ WithinLimits /\ SentOnce /\ WaitingKeepsItsTarget
  BY DEF Inv
<1> QED BY <1>1, <1>2, PTL

\* No step of the queue takes a waiting follow-up out of the records or changes the outcome
\* of a settled one (flush_project_followups, cancel_project_followups and the eviction of
\* queue_project_followup).
THEOREM OutcomesAreFinal == Spec => OutcomeIsFinal
<1>1. Inv /\ [Next]_vars =>
        [\A i \in Ids :
          /\ tasks[i].state = "queued" => tasks'[i].state \in {"queued", "sent", "cancelled"}
          /\ tasks[i].state \in {"sent", "cancelled"} => tasks'[i] \in {tasks[i], NoTask}]_vars
  <2> SUFFICES ASSUME Inv, [Next]_vars, NEW i \in Ids
               PROVE  /\ tasks[i].state = "queued"
                            => tasks'[i].state \in {"queued", "sent", "cancelled"}
                      /\ tasks[i].state \in {"sent", "cancelled"}
                            => tasks'[i] \in {tasks[i], NoTask}
    OBVIOUS
  <2>1. Shape
    BY StepOutcome DEF Inv, StepHolds
  <2>2. CASE MovesOn(tasks, i)
    BY <2>2 DEF MovesOn
  <2>3. CASE Adds(i)
    BY <2>3 DEF Adds, NewId, NoTask
  <2> QED BY <2>1, <2>2, <2>3 DEF Shape
<1>2. Spec => []Inv
  BY InitInv, StepInv, PTL DEF Spec
<1> QED BY <1>1, <1>2, PTL DEF Spec, OutcomeIsFinal

\* Starting, resuming and restoring never give a pane a second follow-up while one waits in it
\* (start_project_followup refuses a pane that is taken).
THEOREM OneFollowupWaits == Spec => []OneQueuedPerPane
<1>1. TypeOK /\ OneQueuedPerPane /\ WithinLimits /\ SentOnce /\ WaitingKeepsItsTarget
        => OneQueuedPerPane
  OBVIOUS
<1> QED BY <1>1, QueueIsSound, PTL

\* Neither the records nor the places of those that wait are ever exceeded: a start finds a
\* settled record to evict or is refused (queue_project_followup).
THEOREM LimitsHold == Spec => []WithinLimits
<1>1. TypeOK /\ OneQueuedPerPane /\ WithinLimits /\ SentOnce /\ WaitingKeepsItsTarget
        => WithinLimits
  OBVIOUS
<1> QED BY <1>1, QueueIsSound, PTL

\* A prompt reaches its pane once, and only for a record that says it was sent, however often
\* the suggestion is started again (flush_project_followups).
THEOREM PromptsAreSentOnce == Spec => []SentOnce
<1>1. TypeOK /\ OneQueuedPerPane /\ WithinLimits /\ SentOnce /\ WaitingKeepsItsTarget
        => SentOnce
  OBVIOUS
<1> QED BY <1>1, QueueIsSound, PTL
=============================================================================
