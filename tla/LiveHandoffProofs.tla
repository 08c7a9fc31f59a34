-------------------------- MODULE LiveHandoffProofs --------------------------
(***************************************************************************)
(* IndInv is an inductive invariant of LiveHandoff and, with it, every     *)
(* step of LiveHandoff is a step of PaneOwnership or leaves it unchanged:  *)
(* whatever the panes, the starters, the crashes, the timeouts and the     *)
(* failures, no pane is read by two servers.                               *)
(***************************************************************************)
EXTENDS LiveHandoff, TLAPS

USE DEF Sockets, None, Stale, Binding, AllQuiet, Decided, OldPhases, NewPhases, StarterPhases

\* Who the servers are.
LEMMA ServersOK ==
    /\ "old" \in Servers /\ "new" \in Servers
    /\ \A s \in Starters : s \in Servers /\ s # "old" /\ s # "new"
    /\ \A s \in Crashing : s \in Servers
    /\ \A s \in Servers : s = "old" \/ s = "new" \/ s \in Starters
BY LiveHandoffAssumption DEF Servers

\* Goto changes one server's phase.
LEMMA GotoPhase ==
    ASSUME PhasesOK, NEW s \in Servers, NEW next, Goto(s, next)
    PROVE  /\ phase'[s] = next
           /\ \A t \in Servers \ {s} : phase'[t] = phase[t]
           /\ s = "old" /\ next \in OldPhases => PhasesOK'
           /\ s = "new" /\ next \in NewPhases => PhasesOK'
           /\ s \in Starters /\ next \in StarterPhases => PhasesOK'
BY ServersOK DEF PhasesOK, Goto

\* A process that dies leaves well-formed socket paths behind.
LEMMA LeftoverOK ==
    ASSUME PublicOK, NEW s \in Servers, NEW removed
    PROVE  Leftover(s, removed) \in [Sockets -> Servers \cup {None, Stale}]
BY DEF PublicOK, Leftover

\* Binding a socket is the business of one server, and ends in one of two ways.
LEMMA BindStepOK ==
    ASSUME PhasesOK, PublicOK, NEW s \in Servers, BindStep(s)
    PROVE  /\ phase[s] \in Binding
           /\ \E next \in Binding \cup {AfterBind(s), IF s = "old" THEN "rollback" ELSE "failing"} :
                  Goto(s, next)
           /\ PublicOK'
           /\ UNCHANGED <<lines, oldPane, newPane>>
<1>1. UNCHANGED <<lines, oldPane, newPane>>
  BY DEF BindStep, panes
<1>2. ASSUME BindFails(s)
      PROVE  /\ Goto(s, IF s = "old" THEN "rollback" ELSE "failing")
             /\ PublicOK'
  BY <1>2, LeftoverOK DEF BindFails, PublicOK
<1>3. CASE ConnectBusy(s) \/ BindTaken(s) \/ IdentifyFails(s)
  BY <1>1, <1>2, <1>3 DEF ConnectBusy, BindTaken, IdentifyFails
<1>4. CASE Exists(s) \/ ConnectRefused(s) \/ Listen(s)
  <2>1. PublicOK'
    BY <1>4 DEF Exists, ConnectRefused, Listen, public, PublicOK
  <2> QED BY <1>1, <1>4, <2>1 DEF Exists, ConnectRefused, Listen
<1>5. CASE Unlink(s) \/ Bind(s)
  <2>1. PublicOK'
    BY <1>5 DEF Unlink, Bind, PublicOK
  <2> QED BY <1>1, <1>5, <2>1 DEF Unlink, Bind
<1>6. CASE Identify(s)
  <2>1. sock[s] \in Sockets /\ path[sock[s]] \in Servers \cup {None, Stale}
    BY DEF PublicOK
  <2>2. PublicOK'
    BY <1>6, <2>1 DEF Identify, PublicOK
  <2>3. \E next \in {"exists", AfterBind(s)} : Goto(s, next)
    BY <1>6 DEF Identify
  <2> QED BY <1>1, <1>6, <2>2, <2>3 DEF Identify
<1> QED BY <1>3, <1>4, <1>5, <1>6 DEF BindStep

\* The handoff's own state, apart from the public sockets.
PanesOK ==
    /\ PhasesOK
    /\ lines \subseteq {"validated", "fds", "restored", "ready", "committed", "owned"}
    /\ oldPane \in [Panes -> {"reading", "paused", "absent"}]
    /\ newPane \in [Panes -> {"imported", "reading", "absent"}]

HandoffInv ==
    PanesOK /\ QuietWhileHandingOff /\ CommitIsFinal /\ OwnedWasCommitted /\ ReadsWhenServing

\* The inductive invariant has a part about the handoff and one about the paths.
LEMMA IndInvParts == IndInv <=> HandoffInv /\ PublicOK
BY DEF IndInv, HandoffInv, PanesOK, TypeOK

\* The old server goes from one phase to another, the panes and the stream as they were.
LEMMA OldMoves ==
    ASSUME HandoffInv, NEW next \in OldPhases, Goto("old", next), UNCHANGED <<lines, panes>>,
           "committed" \in lines => next \in Decided \cup {"dead"},
           next \in AllQuiet \cup Decided \cup {"dead"} => \A p \in Panes : oldPane[p] # "reading"
    PROVE  HandoffInv'
<1>1. /\ PhasesOK' /\ phase'["old"] = next /\ phase'["new"] = phase["new"]
      /\ lines' = lines /\ oldPane' = oldPane /\ newPane' = newPane
  BY ServersOK, GotoPhase DEF HandoffInv, PanesOK, panes
<1> QED
  BY <1>1 DEF HandoffInv, PanesOK, QuietWhileHandingOff, CommitIsFinal, OwnedWasCommitted,
              ReadsWhenServing

\* The import server is killed before anything was committed to it.
LEMMA KillKeeps ==
    ASSUME HandoffInv, NEW next \in {"rollback", "waitClosed"}, KillImport(next),
           phase["old"] \notin Decided \cup {"dead"}
    PROVE  HandoffInv'
<1>1. /\ PhasesOK' /\ phase'["old"] = next /\ phase'["new"] = "dead"
      /\ lines' = lines /\ oldPane' = oldPane /\ newPane' = [p \in Panes |-> "absent"]
  BY ServersOK DEF HandoffInv, PanesOK, PhasesOK, KillImport, NoPanes
<1>2. "committed" \notin lines
  BY DEF HandoffInv, CommitIsFinal
<1>3. newPane' \in [Panes -> {"imported", "reading", "absent"}]
      /\ \A p \in Panes : newPane'[p] # "reading"
  BY <1>1
<1> QED
  BY <1>1, <1>2, <1>3 DEF HandoffInv, PanesOK, QuietWhileHandingOff, CommitIsFinal,
                          OwnedWasCommitted, ReadsWhenServing

\* The steps of the old server's thread keep the invariant.
LEMMA OldKeepsHandoffInv ==
    ASSUME HandoffInv, PublicOK, StartHandoff \/ OldStep \/ PauseFails \/ SpawnFails \/ DuplicateFails
    PROVE  HandoffInv'
<1> DEFINE quiet == \A p \in Panes : oldPane[p] # "reading"
<1>a. /\ phase["old"] \in AllQuiet \cup Decided => quiet
      /\ phase["old"] \notin Decided \cup {"dead"} => "committed" \notin lines
      /\ PhasesOK
  BY DEF HandoffInv, PanesOK, QuietWhileHandingOff, CommitIsFinal
<1>1. CASE StartHandoff
  BY <1>1, ServersOK
     DEF StartHandoff, panes, HandoffInv, PanesOK, PhasesOK, QuietWhileHandingOff, CommitIsFinal,
         OwnedWasCommitted, ReadsWhenServing
<1>2. CASE \E p \in Panes : PausePane(p)
  BY <1>2 DEF PausePane, HandoffInv, PanesOK, PhasesOK, QuietWhileHandingOff, CommitIsFinal,
              OwnedWasCommitted, ReadsWhenServing
<1>3. CASE PauseFails \/ SpawnFails
  <2>1. /\ Goto("old", "rollback") /\ phase["old"] = "pausing" /\ UNCHANGED <<lines, panes>>
    BY <1>3 DEF PauseFails, SpawnFails
  <2> QED
    BY <1>a, <2>1, OldMoves
<1>4. CASE SpawnImport
  BY <1>4, ServersOK
     DEF SpawnImport, AllPaused, panes, HandoffInv, PanesOK, PhasesOK, QuietWhileHandingOff,
         CommitIsFinal, OwnedWasCommitted, ReadsWhenServing
<1>5. CASE DuplicateFds \/ Restored \/ Ready
  <2>1. PICK next \in AllQuiet : /\ Goto("old", next) /\ phase["old"] \in AllQuiet
                                 /\ UNCHANGED <<lines, panes>>
    BY <1>5 DEF DuplicateFds, Restored, Ready
  <2> QED
    BY <1>a, <2>1, OldMoves
<1>6. CASE Validated
  BY <1>6, <1>a, ServersOK
     DEF Validated, panes, Goto, HandoffInv, PanesOK, PhasesOK, QuietWhileHandingOff,
         CommitIsFinal, OwnedWasCommitted, ReadsWhenServing
<1>7. CASE RemoveApiSocket \/ RemoveClientSocket \/ CleanupSockets
  <2>1. PICK next \in AllQuiet \cup Decided :
            /\ Goto("old", next) /\ UNCHANGED <<lines, panes>>
            /\ phase["old"] \in AllQuiet \cup Decided
            /\ phase["old"] \in Decided => next \in Decided
    BY <1>7 DEF RemoveApiSocket, RemoveClientSocket, CleanupSockets, RemoveSocket
  <2>2. "committed" \in lines => next \in Decided
    BY <1>a, <2>1
  <2> QED
    BY <1>a, <2>1, <2>2, OldMoves
<1>8. CASE DuplicateFails
  BY <1>8, KillKeeps DEF DuplicateFails
<1>9. CASE WaitFails \/ WaitReadyFails
  <2>1. PICK next \in {"rollback", "waitClosed"} : KillImport(next) /\ phase["old"] \in AllQuiet
    BY <1>9 DEF WaitFails, WaitReadyFails, NoAnswer
  <2> QED
    BY <2>1, KillKeeps
<1>10. CASE CommitFails
  BY <1>10, KillKeeps DEF CommitFails
<1>11. CASE Commit
  BY <1>11, <1>a, ServersOK
     DEF Commit, panes, Goto, HandoffInv, PanesOK, PhasesOK, QuietWhileHandingOff,
         CommitIsFinal, OwnedWasCommitted, ReadsWhenServing
<1>12. CASE RestoreSockets \/ RestoreTimesOut
  <2>1. PICK next \in {"exists", "rollback"} :
            /\ Goto("old", next) /\ phase["old"] = "waitClosed" /\ UNCHANGED <<lines, panes>>
    BY <1>12 DEF RestoreSockets, RestoreTimesOut, StartBinding
  <2> QED
    BY <1>a, <2>1, OldMoves
<1>13. CASE BindStep("old")
  <2>1. /\ phase["old"] \in Binding
        /\ \E next \in Binding \cup {AfterBind("old"), "rollback"} : Goto("old", next)
        /\ UNCHANGED <<lines, oldPane, newPane>>
    BY <1>13, <1>a, ServersOK, BindStepOK
  <2>2. PICK next \in Binding \cup {"rollback"} : Goto("old", next)
    BY <2>1 DEF AfterBind
  <2> QED
    BY <1>a, <2>1, <2>2, OldMoves DEF panes
<1>14. CASE Rollback
  BY <1>14, <1>a, ServersOK
     DEF Rollback, Goto, HandoffInv, PanesOK, PhasesOK, QuietWhileHandingOff,
         CommitIsFinal, OwnedWasCommitted, ReadsWhenServing
<1>15. CASE ReleasePanes
  BY <1>15, <1>a, ServersOK
     DEF ReleasePanes, NoPanes, Goto, HandoffInv, PanesOK, PhasesOK, QuietWhileHandingOff,
         CommitIsFinal, OwnedWasCommitted, ReadsWhenServing
<1>16. CASE OldExits
  <2>1. /\ Goto("old", "removeLast") /\ phase["old"] = "waitOwned"
        /\ UNCHANGED <<lines, panes>>
    BY <1>16 DEF OldExits
  <2> QED
    BY <1>a, <2>1, OldMoves
<1> QED
  BY <1>1, <1>2, <1>3, <1>4, <1>5, <1>6, <1>7, <1>8, <1>9, <1>10, <1>11, <1>12, <1>13, <1>14,
     <1>15, <1>16 DEF OldStep

\* So do those of the import server, of the starters and the crashes.
LEMMA OthersKeepHandoffInv ==
    ASSUME HandoffInv, PublicOK,
           \/ ImportStep \/ ImportRefuses
           \/ \E s \in Starters : Start(s) \/ BindStep(s) \/ StarterExits(s)
           \/ \E s \in Crashing : Crash(s)
    PROVE  HandoffInv'
<1> USE ServersOK DEF HandoffInv, PanesOK, QuietWhileHandingOff, CommitIsFinal, OwnedWasCommitted,
                      ReadsWhenServing, panes, PhasesOK, Goto
<1>1. CASE Receive
  BY <1>1 DEF Receive
<1>2. CASE Import
  BY <1>2 DEF Import
<1>3. CASE TakeSockets
  BY <1>3 DEF TakeSockets, StartBinding
<1>4. CASE BindStep("new")
  BY <1>4, BindStepOK DEF AfterBind
<1>5. CASE ReportReady
  BY <1>5 DEF ReportReady
<1>6. CASE WaitCommitted
  BY <1>6 DEF WaitCommitted, CommitSeen
<1>7. CASE Own
  BY <1>7 DEF Own
<1>8. CASE ImportFails \/ ImportRefuses
  <2>1. Goto("new", "failing") /\ phase["new"] # "serving" /\ UNCHANGED <<lines, oldPane, newPane>>
    BY <1>8 DEF ImportFails, ImportRefuses
  <2> QED BY <2>1
<1>9. CASE ImportExits
  BY <1>9 DEF ImportExits, NoPanes
<1>10. CASE \E s \in Starters : Start(s) \/ StarterExits(s)
  <2>1. PICK s \in Starters : \E next \in {"exists", "dead"} : Goto(s, next)
    BY <1>10 DEF Start, StarterExits, StartBinding
  <2>2. UNCHANGED <<lines, oldPane, newPane>>
    BY <1>10 DEF Start, StarterExits
  <2>3. s \in Servers /\ s # "old" /\ s # "new"
    OBVIOUS
  <2>4. phase'["old"] = phase["old"] /\ phase'["new"] = phase["new"]
    BY <2>1, <2>3
  <2>5. PhasesOK'
    BY <2>1, <2>3, GotoPhase
  <2> QED BY <2>2, <2>4, <2>5
<1>11. CASE \E s \in Starters : BindStep(s)
  BY <1>11, BindStepOK DEF AfterBind
<1>12. CASE \E s \in Crashing : Crash(s)
  BY <1>12 DEF Crash, NoPanes
<1> QED
  BY <1>1, <1>2, <1>3, <1>4, <1>5, <1>6, <1>7, <1>8, <1>9, <1>10, <1>11, <1>12 DEF ImportStep

\* Every step keeps the public paths well formed.
LEMMA NextKeepsPublicOK ==
    ASSUME PhasesOK, PublicOK, Next
    PROVE  PublicOK'
<1>1. CASE StartHandoff
  BY <1>1 DEF StartHandoff, PublicOK, Servers
<1>2. CASE \E s \in {"old", "new"} \cup Starters : BindStep(s)
  BY <1>2, BindStepOK, ServersOK
<1>3. CASE \E s \in {"old", "new"} \cup Starters : StartBinding(s)
  BY <1>3, ServersOK DEF StartBinding, PublicOK
<1>4. CASE WaitFails \/ WaitReadyFails \/ CommitFails \/ DuplicateFails
  BY <1>4, LeftoverOK, ServersOK
  DEF WaitFails, WaitReadyFails, CommitFails, DuplicateFails, KillImport, PublicOK
<1>5. CASE RemoveApiSocket \/ RemoveClientSocket \/ CleanupSockets \/ OldExits
  BY <1>5 DEF RemoveApiSocket, RemoveClientSocket, CleanupSockets, OldExits, RemoveSocket,
              RemoveIfOwned, PublicOK
<1>6. CASE ImportExits \/ \E s \in Crashing : Crash(s)
  BY <1>6, LeftoverOK, ServersOK DEF ImportExits, Crash, PublicOK
<1>7. CASE UNCHANGED public
  BY <1>7 DEF public, PublicOK
<1>8. \/ \E p \in Panes : PausePane(p) 
      \/ PauseFails \/ SpawnImport \/ SpawnFails \/ DuplicateFds \/ Validated \/ Restored
      \/ Ready \/ Commit \/ RestoreTimesOut \/ Rollback \/ ReleasePanes \/ Receive \/ Import
      \/ ReportReady \/ WaitCommitted \/ Own \/ ImportFails \/ ImportRefuses
      \/ \E s \in Starters : StarterExits(s)
      => UNCHANGED public
  BY DEF PausePane, PauseFails, SpawnImport, SpawnFails, DuplicateFds, Validated, Restored,
         Ready, Commit, RestoreTimesOut, Rollback, ReleasePanes, Receive, Import, ReportReady,
         WaitCommitted, Own, ImportFails, ImportRefuses, StarterExits
<1>9. RestoreSockets \/ TakeSockets \/ (\E s \in Starters : Start(s))
      => \E s \in {"old", "new"} \cup Starters : StartBinding(s)
  BY DEF RestoreSockets, TakeSockets, Start
<1> QED
  BY <1>1, <1>2, <1>3, <1>4, <1>5, <1>6, <1>7, <1>8, <1>9 DEF Next, OldStep, ImportStep

\* IndInv is an invariant: the old server reads nothing while it hands off, its commit is
\* final, and the import server reads nothing that was not committed to it.
THEOREM Inductive == Spec => []IndInv
<1>1. Init => IndInv
  BY ServersOK DEF Init, IndInv, TypeOK, PhasesOK, PublicOK, QuietWhileHandingOff, CommitIsFinal,
                   OwnedWasCommitted, ReadsWhenServing
<1>2. ASSUME IndInv, [Next]_vars PROVE IndInv'
  <2>1. HandoffInv /\ PublicOK /\ PhasesOK
    BY <1>2, IndInvParts DEF HandoffInv, PanesOK
  <2>2. CASE UNCHANGED vars
    BY <1>2, <2>2 DEF vars, public, panes, IndInv, TypeOK, PhasesOK, PublicOK,
                      QuietWhileHandingOff, CommitIsFinal, OwnedWasCommitted, ReadsWhenServing
  <2>3. CASE Next
    <3>1. HandoffInv'
      BY <2>1, <2>3, OldKeepsHandoffInv, OthersKeepHandoffInv DEF Next
    <3>2. PublicOK'
      BY <2>1, <2>3, NextKeepsPublicOK
    <3> QED BY <3>1, <3>2 DEF IndInv, HandoffInv, PanesOK, TypeOK
  <2> QED BY <1>2, <2>2, <2>3
<1> QED BY <1>1, <1>2, PTL DEF Spec

\* Every variable of the handoff has its type.
THEOREM TypeCorrect == Spec => []TypeOK
BY Inductive, PTL DEF IndInv

-----------------------------------------------------------------------------
(* The refinement of PaneOwnership.                                        *)

\* Who reads a pane, from what both processes think of it.
LEMMA ReadersOf ==
    ASSUME HandoffInv, NEW p \in Panes
    PROVE  /\ oldPane[p] = "reading" => newPane[p] # "reading" /\ Readers[p] = {"old"}
           /\ newPane[p] = "reading" => oldPane[p] # "reading" /\ Readers[p] = {"new"}
           /\ oldPane[p] # "reading" /\ newPane[p] # "reading" => Readers[p] = {}
<1>1. ~(oldPane[p] = "reading" /\ newPane[p] = "reading")
  BY DEF HandoffInv, QuietWhileHandingOff, CommitIsFinal, OwnedWasCommitted
<1> QED BY <1>1 DEF Readers

\* A step that gives no pane a new reader and does not decide the handoff.
LEMMA StopStep ==
    ASSUME HandoffInv, HandoffInv',
           "committed" \in lines' <=> "committed" \in lines,
           \A p \in Panes : oldPane'[p] = "reading" => oldPane[p] = "reading",
           \A p \in Panes : newPane'[p] = "reading" => newPane[p] = "reading"
    PROVE  Ownership!Stop
<1>1. \A p \in Panes : Readers'[p] \in {{}, {"old"}, {"new"}} /\ Readers'[p] \subseteq Readers[p]
  <2> TAKE p \in Panes
  <2>1. /\ oldPane'[p] = "reading" => Readers'[p] = {"old"}
        /\ newPane'[p] = "reading" => Readers'[p] = {"new"}
        /\ oldPane'[p] # "reading" /\ newPane'[p] # "reading" => Readers'[p] = {}
    <3>1. ~(oldPane'[p] = "reading" /\ newPane'[p] = "reading")
      BY DEF HandoffInv, QuietWhileHandingOff, CommitIsFinal, OwnedWasCommitted
    <3> QED BY <3>1 DEF Readers
  <2> QED BY <2>1, ReadersOf
<1>2. Readers' \in [Panes -> {{}, {"old"}, {"new"}}]
  BY <1>1 DEF Readers
<1> QED BY <1>1, <1>2 DEF Ownership!Stop

\* The steps that change neither who reads a pane nor the decision.
LEMMA SameReaders ==
    ASSUME UNCHANGED panes, "committed" \in lines' <=> "committed" \in lines
    PROVE  UNCHANGED <<Readers, "committed" \in lines>>
BY DEF panes, Readers

\* A step of the old server is a step of PaneOwnership or changes nothing there.
LEMMA OldStepRefines ==
    ASSUME HandoffInv, PublicOK, HandoffInv',
           StartHandoff \/ OldStep \/ PauseFails \/ SpawnFails \/ DuplicateFails
    PROVE  Ownership!Next \/ UNCHANGED <<Readers, "committed" \in lines>>
<1> DEFINE Quiet == UNCHANGED panes /\ ("committed" \in lines' <=> "committed" \in lines)
           Stops == /\ "committed" \in lines' <=> "committed" \in lines
                    /\ \A p \in Panes : oldPane'[p] = "reading" => oldPane[p] = "reading"
                    /\ \A p \in Panes : newPane'[p] = "reading" => newPane[p] = "reading"
<1>1. CASE \E p \in Panes : PausePane(p)
  <2>1. Stops
    BY <1>1 DEF PausePane, HandoffInv, PanesOK
  <2> QED BY <2>1, StopStep DEF Ownership!Next
<1>2. CASE StartHandoff
  <2>1. Quiet
    BY <1>2 DEF StartHandoff, HandoffInv, CommitIsFinal
  <2> QED BY <2>1, SameReaders
<1>3. CASE WaitFails \/ WaitReadyFails \/ CommitFails \/ DuplicateFails \/ ReleasePanes
  <2>1. Stops
    BY <1>3 DEF WaitFails, WaitReadyFails, CommitFails, DuplicateFails, ReleasePanes, KillImport, NoPanes
  <2> QED BY <2>1, StopStep DEF Ownership!Next
<1>4. CASE Commit
  <2>1. "committed" \notin lines
    BY <1>4 DEF Commit, HandoffInv, CommitIsFinal
  <2>2. \A p \in Panes : Readers[p] = {}
    BY <1>4, <2>1, ReadersOf DEF Commit, HandoffInv, QuietWhileHandingOff, OwnedWasCommitted
  <2>3. Readers' = Readers /\ "committed" \in lines'
    BY <1>4 DEF Commit, panes, Readers
  <2> QED BY <2>1, <2>2, <2>3 DEF Ownership!Commit, Ownership!Next
<1>5. CASE Rollback
  <2>1. "committed" \notin lines /\ lines' = lines
    BY <1>5 DEF Rollback, HandoffInv, CommitIsFinal
  <2>2. \A p \in Panes : newPane[p] # "reading" /\ newPane' = newPane
    BY <1>5, <2>1 DEF Rollback, HandoffInv, OwnedWasCommitted
  <2>3. \A p \in Panes : Readers'[p] = {"old"} /\ Readers[p] \subseteq {"old"}
    BY <1>5, <2>2 DEF Rollback, Readers
  <2>4. Readers' \in [Panes -> {{}, {"old"}}]
    BY <2>3 DEF Readers
  <2> QED BY <2>1, <2>3, <2>4 DEF Ownership!Resume, Ownership!Next
<1>6. CASE BindStep("old")
  <2>1. Quiet
    BY <1>6, BindStepOK, ServersOK DEF HandoffInv, PanesOK, panes
  <2> QED BY <2>1, SameReaders
<1>7. CASE \/ PauseFails \/ SpawnFails \/ SpawnImport \/ DuplicateFds \/ Validated \/ Restored
           \/ RemoveApiSocket \/ RemoveClientSocket \/ Ready \/ RestoreSockets \/ RestoreTimesOut
           \/ OldExits \/ CleanupSockets
  <2>1. Quiet
    BY <1>7 DEF PauseFails, SpawnFails, SpawnImport, DuplicateFds, Validated, Restored,
                RemoveApiSocket, RemoveClientSocket, RemoveSocket, Ready, RestoreSockets,
                RestoreTimesOut, OldExits, CleanupSockets
  <2> QED BY <2>1, SameReaders
<1> QED BY <1>1, <1>2, <1>3, <1>4, <1>5, <1>6, <1>7 DEF OldStep

\* So is a step of any other process, and a death.
LEMMA OtherStepRefines ==
    ASSUME HandoffInv, PublicOK, HandoffInv',
           \/ ImportStep \/ ImportRefuses
           \/ \E s \in Starters : Start(s) \/ BindStep(s) \/ StarterExits(s)
           \/ \E s \in Crashing : Crash(s)
    PROVE  Ownership!Next \/ UNCHANGED <<Readers, "committed" \in lines>>
<1> DEFINE Quiet == UNCHANGED panes /\ ("committed" \in lines' <=> "committed" \in lines)
           Stops == /\ "committed" \in lines' <=> "committed" \in lines
                    /\ \A p \in Panes : oldPane'[p] = "reading" => oldPane[p] = "reading"
                    /\ \A p \in Panes : newPane'[p] = "reading" => newPane[p] = "reading"
<1>1. CASE Import \/ ImportExits \/ \E s \in Crashing : Crash(s)
  <2>1. Stops
    BY <1>1 DEF Import, ImportExits, Crash, NoPanes
  <2> QED BY <2>1, StopStep DEF Ownership!Next
<1>2. CASE Own
  <2>1. "committed" \in lines /\ "committed" \in lines'
    BY <1>2 DEF Own, HandoffInv, OwnedWasCommitted
  <2>2. \A p \in Panes : oldPane[p] # "reading" /\ newPane[p] # "reading"
    BY <1>2, <2>1 DEF Own, HandoffInv, QuietWhileHandingOff, CommitIsFinal, ReadsWhenServing
  <2>3. \A p \in Panes : Readers[p] = {}
    BY <2>2, ReadersOf
  <2>4. Readers' = [p \in Panes |-> {"new"}]
    BY <1>2, <2>2 DEF Own, Readers
  <2> QED BY <2>1, <2>3, <2>4 DEF Ownership!Adopt, Ownership!Next
<1>3. CASE BindStep("new") \/ \E s \in Starters : BindStep(s)
  <2>1. Quiet
    BY <1>3, BindStepOK, ServersOK DEF HandoffInv, PanesOK, panes
  <2> QED BY <2>1, SameReaders
<1>4. CASE \/ Receive \/ TakeSockets \/ ReportReady \/ WaitCommitted \/ ImportFails \/ ImportRefuses
           \/ \E s \in Starters : Start(s) \/ StarterExits(s)
  <2>1. Quiet
    BY <1>4 DEF Receive, TakeSockets, ReportReady, WaitCommitted, ImportFails, ImportRefuses,
                Start, StarterExits
  <2> QED BY <2>1, SameReaders
<1> QED BY <1>1, <1>2, <1>3, <1>4 DEF ImportStep

\* LiveHandoff implements PaneOwnership: no pane is read by two servers, and none by the new
\* one before the old one has given all of them up and committed.
THEOREM Refinement == Spec => OwnershipSpec
<1>1. Init => Ownership!Init
  BY DEF Init, Ownership!Init, Readers
<1>2. ASSUME IndInv, IndInv', [Next]_vars
      PROVE  [Ownership!Next]_<<Readers, "committed" \in lines>>
  <2>1. HandoffInv /\ HandoffInv' /\ PublicOK
    BY <1>2 DEF IndInv, HandoffInv, PanesOK, TypeOK
  <2>2. CASE UNCHANGED vars
    BY <2>2, SameReaders DEF vars
  <2>3. CASE Next
    BY <2>1, <2>3, OldStepRefines, OtherStepRefines DEF Next
  <2> QED BY <1>2, <2>2, <2>3
<1> QED BY <1>1, <1>2, Inductive, PTL DEF Spec, OwnershipSpec, Ownership!Spec
-----------------------------------------------------------------------------
(* Whose descriptors keep the panes alive.                                   *)

\* The old server lacks a pane only after its commit, which follows the import server's
\* "restored"; from then on the import server lacks one only when it ends.
PanesHeld ==
    /\ \A p \in Panes : oldPane[p] = "absent" =>
           phase["old"] \in {"waitOwned", "removeLast", "gone", "dead"}
    /\ phase["old"] \in Decided => "committed" \in lines
    /\ \/ "committed" \in lines
       \/ phase["old"] \in {"removeApi", "removeClient", "waitReady", "commit"}
       => "restored" \in lines
    /\ "restored" \in lines => phase["new"] \notin {"off", "receive", "import"}
    /\ phase["old"] = "pausing" => lines = {} /\ phase["new"] = "off"
    /\ \A p \in Panes : newPane[p] = "absent" =>
           phase["new"] \in {"off", "receive", "import", "failing", "dead"}

\* The old server moves on and the import server, the stream and the panes stay.
LEMMA OldMovesHeld ==
    ASSUME HandoffInv, PanesHeld, NEW next, Goto("old", next), UNCHANGED <<lines, panes>>,
           phase["old"] \notin {"waitOwned", "removeLast", "gone", "dead"}
               \/ next \in {"removeLast", "gone", "dead"},
           next \in Decided => phase["old"] \in Decided,
           next \in {"removeApi", "removeClient", "waitReady", "commit"} => "restored" \in lines,
           next # "pausing"
    PROVE  PanesHeld'
<1>1. /\ phase'["old"] = next /\ phase'["new"] = phase["new"]
      /\ lines' = lines /\ oldPane' = oldPane /\ newPane' = newPane
  BY ServersOK, GotoPhase DEF HandoffInv, PanesOK, panes
<1>2. \A p \in Panes : oldPane[p] = "absent" => next \in {"waitOwned", "removeLast", "gone", "dead"}
  BY DEF PanesHeld
<1> QED
  BY <1>1, <1>2 DEF PanesHeld

\* The import server is killed before the old one has given up a pane.
LEMMA KillHeld ==
    ASSUME HandoffInv, PanesHeld, NEW next \in {"rollback", "waitClosed"}, KillImport(next),
           phase["old"] \in AllQuiet
    PROVE  PanesHeld'
<1>1. /\ phase'["old"] = next /\ phase'["new"] = "dead" /\ lines' = lines /\ oldPane' = oldPane
  BY ServersOK DEF KillImport, HandoffInv, PanesOK, PhasesOK
<1>2. /\ \A p \in Panes : oldPane[p] # "absent"
      /\ "committed" \in lines => "restored" \in lines
  BY DEF PanesHeld
<1> QED
  BY <1>1, <1>2 DEF PanesHeld

\* The old server's steps keep the panes held.
LEMMA OldKeepsPanesHeld ==
    ASSUME HandoffInv, PublicOK, PanesHeld,
           StartHandoff \/ OldStep \/ PauseFails \/ SpawnFails \/ DuplicateFails
    PROVE  PanesHeld'
<1>1. PhasesOK
  BY DEF HandoffInv, PanesOK
<1>2. CASE StartHandoff
  <2>1. /\ phase'["old"] = "pausing" /\ phase'["new"] = "off" /\ lines' = {}
        /\ oldPane' = oldPane /\ newPane' = newPane /\ phase["old"] = "serving"
    BY <1>1, <1>2, ServersOK DEF StartHandoff, PhasesOK, panes
  <2>2. \A p \in Panes : oldPane[p] # "absent"
    BY <2>1 DEF PanesHeld
  <2> QED
    BY <2>1, <2>2 DEF PanesHeld
<1>3. CASE \E p \in Panes : PausePane(p)
  <2>1. PICK p \in Panes : oldPane' = [oldPane EXCEPT ![p] = "paused"]
    BY <1>3 DEF PausePane
  <2>2. phase' = phase /\ lines' = lines /\ newPane' = newPane
    BY <1>3 DEF PausePane
  <2>3. \A q \in Panes : oldPane'[q] = "absent" => oldPane[q] = "absent"
    BY <2>1 DEF HandoffInv, PanesOK
  <2> QED
    BY <2>2, <2>3 DEF PanesHeld
<1>4. CASE PauseFails \/ SpawnFails
  <2>1. /\ Goto("old", "rollback") /\ phase["old"] = "pausing" /\ UNCHANGED <<lines, panes>>
    BY <1>4 DEF PauseFails, SpawnFails
  <2> QED
    BY <2>1, OldMovesHeld
<1>5. CASE SpawnImport
  <2>1. /\ phase'["old"] = "duplicate" /\ phase'["new"] = "receive" /\ lines' = lines
        /\ oldPane' = oldPane /\ newPane' = newPane /\ phase["old"] = "pausing"
    BY <1>1, <1>5, ServersOK DEF SpawnImport, PhasesOK, panes
  <2>2. (\A p \in Panes : oldPane[p] # "absent") /\ lines = {}
    BY <2>1 DEF PanesHeld
  <2> QED
    BY <2>1, <2>2 DEF PanesHeld
<1>6. CASE DuplicateFds \/ Restored \/ Ready
  <2>1. PICK next \in AllQuiet :
            /\ Goto("old", next) /\ phase["old"] \in AllQuiet /\ UNCHANGED <<lines, panes>>
            /\ next = "removeApi" => "restored" \in lines
            /\ next \in {"removeClient", "waitReady", "commit"} => phase["old"] = "waitReady"
    BY <1>6 DEF DuplicateFds, Restored, Ready
  <2>2. next \in {"removeApi", "removeClient", "waitReady", "commit"} => "restored" \in lines
    BY <2>1 DEF PanesHeld
  <2> QED
    BY <2>1, <2>2, OldMovesHeld
<1>7. CASE Validated
  <2>1. /\ phase'["old"] = "waitRestored" /\ phase'["new"] = phase["new"]
        /\ lines' = lines \cup {"fds"} /\ oldPane' = oldPane /\ newPane' = newPane
        /\ phase["old"] = "waitValidated"
    BY <1>1, <1>7, ServersOK DEF Validated, Goto, PhasesOK, panes
  <2>2. \A p \in Panes : oldPane[p] # "absent"
    BY <2>1 DEF PanesHeld
  <2> QED
    BY <2>1, <2>2 DEF PanesHeld
<1>8. CASE RemoveApiSocket \/ RemoveClientSocket
  <2>1. PICK next \in {"removeClient", "waitReady"} :
            /\ Goto("old", next) /\ UNCHANGED <<lines, panes>>
            /\ phase["old"] \in {"removeApi", "removeClient"}
    BY <1>8 DEF RemoveApiSocket, RemoveClientSocket, RemoveSocket
  <2>2. "restored" \in lines
    BY <2>1 DEF PanesHeld
  <2> QED
    BY <2>1, <2>2, OldMovesHeld
<1>9. CASE OldExits \/ CleanupSockets
  <2>1. PICK next \in {"removeLast", "gone"} :
            /\ Goto("old", next) /\ UNCHANGED <<lines, panes>>
            /\ phase["old"] \in Decided
    BY <1>9 DEF OldExits, CleanupSockets, RemoveSocket
  <2> QED
    BY <2>1, OldMovesHeld
<1>10. CASE DuplicateFails
  BY <1>10, KillHeld DEF DuplicateFails
<1>11. CASE WaitFails \/ WaitReadyFails \/ CommitFails
  <2>1. PICK next \in {"rollback", "waitClosed"} : KillImport(next) /\ phase["old"] \in AllQuiet
    BY <1>11 DEF WaitFails, WaitReadyFails, CommitFails, NoAnswer
  <2> QED
    BY <2>1, KillHeld
<1>12. CASE Commit
  <2>1. /\ phase'["old"] = "release" /\ phase'["new"] = phase["new"]
        /\ lines' = lines \cup {"committed"} /\ oldPane' = oldPane /\ newPane' = newPane
        /\ phase["old"] = "commit"
    BY <1>1, <1>12, ServersOK DEF Commit, Goto, PhasesOK, panes
  <2>2. (\A p \in Panes : oldPane[p] # "absent") /\ "restored" \in lines
    BY <2>1 DEF PanesHeld
  <2> QED
    BY <2>1, <2>2 DEF PanesHeld
<1>13. CASE RestoreSockets \/ RestoreTimesOut
  <2>1. PICK next \in {"exists", "rollback"} :
            /\ Goto("old", next) /\ phase["old"] = "waitClosed" /\ UNCHANGED <<lines, panes>>
    BY <1>13 DEF RestoreSockets, RestoreTimesOut, StartBinding
  <2> QED
    BY <2>1, OldMovesHeld
<1>14. CASE BindStep("old")
  <2>1. /\ phase["old"] \in Binding /\ UNCHANGED <<lines, panes>>
        /\ \E next \in Binding \cup {AfterBind("old"), "rollback"} : Goto("old", next)
    BY <1>1, <1>14, ServersOK, BindStepOK DEF panes
  <2>2. PICK next \in Binding \cup {"rollback"} : Goto("old", next)
    BY <2>1 DEF AfterBind
  <2> QED
    BY <2>1, <2>2, OldMovesHeld
<1>15. CASE Rollback
  <2>1. /\ phase'["old"] = "serving" /\ phase'["new"] = phase["new"] /\ lines' = lines
        /\ newPane' = newPane /\ oldPane' = [p \in Panes |-> "reading"]
    BY <1>1, <1>15, ServersOK DEF Rollback, Goto, PhasesOK
  <2>2. \A p \in Panes : oldPane'[p] # "absent"
    BY <2>1
  <2> QED
    BY <2>1, <2>2 DEF PanesHeld
<1>16. CASE ReleasePanes
  <2>1. /\ phase'["old"] = "waitOwned" /\ phase'["new"] = phase["new"] /\ lines' = lines
        /\ newPane' = newPane /\ phase["old"] = "release"
    BY <1>1, <1>16, ServersOK DEF ReleasePanes, Goto, PhasesOK
  <2> QED
    BY <2>1 DEF PanesHeld
<1> QED
  BY <1>2, <1>3, <1>4, <1>5, <1>6, <1>7, <1>8, <1>9, <1>10, <1>11, <1>12, <1>13, <1>14, <1>15,
     <1>16 DEF OldStep

\* So do the other servers' steps and the crashes.
LEMMA OthersKeepPanesHeld ==
    ASSUME HandoffInv, PublicOK, PanesHeld,
           \/ ImportStep \/ ImportRefuses
           \/ \E s \in Starters : Start(s) \/ BindStep(s) \/ StarterExits(s)
           \/ \E s \in Crashing : Crash(s)
    PROVE  PanesHeld'
<1>1. PhasesOK
  BY DEF HandoffInv, PanesOK
<1> USE ServersOK DEF PanesHeld, panes
<1>2. CASE Receive
  <2>1. /\ phase'["old"] = phase["old"] /\ phase'["new"] = "import" /\ phase["new"] = "receive"
        /\ lines' = lines \cup {"validated"} /\ oldPane' = oldPane /\ newPane' = newPane
        /\ phase["old"] = "waitValidated"
    BY <1>1, <1>2 DEF Receive, Goto, PhasesOK
  <2> QED
    BY <2>1
<1>3. CASE Import
  <2>1. /\ phase'["old"] = phase["old"] /\ phase'["new"] = "waitClosed" /\ "fds" \in lines
        /\ lines' = lines \cup {"restored"} /\ oldPane' = oldPane
        /\ phase["new"] = "import"
        /\ \A p \in Panes : newPane'[p] # "absent"
    BY <1>1, <1>3 DEF Import, Goto, PhasesOK
  <2> QED
    BY <2>1
<1>4. CASE TakeSockets
  <2>1. /\ phase'["old"] = phase["old"] /\ phase'["new"] = "exists" /\ lines' = lines
        /\ oldPane' = oldPane /\ newPane' = newPane /\ phase["new"] = "waitClosed"
    BY <1>1, <1>4 DEF TakeSockets, StartBinding, Goto, PhasesOK
  <2> QED
    BY <2>1
<1>5. CASE BindStep("new")
  <2>1. /\ phase'["old"] = phase["old"] /\ phase["new"] \in Binding
        /\ phase'["new"] \in Binding \cup {"reportReady", "failing"}
        /\ UNCHANGED <<lines, oldPane, newPane>>
    BY <1>1, <1>5, BindStepOK, GotoPhase DEF AfterBind
  <2> QED
    BY <2>1
<1>6. CASE ReportReady
  <2>1. /\ phase'["old"] = phase["old"] /\ phase'["new"] = "waitCommitted"
        /\ lines' = lines \cup {"ready"} /\ oldPane' = oldPane /\ newPane' = newPane
        /\ phase["new"] = "reportReady"
    BY <1>1, <1>6 DEF ReportReady, Goto, PhasesOK
  <2> QED
    BY <2>1
<1>7. CASE WaitCommitted
  <2>1. /\ phase'["old"] = phase["old"] /\ phase'["new"] = "own" /\ lines' = lines
        /\ oldPane' = oldPane /\ newPane' = newPane /\ phase["new"] = "waitCommitted"
    BY <1>1, <1>7 DEF WaitCommitted, Goto, PhasesOK
  <2> QED
    BY <2>1
<1>8. CASE Own
  <2>1. /\ phase'["old"] = phase["old"] /\ phase'["new"] = "serving"
        /\ lines' = lines \cup {"owned"} /\ oldPane' = oldPane
        /\ phase["new"] = "own"
        /\ \A p \in Panes : newPane'[p] # "absent"
    BY <1>1, <1>8 DEF Own, Goto, PhasesOK
  <2> QED
    BY <2>1
<1>9. CASE ImportFails \/ ImportRefuses
  <2>1. /\ phase'["old"] = phase["old"] /\ phase'["new"] = "failing" /\ phase["new"] # "off"
        /\ UNCHANGED <<lines, oldPane, newPane>>
    BY <1>1, <1>9 DEF ImportFails, ImportRefuses, Goto, PhasesOK
  <2> QED
    BY <2>1
<1>10. CASE ImportExits
  <2>1. /\ phase'["old"] = phase["old"] /\ phase'["new"] = "dead" /\ phase["new"] = "failing"
        /\ UNCHANGED <<lines, oldPane>>
    BY <1>1, <1>10 DEF ImportExits, Goto, PhasesOK
  <2> QED
    BY <2>1
<1>11. CASE \E s \in Starters : Start(s) \/ BindStep(s) \/ StarterExits(s)
  <2>1. PICK s \in Starters : Start(s) \/ BindStep(s) \/ StarterExits(s)
    BY <1>11
  <2>2. UNCHANGED <<lines, oldPane, newPane>> /\ \E next : Goto(s, next)
    BY <1>1, <2>1, BindStepOK DEF Start, StarterExits, StartBinding
  <2>3. phase'["old"] = phase["old"] /\ phase'["new"] = phase["new"]
    BY <1>1, <2>2 DEF PhasesOK, Goto
  <2> QED
    BY <2>2, <2>3
<1>12. CASE \E s \in Crashing : Crash(s)
  <2>1. PICK s \in Crashing : Crash(s)
    BY <1>12
  <2>2. CASE s = "old"
    <3>1. /\ phase'["old"] = "dead" /\ phase'["new"] = phase["new"]
          /\ UNCHANGED <<lines, newPane>>
      BY <1>1, <2>1, <2>2 DEF Crash, Goto, PhasesOK
    <3> QED
      BY <3>1
  <2>3. CASE s = "new"
    <3>1. /\ phase'["old"] = phase["old"] /\ phase'["new"] = "dead"
          /\ phase["new"] # "off" /\ UNCHANGED <<lines, oldPane>>
      BY <1>1, <2>1, <2>3 DEF Crash, Goto, PhasesOK
    <3> QED
      BY <3>1
  <2>4. CASE s \in Starters
    <3>1. /\ phase'["old"] = phase["old"] /\ phase'["new"] = phase["new"]
          /\ UNCHANGED <<lines, oldPane, newPane>>
      BY <1>1, <2>1, <2>4 DEF Crash, Goto, PhasesOK
    <3> QED
      BY <3>1
  <2> QED
    BY <2>1, <2>2, <2>3, <2>4
<1> QED
  BY <1>2, <1>3, <1>4, <1>5, <1>6, <1>7, <1>8, <1>9, <1>10, <1>11, <1>12 DEF ImportStep

\* Until the old server dies some server holds every pane, or the import server ended with
\* the commit in its stream.
THEOREM PanesAreKept == Spec => []PanesKept
<1>1. Init => PanesHeld
  BY ServersOK DEF Init, PanesHeld
<1>2. IndInv /\ PanesHeld /\ [Next]_vars => PanesHeld'
  <2> SUFFICES ASSUME IndInv, PanesHeld, [Next]_vars
               PROVE  PanesHeld'
    OBVIOUS
  <2>1. HandoffInv /\ PublicOK
    BY IndInvParts
  <2>2. CASE UNCHANGED vars
    BY <2>2 DEF vars, panes, PanesHeld
  <2>3. CASE Next
    BY <2>1, <2>3, OldKeepsPanesHeld, OthersKeepPanesHeld DEF Next
  <2> QED
    BY <2>2, <2>3
<1>3. IndInv /\ PanesHeld => PanesKept
  BY DEF IndInv, TypeOK, PhasesOK, PanesHeld, PanesKept
<1>4. QED
  BY <1>1, <1>2, <1>3, Inductive, PTL DEF Spec
-----------------------------------------------------------------------------
(* Who is behind the public sockets while nobody else starts a server.       *)

Alone == \A s \in Starters : phase[s] = "off"

\* The old server is behind both sockets, or it has given both up.
OldBound == {"serving", "pausing", "rollback", "duplicate", "waitValidated", "waitRestored",
             "removeApi"}
OldUnbound == {"waitClosed", "waitReady", "commit", "dead"} \cup Decided
\* The import server is behind both sockets.
NewBound == {"reportReady", "waitCommitted", "own", "serving"}
USE DEF OldBound, OldUnbound, NewBound

Free(k) == path[k] \in {None, Stale}

\* A server that binds finds every path free, and holds those it has bound.
BindsAlone(s) ==
    phase[s] \in Binding =>
        /\ phase[s] \in {"exists", "connect", "unlink"} => Free(sock[s])
        /\ phase[s] = "bind" => path[sock[s]] = None
        /\ phase[s] \in {"listen", "identify"} => path[sock[s]] = s
        /\ sock[s] = "client" => path["api"] = s
        /\ sock[s] = "api" => Free("client")

\* Each path follows the servers' phases, and each server knows its own files.
PathsFollow ==
    /\ \A k \in Sockets :
           /\ path[k] \in {"old", "new", None, Stale}
           /\ ident["old"][k] = "old" /\ ident["new"][k] \in {None, "new"}
           /\ path[k] = "new" => phase["new"] \in Binding \cup NewBound \cup {"failing"}
    /\ phase["old"] \in OldBound => \A k \in Sockets : path[k] = "old"
    /\ phase["old"] = "removeClient" => path["api"] # "old" /\ path["client"] = "old"
    /\ phase["old"] \in OldUnbound => \A k \in Sockets : path[k] # "old"
    /\ phase["new"] \in NewBound => \A k \in Sockets : path[k] = "new"
    /\ BindsAlone("old") /\ BindsAlone("new")

\* The two servers never bind at the same time.
PhasesFollow ==
    /\ phase["old"] \in Binding \cup {"waitClosed"} => phase["new"] = "dead"
    /\ phase["old"] \in {"serving", "pausing", "rollback"} => phase["new"] \in {"off", "dead"}
    /\ phase["new"] \in Binding \cup NewBound
           => phase["old"] \in {"waitReady", "commit", "dead"} \cup Decided

ReadersFollow ==
    /\ phase["old"] = "serving" => \A p \in Panes : oldPane[p] = "reading"
    /\ phase["new"] = "serving" => \A p \in Panes : newPane[p] = "reading"

Follow == PathsFollow /\ PhasesFollow /\ ReadersFollow

\* A free path leads to no server.
LEMMA FreeIsClosed ==
    /\ None \notin Servers /\ Stale \notin Servers
    /\ \A k \in Sockets : Free(k) => ~Connectable(k)
BY LiveHandoffAssumption DEF Servers, Free, Connectable

\* A step of the two servers leaves the others' phases alone, and one of the others is not
\* off after a step of its own.
LEMMA AloneBefore ==
    ASSUME PhasesOK, PublicOK, Next, Alone'
    PROVE  /\ Alone
           /\ \/ StartHandoff \/ OldStep \/ ImportStep
              \/ PauseFails \/ SpawnFails \/ DuplicateFails \/ ImportRefuses
              \/ Crash("old") \/ Crash("new")
<1>1. ASSUME NEW s \in Servers, NEW next, Goto(s, next)
      PROVE  phase'[s] = next /\ \A t \in Servers \ {s} : phase'[t] = phase[t]
  BY <1>1, GotoPhase
<1>2. ASSUME NEW s \in Starters, Start(s) \/ BindStep(s) \/ StarterExits(s) \/ Crash(s)
      PROVE  FALSE
  <2>1. PICK next : Goto(s, next) /\ next # "off"
    <3>1. CASE BindStep(s)
      BY <3>1, ServersOK, BindStepOK DEF AfterBind
    <3>2. CASE Start(s) \/ StarterExits(s) \/ Crash(s)
      BY <3>2 DEF Start, StartBinding, StarterExits, Crash
    <3> QED
      BY <1>2, <3>1, <3>2
  <2> QED
    BY <1>1, <2>1, ServersOK DEF Alone
<1>3. ASSUME NEW s \in Starters,
             \/ StartHandoff \/ OldStep \/ ImportStep
             \/ PauseFails \/ SpawnFails \/ DuplicateFails \/ ImportRefuses
             \/ Crash("old") \/ Crash("new")
      PROVE  phase'[s] = phase[s]
  <2> DEFINE Two == (\E next : Goto("old", next)) \/ (\E next : Goto("new", next))
  <2>1. CASE Two
    BY <1>1, <2>1, ServersOK
  <2>2. s # "old" /\ s # "new" /\ s \in Servers
    BY ServersOK
  <2> HIDE DEF Two
  <2>3. CASE StartHandoff \/ SpawnImport \/ \E next : KillImport(next)
    BY <2>2, <2>3 DEF StartHandoff, SpawnImport, KillImport, PhasesOK
  <2>4. CASE \/ DuplicateFails \/ WaitFails \/ WaitReadyFails \/ CommitFails
    BY <2>3, <2>4 DEF DuplicateFails, WaitFails, WaitReadyFails, CommitFails
  <2>5. CASE \E p \in Panes : PausePane(p)
    BY <2>5 DEF PausePane
  <2>6. CASE BindStep("old") \/ BindStep("new")
    BY <2>1, <2>6, ServersOK, BindStepOK DEF Two
  <2>7. CASE \/ DuplicateFds \/ Validated \/ Restored \/ RemoveApiSocket \/ RemoveClientSocket
             \/ Ready \/ Commit \/ RestoreSockets \/ RestoreTimesOut \/ Rollback \/ ReleasePanes
             \/ OldExits \/ CleanupSockets \/ PauseFails \/ SpawnFails
    <3>1. \E next : Goto("old", next)
      BY <2>7 DEF DuplicateFds, Validated, Restored, RemoveApiSocket, RemoveClientSocket,
         RemoveSocket, Ready, Commit, RestoreSockets, StartBinding, RestoreTimesOut, Rollback,
         ReleasePanes, OldExits, CleanupSockets, PauseFails, SpawnFails
    <3> QED
      BY <2>1, <3>1 DEF Two
  <2>8. CASE \/ Receive \/ Import \/ TakeSockets \/ ReportReady \/ WaitCommitted \/ Own
             \/ ImportFails \/ ImportExits \/ ImportRefuses
    <3>1. \E next : Goto("new", next)
      BY <2>8 DEF Receive, Import, TakeSockets, StartBinding, ReportReady, WaitCommitted, Own,
         ImportFails, ImportExits, ImportRefuses
    <3> QED
      BY <2>1, <3>1 DEF Two
  <2>9. CASE Crash("old") \/ Crash("new")
    <3>1. \E next : Goto("old", next) \/ Goto("new", next)
      BY <2>9 DEF Crash
    <3> QED
      BY <2>1, <3>1 DEF Two
  <2> QED
    BY <1>3, <2>3, <2>4, <2>5, <2>6, <2>7, <2>8, <2>9 DEF OldStep, ImportStep
<1>4. \/ StartHandoff \/ OldStep \/ ImportStep
      \/ PauseFails \/ SpawnFails \/ DuplicateFails \/ ImportRefuses
      \/ Crash("old") \/ Crash("new")
  BY <1>2, ServersOK DEF Next
<1> QED
  BY <1>3, <1>4 DEF Alone

\* What a step of a server that binds alone comes to: it never fails.
LEMMA BindsOn ==
    ASSUME PhasesOK, PublicOK, NEW s \in {"old", "new"}, BindStep(s), BindsAlone(s)
    PROVE  /\ phase[s] \in Binding /\ BindsAlone(s)'
           /\ \E next \in Binding \cup {AfterBind(s)} : Goto(s, next)
           /\ phase'[s] = AfterBind(s) => \A k \in Sockets : path'[k] = s
           /\ \A k \in Sockets : path'[k] \in {path[k], None, s}
           /\ \A k \in Sockets : ident'[s][k] \in {ident[s][k], s}
           /\ \A t \in Servers \ {s} : ident'[t] = ident[t]
           /\ UNCHANGED <<lines, panes>>
<1>1. /\ s \in Servers /\ sock[s] \in Sockets /\ phase[s] \in Binding
      /\ UNCHANGED <<lines, panes>>
  BY ServersOK, BindStepOK DEF BindStep, PublicOK
<1>2. ~ConnectBusy(s) /\ ~BindTaken(s) /\ ~IdentifyFails(s)
  BY <1>1, FreeIsClosed DEF ConnectBusy, BindTaken, IdentifyFails, BindsAlone
<1>3. AfterBind(s) \in {"rollback", "reportReady"}
  BY DEF AfterBind
<1>4. ASSUME NEW next, Goto(s, next)
      PROVE  phase'[s] = next
  BY <1>1, <1>4, GotoPhase
<1>5. CASE Exists(s)
  <2>1. phase'[s] = (IF path[sock[s]] = None THEN "bind" ELSE "connect")
    BY <1>4, <1>5 DEF Exists
  <2>2. phase[s] = "exists" /\ UNCHANGED <<sock, path, ident>>
    BY <1>5 DEF Exists, public
  <2>3. BindsAlone(s)'
    BY <1>1, <2>1, <2>2 DEF BindsAlone, Free
  <2> QED
    BY <1>1, <1>3, <1>5, <2>1, <2>2, <2>3 DEF Exists
<1>6. CASE ConnectRefused(s)
  <2>1. phase'[s] = "unlink" /\ phase[s] = "connect" /\ UNCHANGED <<sock, path, ident>>
    BY <1>4, <1>6 DEF ConnectRefused, public
  <2>2. BindsAlone(s)'
    BY <1>1, <2>1 DEF BindsAlone, Free
  <2> QED
    BY <1>1, <1>3, <1>6, <2>1, <2>2 DEF ConnectRefused
<1>7. CASE Unlink(s)
  <2>1. /\ phase'[s] = "bind" /\ phase[s] = "unlink" /\ UNCHANGED <<sock, ident>>
        /\ \A k \in Sockets : path'[k] = IF k = sock[s] THEN None ELSE path[k]
    BY <1>1, <1>4, <1>7 DEF Unlink, PublicOK
  <2>2. BindsAlone(s)'
    BY <1>1, <2>1 DEF BindsAlone, Free
  <2> QED
    BY <1>1, <1>3, <1>7, <2>1, <2>2 DEF Unlink
<1>8. CASE Bind(s)
  <2>1. /\ phase'[s] = "listen" /\ phase[s] = "bind" /\ UNCHANGED <<sock, ident>>
        /\ \A k \in Sockets : path'[k] = IF k = sock[s] THEN s ELSE path[k]
    BY <1>1, <1>4, <1>8 DEF Bind, PublicOK
  <2>2. BindsAlone(s)'
    BY <1>1, <2>1 DEF BindsAlone, Free
  <2> QED
    BY <1>1, <1>3, <1>8, <2>1, <2>2 DEF Bind
<1>9. CASE Listen(s)
  <2>1. phase'[s] = "identify" /\ phase[s] = "listen" /\ UNCHANGED <<sock, path, ident>>
    BY <1>4, <1>9 DEF Listen, public
  <2>2. BindsAlone(s)'
    BY <1>1, <2>1 DEF BindsAlone, Free
  <2> QED
    BY <1>1, <1>3, <1>9, <2>1, <2>2 DEF Listen
<1>10. CASE Identify(s)
  <2>1. /\ phase[s] = "identify" /\ path[sock[s]] = s
        /\ path["api"] = s
        /\ sock[s] = "api" => Free("client")
    BY <1>1, <1>10 DEF Identify, BindsAlone
  <2>2. /\ phase'[s] = (IF sock[s] = "api" THEN "exists" ELSE AfterBind(s))
        /\ sock'[s] = "client" /\ path' = path
    BY <1>1, <1>4, <1>10 DEF Identify, PublicOK
  <2>3. /\ \A k \in Sockets : ident'[s][k] \in {ident[s][k], s}
        /\ \A t \in Servers \ {s} : ident'[t] = ident[t]
    BY <1>1, <1>10, <2>1 DEF Identify, PublicOK
  <2>4. BindsAlone(s)'
    BY <1>1, <1>3, <2>1, <2>2 DEF BindsAlone, Free
  <2>5. phase'[s] = AfterBind(s) => \A k \in Sockets : path'[k] = s
    BY <1>1, <1>3, <2>1, <2>2
  <2>6. \E next \in Binding \cup {AfterBind(s)} : Goto(s, next)
    BY <1>10 DEF Identify
  <2> QED
    BY <1>1, <2>2, <2>3, <2>4, <2>5, <2>6
<1> QED
  BY <1>2, <1>5, <1>6, <1>7, <1>8, <1>9, <1>10 DEF BindStep
\* The old server goes on without touching the paths.
LEMMA OldMovesAlone ==
    ASSUME PhasesOK, Follow, NEW next, Goto("old", next), UNCHANGED <<public, newPane>>,
           phase["old"] \notin Binding, next \notin Binding \cup {"waitClosed", "removeClient"},
           next \in OldBound => phase["old"] \in OldBound,
           next \in OldUnbound => phase["old"] \in OldUnbound,
           phase["old"] \in {"waitReady", "commit", "dead"} \cup Decided
               => next \in {"waitReady", "commit", "dead"} \cup Decided,
           next \in {"serving", "pausing", "rollback"}
               => phase["old"] \in {"serving", "pausing", "rollback"},
           next = "serving" => \A p \in Panes : oldPane'[p] = "reading"
    PROVE  Follow'
<1>1. /\ phase'["old"] = next /\ phase'["new"] = phase["new"]
      /\ path' = path /\ sock' = sock /\ ident' = ident /\ newPane' = newPane
  BY ServersOK, GotoPhase DEF public
<1>2. PathsFollow'
  BY <1>1 DEF Follow, PathsFollow, BindsAlone, Free
<1>3. PhasesFollow'
  BY <1>1 DEF Follow, PhasesFollow
<1>4. ReadersFollow'
  BY <1>1 DEF Follow, ReadersFollow
<1> QED
  BY <1>2, <1>3, <1>4 DEF Follow

\* So does the import server.
LEMMA NewMovesAlone ==
    ASSUME PhasesOK, Follow, NEW next, Goto("new", next), UNCHANGED <<public, oldPane>>,
           phase["new"] \notin Binding \cup {"off", "dead"},
           next \notin Binding \cup {"off", "dead"},
           next \in NewBound => phase["new"] \in NewBound,
           phase["new"] \in NewBound \cup {"failing"} => next \in NewBound \cup {"failing"},
           next = "serving" => \A p \in Panes : newPane'[p] = "reading"
    PROVE  Follow'
<1>1. /\ phase'["new"] = next /\ phase'["old"] = phase["old"]
      /\ path' = path /\ sock' = sock /\ ident' = ident /\ oldPane' = oldPane
  BY ServersOK, GotoPhase DEF public
<1>2. PathsFollow'
  BY <1>1 DEF Follow, PathsFollow, BindsAlone, Free
<1>3. PhasesFollow'
  BY <1>1 DEF Follow, PhasesFollow
<1>4. ReadersFollow'
  BY <1>1 DEF Follow, ReadersFollow
<1> QED
  BY <1>2, <1>3, <1>4 DEF Follow

\* The import server's paths go stale when it is killed.
LEMMA KillAlone ==
    ASSUME PhasesOK, PublicOK, Follow, NEW next, KillImport(next),
           \/ next = "rollback" /\ phase["old"] \in OldBound
           \/ next = "waitClosed" /\ phase["old"] \in {"waitReady", "commit"}
    PROVE  Follow'
<1>1. /\ phase'["old"] = next /\ phase'["new"] = "dead" /\ ident' = ident
      /\ \A k \in Sockets : path'[k] = IF path[k] = "new" THEN Stale ELSE path[k]
  BY ServersOK DEF KillImport, Leftover, PhasesOK
<1>2. PathsFollow'
  BY <1>1 DEF Follow, PathsFollow, BindsAlone
<1>3. PhasesFollow' /\ ReadersFollow'
  BY <1>1 DEF PhasesFollow, ReadersFollow
<1> QED
  BY <1>2, <1>3 DEF Follow

\* The old server removes a file only if it is its own.
LEMMA RemoveAlone ==
    ASSUME PhasesOK, PublicOK, Follow, NEW from, NEW k \in Sockets, NEW to, RemoveSocket(from, k, to),
           \/ from = "removeApi" /\ k = "api" /\ to = "removeClient"
           \/ from = "removeClient" /\ k = "client" /\ to = "waitReady"
           \/ from \in Decided /\ to \in Decided
    PROVE  Follow'
<1>1. /\ phase["old"] = from /\ phase'["old"] = to /\ phase'["new"] = phase["new"]
      /\ ident' = ident /\ sock' = sock /\ UNCHANGED <<oldPane, newPane>>
  BY ServersOK, GotoPhase DEF RemoveSocket, panes
<1>2. /\ path' = [path EXCEPT ![k] = IF path[k] = "old" THEN None ELSE path[k]]
      /\ ident["old"][k] = "old"
  BY DEF RemoveSocket, RemoveIfOwned, Owned, Follow, PathsFollow
<1>3. /\ path'[k] = IF path[k] = "old" THEN None ELSE path[k]
      /\ \A j \in Sockets \ {k} : path'[j] = path[j]
  BY <1>2 DEF PublicOK
<1>4. PhasesFollow' /\ ReadersFollow'
  BY <1>1 DEF Follow, PhasesFollow, ReadersFollow
<1>5. CASE from \in {"removeApi", "removeClient"}
  <2>1. PathsFollow'
    BY <1>1, <1>3, <1>5 DEF Follow, PathsFollow, PhasesFollow, BindsAlone
  <2> QED
    BY <1>4, <2>1 DEF Follow
<1>6. CASE from \in Decided
  <2>1. path[k] # "old"
    BY <1>1, <1>6 DEF Follow, PathsFollow
  <2>2. \A j \in Sockets : path'[j] = path[j]
    BY <1>3, <2>1
  <2>3. phase["old"] \in Decided /\ phase'["old"] \in Decided
    BY <1>1, <1>6
  <2>4. sock["new"] \in Sockets
    BY ServersOK DEF PublicOK
  <2>5. BindsAlone("new")'
    BY <1>1, <2>2, <2>4 DEF BindsAlone, Free, Follow, PathsFollow
  <2>6. PathsFollow'
    BY <1>1, <2>2, <2>3, <2>5 DEF Follow, PathsFollow, BindsAlone
  <2> QED
    BY <1>4, <2>6 DEF Follow
<1> QED
  BY <1>5, <1>6

\* Both servers' steps keep the paths following the phases.
LEMMA OldKeepsFollow ==
    ASSUME PhasesOK, PublicOK, Follow,
           StartHandoff \/ OldStep \/ PauseFails \/ SpawnFails \/ DuplicateFails
    PROVE  Follow'
<1>1. CASE StartHandoff
  <2>1. /\ phase["old"] = "serving" /\ phase["new"] \in {"off", "dead"}
        /\ phase'["old"] = "pausing" /\ phase'["new"] = "off"
        /\ path' = path /\ sock' = sock /\ ident'["old"] = ident["old"]
        /\ \A k \in Sockets : ident'["new"][k] = None
    BY <1>1, ServersOK DEF StartHandoff, PhasesOK, PublicOK
  <2>2. PathsFollow'
    BY <2>1 DEF Follow, PathsFollow, BindsAlone, Free
  <2>3. PhasesFollow' /\ ReadersFollow'
    BY <2>1 DEF PhasesFollow, ReadersFollow
  <2> QED
    BY <2>2, <2>3 DEF Follow
<1>2. CASE \E p \in Panes : PausePane(p)
  <2>1. /\ phase["old"] = "pausing" /\ phase' = phase /\ newPane' = newPane
        /\ path' = path /\ sock' = sock /\ ident' = ident
    BY <1>2 DEF PausePane, public
  <2>2. PathsFollow'
    BY <2>1 DEF Follow, PathsFollow, BindsAlone, Free
  <2>3. PhasesFollow' /\ ReadersFollow'
    BY <2>1 DEF Follow, PhasesFollow, ReadersFollow
  <2> QED
    BY <2>2, <2>3 DEF Follow
<1>3. CASE SpawnImport
  <2>1. /\ phase["old"] = "pausing" /\ phase'["old"] = "duplicate" /\ phase'["new"] = "receive"
        /\ path' = path /\ sock' = sock /\ ident' = ident
    BY <1>3, ServersOK DEF SpawnImport, PhasesOK, public
  <2>2. phase["new"] \in {"off", "dead"}
    BY <2>1 DEF Follow, PhasesFollow
  <2>3. PathsFollow'
    BY <2>1, <2>2 DEF Follow, PathsFollow, BindsAlone, Free
  <2>4. PhasesFollow' /\ ReadersFollow'
    BY <2>1 DEF PhasesFollow, ReadersFollow
  <2> QED
    BY <2>3, <2>4 DEF Follow
<1>4. CASE \/ PauseFails \/ SpawnFails \/ DuplicateFds \/ Validated \/ Restored
           \/ Ready \/ Commit \/ ReleasePanes
  <2>1. PICK next :
            /\ Goto("old", next) /\ UNCHANGED <<public, newPane>>
            /\ <<phase["old"], next>> \in
                 {<<"pausing", "rollback">>, <<"duplicate", "waitValidated">>,
                  <<"waitValidated", "waitRestored">>, <<"waitRestored", "removeApi">>,
                  <<"waitReady", "commit">>, <<"commit", "release">>, <<"release", "waitOwned">>}
    BY <1>4 DEF PauseFails, SpawnFails, DuplicateFds, Validated, Restored, Ready, Commit,
       ReleasePanes, panes
  <2> QED
    BY <2>1, OldMovesAlone
<1>5. CASE Rollback
  <2>1. /\ Goto("old", "serving") /\ UNCHANGED <<public, newPane>> /\ phase["old"] = "rollback"
        /\ \A p \in Panes : oldPane'[p] = "reading"
    BY <1>5 DEF Rollback
  <2> QED
    BY <2>1, OldMovesAlone
<1>6. CASE DuplicateFails \/ WaitFails
  <2>1. KillImport("rollback") /\ phase["old"] \in {"duplicate", "waitValidated", "waitRestored"}
    BY <1>6 DEF DuplicateFails, WaitFails, NoAnswer
  <2> QED
    BY <2>1, KillAlone
<1>7. CASE WaitReadyFails \/ CommitFails
  <2>1. KillImport("waitClosed") /\ phase["old"] \in {"waitReady", "commit"}
    BY <1>7 DEF WaitReadyFails, CommitFails, NoAnswer
  <2> QED
    BY <2>1, KillAlone
<1>8. CASE RemoveApiSocket \/ RemoveClientSocket \/ CleanupSockets
  BY <1>8, RemoveAlone DEF RemoveApiSocket, RemoveClientSocket, CleanupSockets
<1>9. CASE OldExits
  <2>1. RemoveSocket("waitOwned", "api", "removeLast")
    BY <1>9 DEF OldExits, RemoveSocket
  <2> QED
    BY <2>1, RemoveAlone
<1>10. CASE RestoreSockets
  <2>1. /\ phase["old"] = "waitClosed" /\ phase'["old"] = "exists" /\ phase'["new"] = phase["new"]
        /\ sock'["old"] = "api" /\ path' = path /\ ident' = ident /\ UNCHANGED <<oldPane, newPane>>
    BY <1>10, ServersOK, GotoPhase DEF RestoreSockets, StartBinding, PublicOK, panes
  <2>2. phase["new"] = "dead" /\ \A k \in Sockets : Free(k)
    BY <2>1 DEF Follow, PathsFollow, PhasesFollow, Free
  <2>3. PathsFollow'
    BY <2>1, <2>2 DEF Follow, PathsFollow, BindsAlone, Free
  <2>4. PhasesFollow' /\ ReadersFollow'
    BY <2>1, <2>2 DEF Follow, PhasesFollow, ReadersFollow
  <2> QED
    BY <2>3, <2>4 DEF Follow
<1>11. CASE RestoreTimesOut
  <2>1. phase["old"] = "waitClosed" /\ \E k \in Sockets : Connectable(k)
    BY <1>11 DEF RestoreTimesOut
  <2>2. \A k \in Sockets : Free(k)
    BY <2>1 DEF Follow, PathsFollow, PhasesFollow, Free
  <2> QED
    BY <2>1, <2>2, FreeIsClosed
<1>12. CASE BindStep("old")
  <2>1. /\ phase["old"] \in Binding /\ BindsAlone("old")'
        /\ \E next \in Binding \cup {"rollback"} : Goto("old", next)
        /\ phase'["old"] = "rollback" => \A k \in Sockets : path'[k] = "old"
        /\ \A k \in Sockets : path'[k] \in {path[k], None, "old"}
        /\ \A k \in Sockets : ident'["old"][k] \in {ident["old"][k], "old"}
        /\ \A t \in Servers \ {"old"} : ident'[t] = ident[t]
        /\ UNCHANGED <<oldPane, newPane>>
    BY <1>12, BindsOn DEF Follow, PathsFollow, AfterBind, panes
  <2>2. phase'["old"] \in Binding \cup {"rollback"} /\ phase'["new"] = phase["new"]
    BY <2>1, ServersOK, GotoPhase
  <2>3. phase["new"] = "dead"
    BY <2>1 DEF Follow, PhasesFollow
  <2>4. ident'["new"] = ident["new"]
    BY <2>1, ServersOK
  <2>5. PathsFollow'
    BY <2>1, <2>2, <2>3, <2>4 DEF Follow, PathsFollow, BindsAlone
  <2>6. PhasesFollow' /\ ReadersFollow'
    BY <2>1, <2>2, <2>3 DEF PhasesFollow, ReadersFollow
  <2> QED
    BY <2>5, <2>6 DEF Follow
<1> QED
  BY <1>1, <1>2, <1>3, <1>4, <1>5, <1>6, <1>7, <1>8, <1>9, <1>10, <1>11, <1>12 DEF OldStep

\* So do the import server's, and the two servers' crashes.
LEMMA OthersKeepFollow ==
    ASSUME PhasesOK, PublicOK, Follow, ImportStep \/ ImportRefuses \/ Crash("old") \/ Crash("new")
    PROVE  Follow'
<1>1. CASE \/ Receive \/ Import \/ ReportReady \/ WaitCommitted \/ Own
           \/ ImportFails \/ ImportRefuses
  <2>1. PICK next :
            /\ Goto("new", next) /\ UNCHANGED <<public, oldPane>>
            /\ next = "serving" => \A p \in Panes : newPane'[p] = "reading"
            /\ <<phase["new"], next>> \in
                 {<<"receive", "import">>, <<"import", "waitClosed">>,
                  <<"reportReady", "waitCommitted">>, <<"waitCommitted", "own">>,
                  <<"own", "serving">>, <<"receive", "failing">>, <<"import", "failing">>,
                  <<"reportReady", "failing">>, <<"waitCommitted", "failing">>,
                  <<"waitClosed", "failing">>}
    BY <1>1 DEF Receive, Import, ReportReady, WaitCommitted, Own, ImportFails, ImportRefuses, panes
  <2>2. /\ phase["new"] \notin Binding \cup {"off", "dead"}
        /\ next \notin Binding \cup {"off", "dead"}
        /\ next \in NewBound => phase["new"] \in NewBound
        /\ phase["new"] \in NewBound \cup {"failing"} => next \in NewBound \cup {"failing"}
    BY <2>1
  <2> QED
    BY <2>1, <2>2, NewMovesAlone, Zenon
<1>2. CASE TakeSockets
  <2>1. /\ phase["new"] = "waitClosed" /\ \A k \in Sockets : ~Connectable(k)
        /\ phase'["new"] = "exists" /\ phase'["old"] = phase["old"]
        /\ sock'["new"] = "api" /\ path' = path /\ ident' = ident /\ UNCHANGED <<oldPane, newPane>>
    BY <1>2, ServersOK, GotoPhase DEF TakeSockets, StartBinding, PublicOK, panes
  <2>2. phase["old"] \notin Binding \cup {"waitClosed"}
    BY <2>1 DEF Follow, PhasesFollow
  <2>3. \A k \in Sockets : path[k] # "old"
    BY <2>1, <2>2, ServersOK DEF Connectable
  <2>4. \A k \in Sockets : Free(k)
    BY <2>1, <2>3 DEF Follow, PathsFollow, Free
  <2>5. phase["old"] \in {"waitReady", "commit", "dead"} \cup Decided
    BY <2>2, <2>3 DEF Follow, PathsFollow, PhasesOK
  <2>6. PathsFollow'
    BY <2>1, <2>4, <2>5 DEF Follow, PathsFollow, BindsAlone, Free
  <2>7. PhasesFollow' /\ ReadersFollow'
    BY <2>1, <2>5 DEF Follow, PhasesFollow, ReadersFollow
  <2> QED
    BY <2>6, <2>7 DEF Follow
<1>3. CASE BindStep("new")
  <2>1. /\ phase["new"] \in Binding /\ BindsAlone("new")'
        /\ \E next \in Binding \cup {"reportReady"} : Goto("new", next)
        /\ phase'["new"] = "reportReady" => \A k \in Sockets : path'[k] = "new"
        /\ \A k \in Sockets : path'[k] \in {path[k], None, "new"}
        /\ \A k \in Sockets : ident'["new"][k] \in {ident["new"][k], "new"}
        /\ \A t \in Servers \ {"new"} : ident'[t] = ident[t]
        /\ UNCHANGED <<oldPane, newPane>>
    BY <1>3, BindsOn DEF Follow, PathsFollow, AfterBind, panes
  <2>2. phase'["new"] \in Binding \cup {"reportReady"} /\ phase'["old"] = phase["old"]
    BY <2>1, ServersOK, GotoPhase
  <2>3. phase["old"] \in {"waitReady", "commit", "dead"} \cup Decided
    BY <2>1 DEF Follow, PhasesFollow
  <2>4. ident'["old"] = ident["old"]
    BY <2>1, ServersOK
  <2>5. \A k \in Sockets : path[k] # "old"
    BY <2>3 DEF Follow, PathsFollow
  <2>6. PathsFollow'
    BY <2>1, <2>2, <2>3, <2>4, <2>5
       DEF Follow, PathsFollow, BindsAlone
  <2>7. PhasesFollow' /\ ReadersFollow'
    BY <2>1, <2>2, <2>3 DEF Follow, PhasesFollow, ReadersFollow
  <2> QED
    BY <2>6, <2>7 DEF Follow
<1>4. CASE ImportExits
  <2>1. /\ phase["new"] = "failing" /\ phase'["new"] = "dead" /\ phase'["old"] = phase["old"]
        /\ ident' = ident /\ sock' = sock /\ oldPane' = oldPane
    BY <1>4, ServersOK, GotoPhase DEF ImportExits
  <2>2. \A k \in Sockets : path'[k] = IF Owned("new", k) THEN None
                                      ELSE IF path[k] = "new" THEN Stale ELSE path[k]
    BY <1>4 DEF ImportExits, Leftover
  <2>3. \A k \in Sockets : Owned("new", k) => path[k] = "new"
    BY DEF Owned, Follow, PathsFollow
  <2>4. \A k \in Sockets : IF path[k] = "new" THEN path'[k] \in {None, Stale} ELSE path'[k] = path[k]
    BY <2>2, <2>3
  <2>5. phase["old"] \notin Binding
    BY <2>1 DEF Follow, PhasesFollow
  <2>6. PathsFollow'
    BY <2>1, <2>4, <2>5 DEF Follow, PathsFollow, BindsAlone
  <2>7. PhasesFollow' /\ ReadersFollow'
    BY <2>1 DEF Follow, PhasesFollow, ReadersFollow
  <2> QED
    BY <2>6, <2>7 DEF Follow
<1>5. CASE Crash("old")
  <2>1. /\ phase'["old"] = "dead" /\ phase'["new"] = phase["new"]
        /\ ident' = ident /\ sock' = sock /\ newPane' = newPane
        /\ \A k \in Sockets : path'[k] = IF path[k] = "old" THEN Stale ELSE path[k]
    BY <1>5, ServersOK, GotoPhase DEF Crash, Leftover
  <2>2. sock["new"] \in Sockets
    BY ServersOK DEF PublicOK
  <2>3. BindsAlone("new")'
    BY <2>1, <2>2 DEF BindsAlone, Free, Follow, PathsFollow
  <2>4. PathsFollow'
    BY <2>1, <2>3 DEF Follow, PathsFollow, BindsAlone
  <2>5. PhasesFollow' /\ ReadersFollow'
    BY <2>1 DEF Follow, PhasesFollow, ReadersFollow
  <2> QED
    BY <2>4, <2>5 DEF Follow
<1>6. CASE Crash("new")
  <2>1. /\ phase["new"] \notin {"off", "dead"} /\ phase'["new"] = "dead"
        /\ phase'["old"] = phase["old"] /\ ident' = ident /\ sock' = sock /\ oldPane' = oldPane
        /\ \A k \in Sockets : path'[k] = IF path[k] = "new" THEN Stale ELSE path[k]
    BY <1>6, ServersOK, GotoPhase DEF Crash, Leftover
  <2>2. phase["old"] \notin Binding
    BY <2>1 DEF Follow, PhasesFollow
  <2>3. PathsFollow'
    BY <2>1, <2>2 DEF Follow, PathsFollow, BindsAlone
  <2>4. PhasesFollow' /\ ReadersFollow'
    BY <2>1 DEF Follow, PhasesFollow, ReadersFollow
  <2> QED
    BY <2>3, <2>4 DEF Follow
<1> QED
  BY <1>1, <1>2, <1>3, <1>4, <1>5, <1>6 DEF ImportStep

\* While nobody else starts a server, whoever serves after a handoff, finished or rolled
\* back, is behind both public sockets and reads every pane.
THEOREM ReachableAlone == Spec => []ReachableIfAlone
<1>1. Init => Follow
  BY ServersOK DEF Init, Follow, PathsFollow, PhasesFollow, ReadersFollow, BindsAlone
<1>2. IndInv /\ (Alone => Follow) /\ [Next]_vars => (Alone => Follow)'
  <2> SUFFICES ASSUME IndInv, Alone => Follow, [Next]_vars, Alone'
               PROVE  Follow'
    OBVIOUS
  <2>1. PhasesOK /\ PublicOK
    BY DEF IndInv, TypeOK
  <2>2. CASE UNCHANGED vars
    <3>1. /\ phase' = phase /\ path' = path /\ sock' = sock /\ ident' = ident
          /\ oldPane' = oldPane /\ newPane' = newPane
      BY <2>2 DEF vars, public, panes
    <3>2. Follow
      BY <3>1 DEF Alone
    <3> QED
      BY <3>1, <3>2 DEF Follow, PathsFollow, PhasesFollow, ReadersFollow, BindsAlone, Free
  <2>3. CASE Next
    BY <2>1, <2>3, AloneBefore, OldKeepsFollow, OthersKeepFollow
  <2> QED
    BY <2>2, <2>3
<1>3. (Alone => Follow) => ReachableIfAlone
  BY DEF Alone, Follow, PathsFollow, ReadersFollow, ReachableIfAlone,
     PanesAreReachable
<1>4. QED
  BY <1>1, <1>2, <1>3, Inductive, PTL DEF Spec
=============================================================================
