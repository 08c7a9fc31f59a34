------------------------------ MODULE PtyActor ------------------------------
(***************************************************************************)
(* The PTY I/O actor of one pane (src/src/pty/actor/unix.rs): a thread     *)
(* that owns the master side of the pane's PTY, and the cloneable handle   *)
(* through which the rest of the server uses it.                           *)
(*                                                                         *)
(* Three kinds of actor take steps:                                        *)
(*   - writers: any thread that sends user input through the handle;       *)
(*   - the server's main thread, which resizes the pane and, for a live    *)
(*     handoff, quiesces the actor, duplicates its descriptor and either   *)
(*     rolls back or releases it, each by a command with a reply channel   *)
(*     and a timeout;                                                      *)
(*   - the runner, the actor's loop: control commands, data commands,      *)
(*     pending resize/nudge, flush, poll, read.                            *)
(*                                                                         *)
(* A user write is the number of its acceptance (1, 2, ...); Response is a *)
(* reply the terminal emulator sends to the child.  A window size is a     *)
(* positive number, 0 where the code has None.                             *)
(***************************************************************************)
EXTENDS Naturals, Sequences, FiniteSets

CONSTANTS
    Writers,           \* threads that send user input
    Buffer,            \* ACTOR_COMMAND_BUFFER
    Sizes,             \* window sizes
    InitiallyQuiesced, \* values of PtyIoActorConfig.initially_quiesced (TRUE: an imported pane)
    CallsTimeOut,      \* a reply may come after its recv_timeout
    IdleTimeout,       \* the poll's ACTOR_IDLE_POLL_MS may expire
    IoErrors,          \* write(2) and poll(2) on the PTY may fail
    MaxWrites,         \* bound: user writes accepted
    MaxHandoffs,       \* bound: handoffs begun
    MaxNudges,         \* bound: redraw nudges
    MaxResponses,      \* bound: responses of the terminal emulator
    MaxOutput          \* bound: chunks of child output waiting in the PTY

ASSUME ConstantsAssumption ==
    /\ Buffer \in Nat \ {0}
    /\ Sizes \subseteq Nat \ {0} /\ Sizes # {}
    /\ InitiallyQuiesced \subseteq BOOLEAN /\ InitiallyQuiesced # {}
    /\ {CallsTimeOut, IdleTimeout, IoErrors} \subseteq BOOLEAN
    /\ {MaxWrites, MaxHandoffs, MaxNudges, MaxResponses, MaxOutput} \subseteq Nat

VARIABLES
    gate,       \* UserWriteGate.accepting
    dataQ,      \* the bounded data channel
    ctlQ,       \* the control channel; live: the caller still waits for the reply
    resizeReq,  \* SharedPtyControls.resize
    nudgeReq,   \* SharedPtyControls.nudge
    wake,       \* a byte is in the wake pipe
    state,      \* ActorState
    pc,         \* where the runner is in its loop
    curLive,    \* the BeginHandoff being executed still has a waiting caller
    pending,    \* pending_writes
    offset,     \* current_write_offset: 0, or 1 inside the first pending write
    wpc,        \* where each writer is in write_user_input
    main,       \* where the main thread is in the handoff protocol
    reply,      \* the reply waiting in the main thread's current reply channel
    current,    \* PaneRuntime.current_size
    winSize,    \* the PTY's window size
    output,     \* child output not yet read from the PTY
    eof,        \* the child has closed its side
    accepted,   \* user writes accepted so far
    delivered,  \* user writes that reached the PTY completely, in order
    lost,       \* a write error has cleared pending_writes
    handoffs, nudges, responses  \* steps taken of each bounded kind

handleVars == <<gate, dataQ, ctlQ, resizeReq, nudgeReq, wake>>
runnerVars == <<state, pc, curLive, pending, offset>>
serverVars == <<main, reply, current>>
ptyVars    == <<winSize, output, eof>>
boundVars  == <<handoffs, nudges, responses>>
histVars   == <<accepted, delivered, lost, boundVars>>
vars == <<handleVars, runnerVars, serverVars, ptyVars, histVars, wpc>>

Response == 0
NoResize == [size |-> 0, report |-> FALSE]
ResizeRequests == [size : Sizes, report : BOOLEAN]
Ops == {"begin", "dup", "rollback", "release", "shutdown"}
Commands == [op : Ops, live : BOOLEAN]

\* The runner of an imported pane starts quiesced.
InitialState(quiesced) == IF quiesced THEN "Quiesced" ELSE "Running"

\* A pane of this server serves at once and asks for no redraw nudge.
InitWith(quiesced) ==
    /\ gate = ~quiesced
    /\ dataQ = <<>> /\ ctlQ = <<>>
    /\ resizeReq = NoResize /\ nudgeReq = 0
    /\ wake = FALSE
    /\ state = InitialState(quiesced)
    /\ pc = "control" /\ curLive = FALSE
    /\ pending = <<>> /\ offset = 0
    /\ wpc = [w \in Writers |-> "idle"]
    /\ main = IF quiesced THEN "imported" ELSE "serving"
    /\ reply = "none"
    /\ current \in Sizes /\ winSize = current
    /\ output = 0 /\ eof = FALSE
    /\ accepted = 0 /\ delivered = <<>> /\ lost = FALSE
    /\ handoffs = 0 /\ responses = 0
    /\ nudges = IF quiesced THEN 0 ELSE MaxNudges

Init == \E quiesced \in InitiallyQuiesced : InitWith(quiesced)

-----------------------------------------------------------------------------
(* Writers.                                                                *)

Permits == Cardinality({w \in Writers : wpc[w] = "permit"})
HasCapacity == Len(dataQ) + Permits < Buffer
\* A writer that has sent still holds the gate's lock until it has woken the runner.
GateUnlocked == \A w \in Writers : wpc[w] # "waking"

Accept(w) ==
    /\ accepted < MaxWrites
    /\ accepted' = accepted + 1
    /\ dataQ' = IF pc = "exited" THEN dataQ ELSE Append(dataQ, accepted + 1)
    /\ wpc' = [wpc EXCEPT ![w] = "waking"]
    /\ UNCHANGED <<gate, ctlQ, resizeReq, nudgeReq, wake, runnerVars, serverVars,
                   ptyVars, delivered, lost, boundVars>>

WriterTo(w, step) ==
    /\ wpc' = [wpc EXCEPT ![w] = step]
    /\ UNCHANGED <<handleVars, runnerVars, serverVars, ptyVars, histVars>>

\* try_write_user_input; when the gate is closed, the channel full or closed it
\* returns an error and changes nothing.
TryWrite(w) ==
    /\ wpc[w] = "idle" /\ GateUnlocked
    /\ gate /\ HasCapacity /\ pc # "exited"
    /\ Accept(w)

\* write_user_input, up to the await: the first look at the gate.
AsyncWrite(w) ==
    /\ wpc[w] = "idle" /\ GateUnlocked
    /\ gate
    /\ WriterTo(w, "reserve")

\* reserve().await: a permit once there is capacity, an error once the channel closes.
Reserve(w) ==
    /\ wpc[w] = "reserve"
    /\ \/ pc # "exited" /\ HasCapacity /\ WriterTo(w, "permit")
       \/ pc = "exited" /\ WriterTo(w, "idle")

\* After the await the gate is looked at again: it may have closed meanwhile.
SendPermit(w) ==
    /\ wpc[w] = "permit" /\ GateUnlocked
    /\ \/ gate /\ Accept(w)
       \/ ~gate /\ WriterTo(w, "idle")

\* Mutant: the runner is not woken after the send.
WakeActorBug(w) ==
    /\ wpc[w] = "waking"
    /\ wpc' = [wpc EXCEPT ![w] = "idle"]
    /\ UNCHANGED <<handleVars, runnerVars, serverVars, ptyVars, histVars>>

WakeActor(w) ==
    /\ wpc[w] = "waking"
    /\ wake' = TRUE
    /\ wpc' = [wpc EXCEPT ![w] = "idle"]
    /\ UNCHANGED <<gate, dataQ, ctlQ, resizeReq, nudgeReq, runnerVars, serverVars,
                   ptyVars, histVars>>

Writer(w) == TryWrite(w) \/ AsyncWrite(w) \/ Reserve(w) \/ SendPermit(w) \/ WakeActor(w)

-----------------------------------------------------------------------------
(* The server's main thread.  While it waits for a reply it does nothing   *)
(* else: perform_live_handoff runs on the event loop.                      *)

\* PaneRuntime::resize; a resize replaces one the runner has not taken yet.
Resize(size, report) ==
    /\ main = "serving"
    /\ size # current
    /\ report => responses < MaxResponses
    /\ current' = size
    /\ resizeReq' = [size |-> size, report |-> report]
    /\ wake' = TRUE
    /\ responses' = IF report THEN responses + 1 ELSE responses
    /\ UNCHANGED <<handoffs, nudges, gate, dataQ, ctlQ, nudgeReq, runnerVars, main, reply,
                   ptyVars, accepted, delivered, lost, wpc>>

\* nudge_child_redraw_after_handoff, with the size of the moment: an imported pane
\* gets it when the first client attaches.
Nudge ==
    /\ main = "serving"
    /\ nudges < MaxNudges
    /\ nudgeReq' = current
    /\ wake' = TRUE
    /\ nudges' = nudges + 1
    /\ UNCHANGED <<handoffs, responses, gate, dataQ, ctlQ, resizeReq, runnerVars, serverVars,
                   ptyVars, accepted, delivered, lost, wpc>>

\* Mutant: a command does not wake the runner.
SendBug(queue, op, live) ==
    /\ pc # "exited"
    /\ ctlQ' = Append(queue, [op |-> op, live |-> live])
    /\ UNCHANGED wake

\* control_tx.send, after the commands of queue; it fails once the runner is gone.
Send(queue, op, live) ==
    /\ pc # "exited"
    /\ ctlQ' = Append(queue, [op |-> op, live |-> live])
    /\ wake' = TRUE

SendFails == pc = "exited" /\ UNCHANGED <<ctlQ, wake>>

\* begin_handoff closes the gate and sends under the gate's lock.
BeginHandoff ==
    /\ main = "serving" /\ GateUnlocked
    /\ handoffs < MaxHandoffs
    /\ gate' = FALSE
    /\ Send(ctlQ, "begin", TRUE)
    /\ main' = "waitBegin" /\ reply' = "none"
    /\ handoffs' = handoffs + 1
    /\ UNCHANGED <<nudges, responses, dataQ, resizeReq, nudgeReq, runnerVars, current, ptyVars,
                   accepted, delivered, lost, wpc>>

\* The runner is gone: begin_handoff fails and leaves the gate open, whatever it was.
BeginRefused ==
    /\ main = "serving" /\ GateUnlocked
    /\ pc = "exited"
    /\ gate' = TRUE
    /\ UNCHANGED <<dataQ, ctlQ, resizeReq, nudgeReq, wake, runnerVars, serverVars, ptyVars,
                   histVars, wpc>>

\* Mutant: a late answer reaches the next call.
AbandonedBug == ctlQ

\* The reply's receiver is dropped with the call: whatever is still to answer it
\* answers nobody.
Abandoned == [i \in DOMAIN ctlQ |-> [ctlQ[i] EXCEPT !.live = FALSE]]

\* recv_timeout returns an error: the sender was dropped, or time is up.
NoReply == reply = "none" /\ (pc = "exited" \/ CallsTimeOut)

\* Mutant: the error inside a reply that came in time is overlooked.
BeginRepliedBug ==
    /\ main = "waitBegin" /\ reply # "none"
    /\ main' = "paused" /\ reply' = "none"
    /\ UNCHANGED <<handleVars, runnerVars, current, ptyVars, histVars, wpc>>

BeginReplied ==
    /\ main = "waitBegin" /\ reply = "ok"
    /\ main' = "paused" /\ reply' = "none"
    /\ UNCHANGED <<handleVars, runnerVars, current, ptyVars, histVars, wpc>>

\* begin_handoff failed or timed out: it rolls back before it returns the error.
BeginFailed ==
    /\ main = "waitBegin"
    /\ reply = "err" \/ NoReply
    /\ curLive' = FALSE /\ reply' = "none"
    /\ \/ SendFails /\ main' = "serving"
       \/ Send(Abandoned, "rollback", TRUE) /\ main' = "waitRollback"
    /\ UNCHANGED <<gate, dataQ, resizeReq, nudgeReq, state, pc, pending, offset,
                   current, ptyVars, histVars, wpc>>

\* set_handoff_reader_paused(false): a failed handoff, or an import that has committed.
Rollback ==
    /\ main \in {"paused", "shared", "aborting", "imported"}
    /\ reply' = "none"
    /\ \/ SendFails /\ main' = "serving"
       \/ Send(ctlQ, "rollback", TRUE) /\ main' = "waitRollback"
    /\ UNCHANGED <<gate, dataQ, resizeReq, nudgeReq, runnerVars, current, ptyVars,
                   histVars, wpc>>

\* Mutant: the gate is not reopened.
RollbackRepliedBug ==
    /\ main = "waitRollback" /\ reply = "ok" /\ GateUnlocked
    /\ main' = "serving" /\ reply' = "none"
    /\ UNCHANGED <<handleVars, runnerVars, current, ptyVars, histVars, wpc>>

\* The gate reopens only on the reply.
RollbackReplied ==
    /\ main = "waitRollback" /\ reply = "ok" /\ GateUnlocked
    /\ gate' = TRUE
    /\ main' = "serving" /\ reply' = "none"
    /\ UNCHANGED <<dataQ, ctlQ, resizeReq, nudgeReq, wake, runnerVars, current,
                   ptyVars, histVars, wpc>>

\* The error is logged and the server goes on; the gate stays as it is.
RollbackUnanswered ==
    /\ main = "waitRollback" /\ NoReply
    /\ ctlQ' = Abandoned /\ curLive' = FALSE
    /\ main' = "serving"
    /\ UNCHANGED <<gate, dataQ, resizeReq, nudgeReq, wake, state, pc, pending,
                   offset, reply, current, ptyVars, histVars, wpc>>

Duplicate ==
    /\ main = "paused"
    /\ Send(ctlQ, "dup", TRUE)
    /\ main' = "waitDup" /\ reply' = "none"
    /\ UNCHANGED <<gate, dataQ, resizeReq, nudgeReq, runnerVars, current, ptyVars,
                   histVars, wpc>>

DuplicateReplied ==
    /\ main = "waitDup" /\ reply = "ok"
    /\ main' = "shared" /\ reply' = "none"
    /\ UNCHANGED <<handleVars, runnerVars, current, ptyVars, histVars, wpc>>

\* No duplicate: the handoff fails and rolls this pane back.
DuplicateFailed ==
    /\ main = "waitDup"
    /\ reply = "err" \/ NoReply
    /\ ctlQ' = Abandoned /\ curLive' = FALSE
    /\ main' = "aborting" /\ reply' = "none"
    /\ UNCHANGED <<gate, dataQ, resizeReq, nudgeReq, wake, state, pc, pending,
                   offset, current, ptyVars, histVars, wpc>>

\* preserve_for_handoff, first half: release_after_commit.
Release ==
    /\ main = "shared" /\ GateUnlocked
    /\ gate' = FALSE
    /\ main' = "releasing" /\ reply' = "none"
    /\ SendFails \/ Send(ctlQ, "release", TRUE)
    /\ UNCHANGED <<dataQ, resizeReq, nudgeReq, runnerVars, current, ptyVars,
                   histVars, wpc>>

\* io.shutdown: closes the gate and tells the runner to stop.
Shutdown(next) ==
    /\ gate' = FALSE
    /\ main' = next /\ reply' = "none"
    /\ SendFails \/ Send(Abandoned, "shutdown", FALSE)
    /\ UNCHANGED <<dataQ, resizeReq, nudgeReq, runnerVars, current, ptyVars,
                   histVars, wpc>>

\* preserve_for_handoff, second half: the runtime is dropped, released or not.
DropReleased ==
    /\ main = "releasing" /\ GateUnlocked
    /\ reply = "ok" \/ NoReply
    /\ Shutdown("released")

\* The pane is closed, or the import gives up before it owns the pane.
ClosePane ==
    /\ main \in {"serving", "imported"} /\ GateUnlocked
    /\ Shutdown("closed")

Main ==
    \/ \E size \in Sizes, report \in BOOLEAN : Resize(size, report)
    \/ Nudge
    \/ BeginHandoff \/ BeginRefused \/ BeginReplied \/ BeginFailed
    \/ Rollback \/ RollbackReplied \/ RollbackUnanswered
    \/ Duplicate \/ DuplicateReplied \/ DuplicateFailed
    \/ Release \/ DropReleased \/ ClosePane

-----------------------------------------------------------------------------
(* The runner.                                                             *)

\* The reply of the command being handled reaches only a caller still waiting.
Answer(live, result) == reply' = IF live THEN result ELSE reply

\* The loop ends: the receivers and the descriptor are dropped with the runner.
Exit ==
    /\ pc' = "exited"
    /\ dataQ' = <<>> /\ ctlQ' = <<>>
    /\ curLive' = FALSE

\* drain_control_commands: one command that does not end the loop.
HandleControl ==
    /\ pc = "control" /\ ctlQ # <<>>
    /\ ctlQ' = Tail(ctlQ)
    /\ \/ /\ Head(ctlQ).op = "begin"
          /\ pc' = "predrain" /\ curLive' = Head(ctlQ).live
          /\ UNCHANGED <<state, reply>>
       \/ /\ Head(ctlQ).op = "dup"
          /\ Answer(Head(ctlQ).live, IF state = "Quiesced" THEN "ok" ELSE "err")
          /\ UNCHANGED <<state, pc, curLive>>
       \/ /\ Head(ctlQ).op = "rollback"
          /\ state' = "Running"
          /\ Answer(Head(ctlQ).live, "ok")
          /\ UNCHANGED <<pc, curLive>>
    /\ UNCHANGED <<gate, dataQ, resizeReq, nudgeReq, wake, pending, offset, main,
                   current, ptyVars, histVars, wpc>>

\* ReleaseAfterCommit and Shutdown end the loop.
HandleStop ==
    /\ pc = "control" /\ ctlQ # <<>>
    /\ \/ /\ Head(ctlQ).op = "release"
          /\ state' = "Released" /\ pending' = <<>>
          /\ Answer(Head(ctlQ).live, "ok")
       \/ /\ Head(ctlQ).op = "shutdown"
          /\ UNCHANGED <<state, pending, reply>>
    /\ Exit
    /\ UNCHANGED <<gate, resizeReq, nudgeReq, wake, offset, main, current, ptyVars,
                   histVars, wpc>>

ControlDrained ==
    /\ pc = "control" /\ ctlQ = <<>>
    /\ pc' = "data"
    /\ UNCHANGED <<handleVars, state, curLive, pending, offset, serverVars, ptyVars,
                   histVars, wpc>>

\* drain_data_commands: a write is queued while Running, dropped otherwise.
HandleData ==
    /\ pc = "data" /\ dataQ # <<>>
    /\ dataQ' = Tail(dataQ)
    /\ pending' = IF state = "Running" THEN Append(pending, Head(dataQ)) ELSE pending
    /\ UNCHANGED <<gate, ctlQ, resizeReq, nudgeReq, wake, state, pc, curLive, offset,
                   serverVars, ptyVars, histVars, wpc>>

\* Mutant: what is still queued when the handoff begins is dropped.
PreQuiesceBug ==
    /\ pc = "predrain" /\ dataQ # <<>>
    /\ dataQ' = Tail(dataQ)
    /\ UNCHANGED <<gate, ctlQ, resizeReq, nudgeReq, wake, runnerVars, serverVars, ptyVars,
                   histVars, wpc>>

\* drain_pre_quiesce_commands.
PreQuiesce ==
    /\ pc = "predrain" /\ dataQ # <<>>
    /\ dataQ' = Tail(dataQ)
    /\ pending' = Append(pending, Head(dataQ))
    /\ UNCHANGED <<gate, ctlQ, resizeReq, nudgeReq, wake, state, pc, curLive, offset,
                   serverVars, ptyVars, histVars, wpc>>

\* Mutant: the resize request is taken but not applied.
WindowAfterControlsBug == IF nudgeReq # 0 THEN nudgeReq ELSE winSize

WindowAfterControls == IF nudgeReq # 0 THEN nudgeReq
                       ELSE IF resizeReq.size # 0 THEN resizeReq.size ELSE winSize

\* apply_pending_controls takes both requests; the nudge is applied last and
\* leaves the PTY at the size it was asked with.
ApplyControls ==
    /\ pc \in {"data", "predrain"} /\ dataQ = <<>>
    /\ pc' = IF pc = "data" THEN "flush" ELSE "quiesce"
    /\ resizeReq' = NoResize /\ nudgeReq' = 0
    /\ winSize' = WindowAfterControls
    /\ pending' = IF resizeReq.report THEN Append(pending, Response) ELSE pending
    /\ UNCHANGED <<gate, dataQ, ctlQ, wake, state, curLive, offset, serverVars,
                   output, eof, histVars, wpc>>

Flushing == {"flush", "flushReady", "quiesce"}
\* Where a flush returns to when it stops before pending_writes is empty.
Resume == CASE pc = "flush" -> "poll" [] pc = "flushReady" -> "read"
            [] OTHER -> "quiesce"

\* flush_pending_writes_once: write(2) takes the rest of the first write.
WriteAll ==
    /\ pc \in Flushing /\ pending # <<>>
    /\ pending' = Tail(pending) /\ offset' = 0
    /\ delivered' = IF Head(pending) = Response THEN delivered
                    ELSE Append(delivered, Head(pending))
    /\ UNCHANGED <<handleVars, state, pc, curLive, serverVars, ptyVars, accepted,
                   lost, boundVars, wpc>>

\* write(2) takes a part of it.
WritePart ==
    /\ pc \in Flushing /\ pending # <<>> /\ offset = 0
    /\ offset' = 1
    /\ UNCHANGED <<handleVars, state, pc, curLive, pending, serverVars, ptyVars,
                   histVars, wpc>>

\* WouldBlock, Interrupted or a zero write: the flush returns.
WriteBlocked ==
    /\ pc \in Flushing /\ pending # <<>>
    /\ pc' = Resume
    /\ UNCHANGED <<handleVars, state, curLive, pending, offset, serverVars, ptyVars,
                   histVars, wpc>>

\* Any other error drops everything that was pending.
WriteFails ==
    /\ IoErrors
    /\ pc \in Flushing /\ pending # <<>>
    /\ pending' = <<>> /\ offset' = 0
    /\ pc' = Resume
    /\ lost' = (lost \/ \E i \in DOMAIN pending : pending[i] # Response)
    /\ UNCHANGED <<handleVars, state, curLive, serverVars, ptyVars, accepted,
                   delivered, boundVars, wpc>>

Flushed ==
    /\ pc \in {"flush", "flushReady"} /\ pending = <<>>
    /\ pc' = Resume
    /\ UNCHANGED <<handleVars, state, curLive, pending, offset, serverVars, ptyVars,
                   histVars, wpc>>

\* Mutant: quiesced whatever is still pending.
QuiesceBug ==
    /\ pc = "quiesce"
    /\ state' = "Quiesced"
    /\ pc' = "control"
    /\ Answer(curLive, "ok") /\ curLive' = FALSE
    /\ UNCHANGED <<handleVars, pending, offset, main, current, ptyVars, histVars, wpc>>

\* begin_handoff ends: quiesced once everything pending is written ...
Quiesce ==
    /\ pc = "quiesce" /\ pending = <<>>
    /\ state' = "Quiesced"
    /\ pc' = "control"
    /\ Answer(curLive, "ok") /\ curLive' = FALSE
    /\ UNCHANGED <<handleVars, pending, offset, main, current, ptyVars, histVars, wpc>>

\* ... or HANDOFF_DRAIN_TIMEOUT has passed.
QuiesceTimesOut ==
    /\ pc = "quiesce" /\ pending # <<>>
    /\ pc' = "control"
    /\ Answer(curLive, "err") /\ curLive' = FALSE
    /\ UNCHANGED <<handleVars, state, pending, offset, main, current, ptyVars,
                   histVars, wpc>>

GoTo(step) ==
    /\ pc' = step
    /\ UNCHANGED <<gate, dataQ, ctlQ, resizeReq, nudgeReq, state, curLive, pending,
                   offset, serverVars, ptyVars, histVars, wpc>>

\* poll_pty_and_wake: a wake-up takes precedence and empties the wake pipe.
PollWoken == pc = "poll" /\ wake /\ wake' = FALSE /\ GoTo("control")

\* Writable with writes pending.
PollWritable ==
    /\ pc = "poll" /\ ~wake /\ pending # <<>>
    /\ UNCHANGED wake
    /\ GoTo("flushReady")

\* Readable, or hung up, with nothing to write.
PollReadable ==
    /\ pc = "poll" /\ ~wake
    /\ state = "Running" /\ (output > 0 \/ eof)
    /\ UNCHANGED wake
    /\ GoTo("read")

PollTimesOut ==
    /\ IdleTimeout
    /\ pc = "poll" /\ ~wake
    /\ UNCHANGED wake
    /\ GoTo("control")

\* read_once; on_read may hand back a response for the child.
Read ==
    /\ pc = "read"
    /\ state = "Running" /\ output > 0
    /\ output' = output - 1
    /\ UNCHANGED <<handoffs, nudges>>
    /\ \/ UNCHANGED <<pending, responses>>
       \/ /\ responses < MaxResponses
          /\ responses' = responses + 1
          /\ pending' = Append(pending, Response)
    /\ pc' = "control"
    /\ UNCHANGED <<handleVars, state, curLive, offset, serverVars, winSize, eof,
                   accepted, delivered, lost, wpc>>

\* WouldBlock, or the PTY was only writable.
ReadNothing ==
    /\ pc = "read" /\ (state # "Running" \/ output = 0)
    /\ ~(state = "Running" /\ eof)
    /\ UNCHANGED wake
    /\ GoTo("control")

\* End of file: the runner exits by itself.
ReadEof ==
    /\ pc = "read" /\ state = "Running" /\ output = 0 /\ eof
    /\ Exit
    /\ UNCHANGED <<gate, resizeReq, nudgeReq, wake, state, pending, offset, serverVars,
                   ptyVars, histVars, wpc>>

\* poll(2) fails on the PTY: the runner gives up.
PollFails ==
    /\ IoErrors
    /\ pc = "poll" /\ (state = "Running" \/ pending # <<>>)
    /\ Exit
    /\ UNCHANGED <<gate, resizeReq, nudgeReq, wake, state, pending, offset, serverVars,
                   ptyVars, histVars, wpc>>

Runner ==
    \/ HandleControl \/ HandleStop \/ ControlDrained
    \/ HandleData \/ PreQuiesce \/ ApplyControls
    \/ WriteAll \/ WritePart \/ WriteBlocked \/ WriteFails \/ Flushed
    \/ Quiesce \/ QuiesceTimesOut
    \/ PollWoken \/ PollWritable \/ PollReadable \/ PollTimesOut \/ PollFails
    \/ Read \/ ReadNothing \/ ReadEof

-----------------------------------------------------------------------------
(* The child process at the other end of the PTY.                          *)

ChildWrites ==
    /\ ~eof /\ output < MaxOutput
    /\ output' = output + 1
    /\ UNCHANGED <<handleVars, runnerVars, serverVars, winSize, eof, histVars, wpc>>

ChildExits ==
    /\ ~eof
    /\ eof' = TRUE
    /\ UNCHANGED <<handleVars, runnerVars, serverVars, winSize, output, histVars, wpc>>

Child == ChildWrites \/ ChildExits

Next == (\E w \in Writers : Writer(w)) \/ Main \/ Runner \/ Child

Spec == Init /\ [][Next]_vars
-----------------------------------------------------------------------------
(* Properties.                                                             *)

FlagsOK ==
    /\ gate \in BOOLEAN /\ wake \in BOOLEAN /\ curLive \in BOOLEAN
    /\ eof \in BOOLEAN /\ lost \in BOOLEAN

DataOK ==
    /\ dataQ \in Seq(Nat \ {0})
    /\ ctlQ \in Seq(Commands)
    /\ resizeReq \in ResizeRequests \cup {NoResize}
    /\ nudgeReq \in Sizes \cup {0}
    /\ state \in {"Running", "Quiesced", "Released"}
    /\ pc \in {"control", "predrain", "quiesce", "data", "flush", "flushReady",
               "poll", "read", "exited"}
    /\ pending \in Seq(Nat) /\ offset \in {0, 1}
    /\ wpc \in [Writers -> {"idle", "reserve", "permit", "waking"}]
    /\ main \in {"serving", "imported", "waitBegin", "waitRollback", "paused",
                 "waitDup", "shared", "aborting", "releasing", "released", "closed"}
    /\ reply \in {"none", "ok", "err"}
    /\ current \in Sizes /\ winSize \in Sizes
    /\ output \in Nat /\ accepted \in Nat
    /\ delivered \in Seq(Nat \ {0})
    /\ handoffs \in Nat /\ nudges \in Nat /\ responses \in Nat

\* The types of the variables.
TypeOK == FlagsOK /\ DataOK

\* The runner is inside begin_handoff, or has a BeginHandoff to execute.
BeginOutstanding ==
    \/ pc \in {"predrain", "quiesce"}
    \/ \E i \in DOMAIN ctlQ : ctlQ[i].op = "begin"

\* Input is accepted only by an actor that will write it: while the gate is open the
\* runner is Running and no BeginHandoff is still on its way to it, whatever replies
\* came late or never.
OpenGateMeansRunning ==
    gate /\ pc # "exited" => state = "Running" /\ ~BeginOutstanding

\* A quiesced actor holds no user input, queued or pending: what it accepted before
\* the gate closed has reached the child before the descriptor is shared.
QuiescedIsDry ==
    state = "Quiesced" =>
        /\ dataQ = <<>>
        /\ \A i \in DOMAIN pending : pending[i] = Response

\* The way of a chunk to the child: queued, pending, delivered.
Conduit == delivered \o pending \o dataQ

\* Writes 1 to n are in the conduit, between responses, and no other; each is there once, in
\* the order of acceptance.
Complete(conduit, n) == {conduit[i] : i \in DOMAIN conduit} \ {Response} = 1..n
Ordered(conduit) ==
    \A i, j \in DOMAIN conduit :
        i < j /\ conduit[i] # Response /\ conduit[j] # Response => conduit[i] < conduit[j]

\* User input is neither lost, duplicated nor reordered: unless a write(2) failed or the
\* runner is gone, delivered, pending and queued writes are the accepted ones in order,
\* across every handoff begun, timed out and rolled back.
InputInOrder == pc # "exited" /\ ~lost => Complete(Conduit, accepted) /\ Ordered(Conduit)

Paused == {"imported", "paused", "waitDup", "shared", "aborting", "releasing", "released"}

\* From begin_handoff's success until the rollback, and for ever after a release, the
\* actor leaves the PTY to its other owner: it reads no output and delivers no input.
PausedPaneIsSilent ==
    [][(main \in Paused) => output' >= output /\ delivered' = delivered]_vars

\* A pane that was rolled back takes input again, once its runner has nothing left to do
\* ("you can keep using the old server", src/src/update.rs:1283).
RolledBackPaneAcceptsInput ==
    main = "serving" /\ pc # "exited" /\ ctlQ = <<>> /\ ~BeginOutstanding => gate

\* Once the runner has taken every request the window has the pane's size: a nudge only
\* makes the child redraw ("one app-safe resize nudge", src/src/server/headless.rs:276).
WindowHasPaneSize ==
    pc # "exited" /\ resizeReq = NoResize /\ nudgeReq = 0 => winSize = current

\* How a pane looks from outside: an actor that has ended serves nobody.
Mode == IF pc = "exited" THEN "gone" ELSE IF state = "Quiesced" THEN "silent" ELSE "serving"
Lent == main \in Paused

\* The actor keeps PaneContract's promise through every handoff begun, timed out, rolled
\* back or released: the other owner of the descriptor is never disturbed, and what was
\* accepted reaches the child before the pane is lent.  PausedPaneIsSilent is a part of it.
Contract == INSTANCE PaneContract WITH
    mode <- Mode, lent <- Lent, written <- delivered, lossy <- lost
ContractSpec == Contract!Spec

-----------------------------------------------------------------------------
(* What makes OpenGateMeansRunning, QuiescedIsDry and PausedPaneIsSilent   *)
(* inductive: who may still be answered, and what an answer means.         *)

\* Only the last command sent can have a waiting caller, and it is the one the main
\* thread is blocked on.
CallerWaits ==
    /\ \A i \in DOMAIN ctlQ : ctlQ[i].live =>
          /\ i = Len(ctlQ) /\ reply = "none" /\ ~curLive
          /\ <<ctlQ[i].op, main>> \in {<<"begin", "waitBegin">>, <<"dup", "waitDup">>,
                                      <<"rollback", "waitRollback">>,
                                      <<"release", "releasing">>}
    /\ curLive => /\ ctlQ = <<>> /\ reply = "none" /\ main = "waitBegin"
                  /\ pc \in {"predrain", "quiesce"}
    /\ pc = "exited" => ctlQ = <<>>

\* The runner is quiesced and no command on its way changes that but a stop.
Parked ==
    /\ state = "Quiesced"
    /\ ~BeginOutstanding
    /\ \A i \in DOMAIN ctlQ : ctlQ[i].op # "rollback"

\* An "ok" the main thread has not picked up is still true.
ReplyStillTrue ==
    reply = "ok" =>
        /\ main = "waitBegin" => pc = "exited" \/ Parked
        /\ main = "waitRollback" => state = "Running" /\ ctlQ = <<>> /\ ~BeginOutstanding

\* The strengthening of OpenGateMeansRunning: who can have opened the gate.
GateFollowsMain ==
    /\ gate => /\ main = "serving"
               /\ pc = "exited" \/ (state = "Running" /\ ~BeginOutstanding)
    /\ main \in Paused => pc = "exited" \/ Parked
    /\ state = "Released" => pc = "exited"
    /\ (state = "Released" \/ \E i \in DOMAIN ctlQ : ctlQ[i].op = "release")
          => main \in {"releasing", "released"}
    /\ pc = "quiesce" => dataQ = <<>>

\* The inductive invariant of the safety theorems.
IndInv == TypeOK /\ CallerWaits /\ ReplyStillTrue /\ GateFollowsMain /\ QuiescedIsDry

-----------------------------------------------------------------------------
(* Liveness.                                                               *)

\* Readiness and wake-ups alone drive the loop, without the idle timeout (the comment at
\* src/src/pty/actor/unix.rs:16): whatever is accepted is delivered, unless the runner
\* ends or a write(2) fails.
AcceptedIsDelivered ==
    \A n \in 1..MaxWrites :
        accepted >= n ~> (Len(delivered) >= n \/ lost \/ pc = "exited")

\* ... and every command sent is handled: the control channel drains.
CommandsAreHandled == ctlQ # <<>> ~> ctlQ = <<>>

\* The runner thread and the writers' threads are scheduled; a child that lives reads
\* its input, so a write that is retried for ever is in the end taken.
Fairness ==
    /\ WF_vars(Runner)
    /\ SF_vars(WriteAll)
    /\ \A w \in Writers : WF_vars(WakeActor(w))

FairSpec == Spec /\ Fairness
=============================================================================
