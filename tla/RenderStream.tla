---------------------------- MODULE RenderStream ----------------------------
(***************************************************************************)
(* How what the server displays reaches its clients' screens: the PTY      *)
(* reader threads that mark the display dirty, the event loop that renders *)
(* (src/src/server/headless.rs), each client's render baseline             *)
(* (server/render_stream.rs) and each client's writer thread behind a      *)
(* one-place render slot (server/client_transport.rs).                     *)
(*                                                                         *)
(* A frame gives a version to each of its Parts: the content of each pane, *)
(* the rest of the user interface ("chrome"), and the client whose         *)
(* terminal size the panes have ("shape").  A partial function stands for  *)
(* what is only partly known: Blank is the baseline None, the empty render *)
(* slot and the screen of a terminal that was just resized; a differential *)
(* frame is defined on the parts that changed.                             *)
(*                                                                         *)
(* Clients here are full app clients (terminal attaches: ClientRegistry).  *)
(* Kitty graphics, frames over MAX_FRAME_SIZE and the control messages,    *)
(* which the writer threads take first, are left out.                      *)
(***************************************************************************)
EXTENDS Naturals, Sequences, FiniteSets

CONSTANTS
    Clients,     \* client connections, by client_id
    AnsiClients, \* those that negotiated RenderEncoding::TerminalAnsi
    Panes,       \* panes of the active tab
    NoClient,    \* foreground_client_id = None
    Leavers,     \* those that may leave
    Senders,     \* those that send messages
    Kinds,       \* kinds of messages they send
    MaxWrites,   \* bound: writes of a pane's child
    MaxChanges,  \* bound: changes of the rest of the user interface
    MaxMessages  \* bound: messages of the clients (not connect and leave)

ASSUME ConstantsAssumption ==
    /\ IsFiniteSet(Clients) /\ AnsiClients \subseteq Clients
    /\ Leavers \subseteq Clients /\ Senders \subseteq Clients
    /\ Clients \subseteq Nat /\ NoClient \notin Nat
    /\ Kinds \subseteq {"key", "reply", "focus", "detach", "resize"}
    /\ {"chrome", "shape"} \cap Panes = {}
    /\ {MaxWrites, MaxChanges, MaxMessages} \subseteq Nat

Parts == Panes \cup {"chrome", "shape"}

\* The function that is defined nowhere.
Blank == [x \in {} |-> 0]

\* A screen (or frame) g after the frame f has been drawn on it.
Drawn(f, g) == [x \in DOMAIN f \cup DOMAIN g |-> IF x \in DOMAIN f THEN f[x] ELSE g[x]]

VARIABLES
    now,        \* what a frame rendered now would show
    dirty,      \* the emulator's dirty state of each pane
    renderDirty,\* App.render_dirty
    permit,     \* App.render_notify holds a permit
    readers,    \* where each pane's reader thread is in on_read
    pc,         \* where the event loop is
    needsRender, needsFull,
    clients,    \* HeadlessServer.clients
    detached,   \* those whose writer is None
    foreground, \* foreground_client_id
    baseline,   \* ClientRenderState: last_frame of each client
    deferred,   \* ClientConnection.render_pending
    targets,    \* render targets still to be served
    broken,     \* broken_clients
    slot,       \* ClientWriterQueueState.render
    held,       \* the frame a writer thread took and has not written
    writer,     \* where each writer thread is
    inbox,      \* the server event channel
    conn,       \* each client's connection, seen from the client
    screen,     \* each client's terminal
    messages    \* messages sent by the clients

display == <<now, dirty, renderDirty, permit, readers>>
loop == <<pc, needsRender, needsFull>>
registry == <<clients, detached, foreground, baseline, deferred>>
render == <<targets, broken>>
transport == <<slot, held, writer>>
client == <<conn, screen, messages>>
vars == <<display, loop, registry, render, transport, inbox, client>>

Writing == clients \ detached

Post(kind, c) == inbox' = Append(inbox, [kind |-> kind, client |-> c])

---------------------------------------------------------------------------
(* The display: children write, reader threads request a render.           *)

\* process_pty_bytes: the emulator takes the bytes and marks rows dirty, or
\* everything (a scroll, a clear, a switch of screens).
PtyWrite(p) ==
    /\ readers[p] = "idle" /\ now[p] < MaxWrites
    /\ now' = [now EXCEPT ![p] = @ + 1]
    /\ \E d \in {"rows", "all"} :
           dirty' = [dirty EXCEPT ![p] = IF @ = "all" THEN @ ELSE d]
    /\ readers' = [readers EXCEPT ![p] = "parsed"]
    /\ UNCHANGED <<renderDirty, permit, loop, registry, render, transport, inbox, client>>

\* `!render_dirty.swap(true)`
RequestRender(p) ==
    /\ readers[p] = "parsed"
    /\ renderDirty' = TRUE
    /\ readers' = [readers EXCEPT ![p] = IF renderDirty THEN "idle" ELSE "flagged"]
    /\ UNCHANGED <<now, dirty, permit, loop, registry, render, transport, inbox, client>>

\* `render_notify.notify_one()`
NotifyLoop(p) ==
    /\ readers[p] = "flagged"
    /\ permit' = TRUE
    /\ readers' = [readers EXCEPT ![p] = "idle"]
    /\ UNCHANGED <<now, dirty, renderDirty, loop, registry, render, transport, inbox, client>>

---------------------------------------------------------------------------
(* A client's writer thread.                                               *)

\* ClientWriterQueue::recv takes the waiting frame.
TakeFrame(c) ==
    /\ writer[c] = "waiting" /\ slot[c] # Blank
    /\ held' = [held EXCEPT ![c] = slot[c]]
    /\ slot' = [slot EXCEPT ![c] = Blank]
    /\ writer' = [writer EXCEPT ![c] = "taken"]
    /\ UNCHANGED <<display, loop, registry, render, inbox, client>>

\* The slot is announced free before the frame is written to the socket.
AnnounceDrained(c) ==
    /\ writer[c] = "taken"
    /\ Post("drained", c)
    /\ writer' = [writer EXCEPT ![c] = "writing"]
    /\ UNCHANGED <<display, loop, registry, render, slot, held, client>>

WriteFrame(c) ==
    /\ writer[c] = "writing"
    /\ IF conn[c] = "open"
       THEN /\ screen' = [screen EXCEPT ![c] = Drawn(held[c], screen[c])]
            /\ writer' = [writer EXCEPT ![c] = "waiting"]
            /\ UNCHANGED slot
       ELSE \* the write fails: close_writer, and what waits is lost
            /\ writer' = [writer EXCEPT ![c] = "closed"]
            /\ slot' = [slot EXCEPT ![c] = Blank]
            /\ UNCHANGED screen
    /\ held' = [held EXCEPT ![c] = Blank]
    /\ UNCHANGED <<display, loop, registry, render, inbox, conn, messages>>

\* Nothing waits and the server dropped its ends of the queue.
WriterExits(c) ==
    /\ writer[c] = "waiting" /\ slot[c] = Blank
    /\ \/ c \in detached
       \/ c \notin clients /\ conn[c] = "ended" /\ \A i \in DOMAIN inbox : inbox[i].client # c
    /\ writer' = [writer EXCEPT ![c] = "closed"]
    /\ UNCHANGED <<display, loop, registry, render, slot, held, inbox, client>>

---------------------------------------------------------------------------
(* A client and its connection's read loop.                                *)

\* The handshake ends: the writer thread starts and the loop is told.
Connect(c) ==
    /\ conn[c] = "new"
    /\ conn' = [conn EXCEPT ![c] = "open"]
    /\ writer' = [writer EXCEPT ![c] = "waiting"]
    /\ Post("connected", c)
    /\ UNCHANGED <<display, loop, registry, render, slot, held, screen, messages>>

\* The client sends input (a key, a terminal's answer, a focus report, the
\* detach key) or its new size; its terminal no longer shows the frame then.
Send(c, kind) ==
    /\ conn[c] = "open" /\ c \in Senders /\ messages < MaxMessages
    /\ messages' = messages + 1
    /\ screen' = IF kind = "resize" THEN [screen EXCEPT ![c] = Blank] ELSE screen
    /\ Post(kind, c)
    /\ UNCHANGED <<display, loop, registry, render, transport, conn>>

\* The client closes its connection; one that detached is told to.
Leave(c) ==
    /\ conn[c] = "open" /\ c \in Leavers \cup detached
    /\ conn' = [conn EXCEPT ![c] = "left"]
    /\ screen' = [screen EXCEPT ![c] = Blank]
    /\ UNCHANGED <<display, loop, registry, render, transport, inbox, messages>>

\* The read loop meets the end of the stream.
ReadEnds(c) ==
    /\ conn[c] = "left"
    /\ conn' = [conn EXCEPT ![c] = "ended"]
    /\ Post("disconnected", c)
    /\ UNCHANGED <<display, loop, registry, render, transport, screen, messages>>

---------------------------------------------------------------------------
(* The event loop's handlers.                                              *)

\* The panes take the size of client f: compute_view.  A pane that changes
\* size is dirty as a whole; the size of one client may change too.
GiveShape(f) ==
    /\ now' = [now EXCEPT !["shape"] = f]
    /\ dirty' \in {[p \in Panes |-> "all"]} \cup {d \in {dirty} : now["shape"] = f}

\* resize_shared_runtime_to_effective_size: with a foreground client, every
\* client of `remaining` gets a whole new frame.  base: the baselines so far.
ResizeShared(fg, remaining, base) ==
    IF fg \in remaining
    THEN /\ GiveShape(fg)
         /\ baseline' = [c \in Clients |-> Blank]
    ELSE /\ baseline' = base
         /\ UNCHANGED <<now, dirty>>

\* remove_client_and_resize_if_needed.  When the foreground client goes, the
\* most recently active one left takes its place (any one, here).
RemoveClient(c) ==
    /\ clients' = clients \ {c}
    /\ detached' = detached \ {c}
    /\ deferred' = [deferred EXCEPT ![c] = FALSE]
    /\ LET base == [baseline EXCEPT ![c] = Blank] IN
       IF c \in clients /\ foreground = c
       THEN /\ foreground' \in (IF clients' = {} THEN {NoClient} ELSE clients')
            /\ ResizeShared(foreground', clients', base)
       ELSE /\ baseline' = base
            /\ UNCHANGED <<foreground, now, dirty>>

AskFullRender == needsRender' = TRUE /\ needsFull' = TRUE

\* promote_client_to_foreground, with the resize its caller makes if it changed
\* (or always: `resize`).  base: the baselines after the handler's own resets.
Promote(c, always, base) ==
    LET fg == IF c \in clients THEN c ELSE foreground IN
    /\ foreground' = fg
    /\ IF always \/ fg # foreground
       THEN ResizeShared(fg, clients, base)
       ELSE baseline' = base /\ UNCHANGED <<now, dirty>>

HandleConnected(c) ==
    /\ clients' = clients \cup {c}
    /\ foreground' = c
    /\ ResizeShared(c, clients', baseline)
    /\ AskFullRender
    /\ UNCHANGED <<detached, deferred>>

\* A redraw of a semantic client is forced after its input.
InputBaseline(c) ==
    IF c \in AnsiClients THEN baseline ELSE [baseline EXCEPT ![c] = Blank]

\* handle_client_input_events with a key: it also promotes its sender.
HandleKey(c) ==
    /\ Promote(c, FALSE, InputBaseline(c))
    /\ AskFullRender
    /\ UNCHANGED <<clients, detached, deferred>>

\* ... with a report of the terminal, which is no interaction.
HandleReply(c) ==
    /\ baseline' = InputBaseline(c)
    /\ UNCHANGED <<now, dirty, needsRender, needsFull, clients, detached, foreground, deferred>>

\* Mutant of HandleFocus: the skipped frame waits for the writer to drain.
HandleFocusLater(c) ==
    /\ Promote(c, FALSE, [baseline EXCEPT ![c] = Blank])
    /\ deferred' = [deferred EXCEPT ![c] = c \in clients]
    /\ UNCHANGED <<clients, detached, needsRender, needsFull>>

\* ... with a focus report, which forces a whole new frame.
HandleFocus(c) ==
    /\ Promote(c, FALSE, [baseline EXCEPT ![c] = Blank])
    /\ deferred' = [deferred EXCEPT ![c] = c \in clients]
    /\ AskFullRender
    /\ UNCHANGED <<clients, detached>>

\* ... with the detach key: the client keeps its place but has no writer, and
\* the handler asks for no render.
HandleDetach(c) ==
    /\ Promote(c, FALSE, InputBaseline(c))
    /\ detached' = IF c \in clients THEN detached \cup {c} ELSE detached
    /\ UNCHANGED <<needsRender, needsFull, clients, deferred>>

HandleResize(c) ==
    /\ Promote(c, TRUE, baseline)
    /\ AskFullRender
    /\ UNCHANGED <<clients, detached, deferred>>

\* Mutant of HandleDisconnected: no render for a client that is gone already.
HandleKnownDisconnected(c) ==
    /\ RemoveClient(c)
    /\ IF c \in clients THEN AskFullRender ELSE UNCHANGED <<needsRender, needsFull>>

HandleDisconnected(c) ==
    /\ RemoveClient(c)
    /\ AskFullRender

\* ClientWriterDrained: a frame was skipped because the slot was full.
HandleDrained(c) ==
    /\ deferred' = [deferred EXCEPT ![c] = FALSE]
    /\ IF deferred[c] THEN AskFullRender ELSE UNCHANGED <<needsRender, needsFull>>
    /\ UNCHANGED <<now, dirty, clients, detached, foreground, baseline>>

\* handle_server_event
HandleEvent ==
    /\ inbox # <<>>
    /\ inbox' = Tail(inbox)
    /\ LET c == Head(inbox).client
           kind == Head(inbox).kind IN
       \/ kind = "connected" /\ HandleConnected(c)
       \/ kind = "key" /\ HandleKey(c)
       \/ kind = "reply" /\ HandleReply(c)
       \/ kind = "focus" /\ HandleFocus(c)
       \/ kind = "detach" /\ HandleDetach(c)
       \/ kind = "resize" /\ HandleResize(c)
       \/ kind = "disconnected" /\ HandleDisconnected(c)
       \/ kind = "drained" /\ HandleDrained(c)
    /\ UNCHANGED <<renderDirty, permit, readers, render, transport, client>>

---------------------------------------------------------------------------
(* The event loop.                                                         *)

\* Step 1: the flag of the reader threads.
CheckDirty ==
    /\ pc = "top"
    /\ needsRender' = (needsRender \/ renderDirty)
    /\ pc' = "drain"
    /\ UNCHANGED <<display, needsFull, registry, render, transport, inbox, client>>

\* Steps 2, 3 and 6: something else of the display changes.
Change ==
    /\ pc = "drain" /\ now["chrome"] < MaxChanges
    /\ now' = [now EXCEPT !["chrome"] = @ + 1]
    /\ AskFullRender
    /\ UNCHANGED <<dirty, renderDirty, permit, readers, pc, registry, render, transport,
                   inbox, client>>

\* Step 5: drain_server_events.
Drain ==
    /\ pc = "drain"
    /\ HandleEvent
    /\ UNCHANGED pc

\* render_targets: by client id, the foreground client last.
TargetOrder ==
    {s \in [1..Cardinality(Writing) -> Writing] :
        \A i, j \in DOMAIN s :
            i < j => s[i] # foreground /\ (s[j] = foreground \/ s[i] < s[j])}

\* A full render serves its targets, or renders for nobody.
FullRender(ts) == IF ts = <<>> THEN "virtual" ELSE "full"

\* Step 7: the render flag is taken; only pane output allows the retained path.
StartRender ==
    /\ pc = "drain" /\ inbox = <<>> /\ needsRender
    /\ renderDirty' = FALSE
    /\ targets' \in TargetOrder
    /\ pc' = IF renderDirty /\ ~needsFull THEN "retained" ELSE FullRender(targets')
    /\ UNCHANGED <<now, dirty, permit, readers, needsRender, needsFull, registry, broken,
                   transport, inbox, client>>

\* No render is needed, or can_render_now says it is too soon.
GoWait ==
    /\ pc = "drain" /\ inbox = <<>>
    /\ pc' = "wait"
    /\ UNCHANGED <<display, needsRender, needsFull, registry, render, transport, inbox,
                   client>>

\* Step 8: an event, a permit or the time of a due render ends the wait.  (The
\* poll every CLIENT_ACCEPT_POLL_INTERVAL is left out: no wakeup may rely on it.)
WakeByEvent ==
    /\ pc = "wait"
    /\ HandleEvent
    /\ pc' = "top"

WakeByPermit ==
    /\ pc = "wait" /\ permit
    /\ permit' = FALSE
    /\ needsRender' = (needsRender \/ renderDirty)
    /\ pc' = "top"
    /\ UNCHANGED <<now, dirty, renderDirty, readers, needsFull, registry, render, transport,
                   inbox, client>>

WakeByDeadline ==
    /\ pc = "wait" /\ needsRender
    /\ pc' = "top"
    /\ UNCHANGED <<display, needsRender, needsFull, registry, render, transport, inbox,
                   client>>

\* prepare_frame: what is sent of the frame f.
Prepared(c, f) ==
    LET changed == {x \in Parts : IF x \in DOMAIN baseline[c] THEN baseline[c][x] # f[x]
                                                              ELSE TRUE}
    IN [x \in (IF c \in AnsiClients THEN changed ELSE Parts) |-> f[x]]

\* prepare_frame and try_send: the frame is current, sent, refused because the
\* slot is full, or refused because the writer is gone.
Current(c, f) ==
    /\ baseline[c] = f
    /\ deferred' = [deferred EXCEPT ![c] = FALSE]
    /\ UNCHANGED <<baseline, slot, broken>>

Sent(c, f) ==
    /\ baseline[c] # f /\ writer[c] # "closed" /\ slot[c] = Blank
    /\ slot' = [slot EXCEPT ![c] = Prepared(c, f)]
    /\ baseline' = [baseline EXCEPT ![c] = f]
    /\ deferred' = [deferred EXCEPT ![c] = FALSE]
    /\ UNCHANGED broken

\* Mutant of SlotFull: the refused frame becomes the baseline.
SlotFullCommitted(c, f) ==
    /\ baseline[c] # f /\ writer[c] # "closed" /\ slot[c] # Blank
    /\ deferred' = [deferred EXCEPT ![c] = TRUE]
    /\ baseline' = [baseline EXCEPT ![c] = f]
    /\ UNCHANGED <<slot, broken>>

SlotFull(c, f) ==
    /\ baseline[c] # f /\ writer[c] # "closed" /\ slot[c] # Blank
    /\ deferred' = [deferred EXCEPT ![c] = TRUE]
    /\ UNCHANGED <<baseline, slot, broken>>

WriterGone(c, f) ==
    /\ baseline[c] # f /\ writer[c] = "closed"
    /\ broken' = broken \cup {c}
    /\ UNCHANGED <<baseline, deferred, slot>>

\* render_and_stream, one target: a frame of everything leaves the panes clean.
\* The foreground client's render gives the panes its size.
RenderTarget ==
    /\ pc = "full" /\ targets # <<>>
    /\ targets' = Tail(targets)
    /\ LET c == Head(targets) IN
       /\ now' = IF c = foreground THEN [now EXCEPT !["shape"] = c] ELSE now
       /\ dirty' = [p \in Panes |-> "no"]
       /\ Current(c, now') \/ Sent(c, now') \/ SlotFull(c, now') \/ WriterGone(c, now')
    /\ UNCHANGED <<renderDirty, permit, readers, loop, clients, detached, foreground, held,
                   writer, inbox, client>>

\* The clients whose writer is gone are removed.
RemoveBroken ==
    /\ pc = "full" /\ targets = <<>>
    /\ \E c \in broken :
           /\ broken' = broken \ {c}
           /\ RemoveClient(c)
    /\ UNCHANGED <<renderDirty, permit, readers, loop, targets, transport, inbox, client>>

Rendered ==
    /\ pc \in {"full", "virtual"} /\ targets = <<>> /\ broken = {}
    /\ dirty' = IF pc = "virtual" THEN [p \in Panes |-> "no"] ELSE dirty
    /\ needsRender' = FALSE /\ needsFull' = FALSE
    /\ pc' = "top"
    /\ UNCHANGED <<now, renderDirty, permit, readers, registry, render, transport, inbox,
                   client>>

(* render_retained_pty_update_and_stream: the panes' dirty rows are put on  *)
(* the last frame of the only client.                                       *)

\* Mutant of RetainedAllowed: a client that missed a frame is patched too.
RetainedAnyway(c) ==
    /\ targets = <<c>>
    /\ baseline[c] # Blank

RetainedAllowed(c) ==
    /\ targets = <<c>>
    /\ ~deferred[c]
    /\ baseline[c] # Blank

Patched(c) == [x \in Parts |-> IF x \in Panes /\ dirty[x] = "rows"
                               THEN now[x] ELSE baseline[c][x]]

\* Every dirty pane has a patch; the frame is current or is sent.
RetainedSent ==
    /\ pc = "retained"
    /\ \A p \in Panes : dirty[p] # "all"
    /\ \E c \in Writing :
           /\ RetainedAllowed(c)
           /\ Current(c, Patched(c)) \/ Sent(c, Patched(c))
    /\ dirty' = [p \in Panes |-> "no"]
    /\ targets' = <<>>
    /\ needsRender' = FALSE /\ needsFull' = FALSE
    /\ pc' = "top"
    /\ UNCHANGED <<now, renderDirty, permit, readers, clients, detached, foreground, held,
                   writer, inbox, client>>

\* The patched frame cannot be sent: a full render follows.
RetainedRefused ==
    /\ pc = "retained"
    /\ \A p \in Panes : dirty[p] # "all"
    /\ \E c \in Writing :
           /\ RetainedAllowed(c)
           /\ SlotFull(c, Patched(c)) \/ WriterGone(c, Patched(c))
    /\ dirty' = [p \in Panes |-> "no"]
    /\ pc' = "refused"
    /\ UNCHANGED <<now, renderDirty, permit, readers, needsRender, needsFull, clients,
                   detached, foreground, targets, held, writer, inbox, client>>

\* A broken client is removed before the full render.
AfterRefusal ==
    /\ pc = "refused"
    /\ IF broken = {}
       THEN /\ targets' \in TargetOrder
            /\ pc' = FullRender(targets')
            /\ UNCHANGED <<now, dirty, registry, broken>>
       ELSE /\ \E c \in broken : RemoveClient(c) /\ broken' = broken \ {c}
            /\ UNCHANGED <<pc, targets>>
    /\ UNCHANGED <<renderDirty, permit, readers, needsRender, needsFull, transport, inbox,
                   client>>

\* The update is not retained: the state of the interface or a pane forbids it,
\* perhaps after other panes gave up their patches.
RetainedFallback ==
    /\ pc = "retained"
    /\ \E given \in SUBSET {p \in Panes : dirty[p] = "rows"} :
           /\ given # {} => \E c \in Writing : RetainedAllowed(c)
           /\ dirty' = [p \in Panes |-> IF p \in given THEN "no" ELSE dirty[p]]
    /\ pc' = FullRender(targets)
    /\ UNCHANGED <<now, renderDirty, permit, readers, needsRender, needsFull, registry,
                   render, transport, inbox, client>>

---------------------------------------------------------------------------

Init ==
    /\ now = [x \in Parts |-> IF x = "shape" THEN NoClient ELSE 0]
    /\ dirty = [p \in Panes |-> "all"]
    /\ renderDirty = FALSE
    /\ permit = FALSE
    /\ readers = [p \in Panes |-> "idle"]
    /\ pc = "top"
    /\ needsRender = TRUE
    /\ needsFull = TRUE
    /\ clients = {}
    /\ detached = {}
    /\ foreground = NoClient
    /\ baseline = [c \in Clients |-> Blank]
    /\ deferred = [c \in Clients |-> FALSE]
    /\ targets = <<>>
    /\ broken = {}
    /\ slot = [c \in Clients |-> Blank]
    /\ held = [c \in Clients |-> Blank]
    /\ writer = [c \in Clients |-> "none"]
    /\ inbox = <<>>
    /\ conn = [c \in Clients |-> "new"]
    /\ screen = [c \in Clients |-> Blank]
    /\ messages = 0

ReaderStep(p) == RequestRender(p) \/ NotifyLoop(p)

WriterStep(c) == TakeFrame(c) \/ AnnounceDrained(c) \/ WriteFrame(c) \/ WriterExits(c)

\* What the loop does of itself; when it decides, it may find it too soon.
LoopStep ==
    \/ CheckDirty \/ Drain \/ GoWait
    \/ WakeByEvent \/ WakeByPermit \/ WakeByDeadline
    \/ RenderTarget \/ RemoveBroken \/ Rendered
    \/ RetainedSent \/ RetainedRefused \/ AfterRefusal \/ RetainedFallback

Next ==
    \/ \E p \in Panes : PtyWrite(p) \/ ReaderStep(p)
    \/ Change
    \/ LoopStep
    \/ StartRender
    \/ \E c \in Clients :
           \/ WriterStep(c)
           \/ Connect(c)
           \/ \E kind \in Kinds : Send(c, kind)
           \/ Leave(c)
           \/ ReadEnds(c)

Spec == Init /\ [][Next]_vars

\* Threads keep running, a client that is connected keeps reading, and it is
\* not for ever too soon to render.
Fairness ==
    /\ WF_vars(LoopStep)
    /\ SF_vars(StartRender)
    /\ \A p \in Panes : WF_vars(ReaderStep(p))
    /\ \A c \in Clients :
           /\ WF_vars(WriterStep(c))
           /\ WF_vars(c \in detached /\ Leave(c)) /\ WF_vars(ReadEnds(c))

FairSpec == Spec /\ Fairness

---------------------------------------------------------------------------
(* Properties.                                                             *)

Versions == Nat \cup Clients \cup {NoClient}
IsPartial(f) == DOMAIN f \subseteq Parts /\ \A x \in DOMAIN f : f[x] \in Versions
Event == [kind : Kinds \cup {"connected", "disconnected", "drained"}, client : Clients]

PerClient(f) == f = [c \in Clients |-> f[c]]

\* Every variable has its type.
TypeOK ==
    /\ now \in [Parts -> Versions]
    /\ dirty \in [Panes -> {"no", "rows", "all"}]
    /\ {renderDirty, permit, needsRender, needsFull} \subseteq BOOLEAN
    /\ readers \in [Panes -> {"idle", "parsed", "flagged"}]
    /\ pc \in {"top", "drain", "wait", "full", "virtual", "retained", "refused"}
    /\ detached \subseteq clients /\ clients \subseteq Clients
    /\ foreground \in Clients \cup {NoClient}
    /\ deferred \in [Clients -> BOOLEAN]
    /\ targets \in Seq(Clients) /\ broken \subseteq Clients
    /\ \A f \in {baseline, slot, held, screen} :
           PerClient(f) /\ \A c \in Clients : IsPartial(f[c])
    /\ writer \in [Clients -> {"none", "waiting", "taken", "writing", "closed"}]
    /\ inbox \in Seq(Event)
    /\ conn \in [Clients -> {"new", "open", "left", "ended"}]
    /\ messages \in Nat

\* What a client's terminal will show once the frames on their way are written.
Shown(c) == Drawn(slot[c], Drawn(held[c], screen[c]))

Pending(kind, c) == \E i \in DOMAIN inbox : inbox[i] = [kind |-> kind, client |-> c]

\* The server's idea of a client's screen is right: once the frames on their
\* way are written, a client shows its baseline, part by part, unless its
\* terminal changed size and the server does not know yet.  The next
\* differential frame is computed from that baseline (commit_sent_frame).
DiffsFit ==
    \A c \in Clients :
        conn[c] = "open" /\ ~Pending("resize", c)
            => \A x \in DOMAIN baseline[c] :
                   x \in DOMAIN Shown(c) /\ Shown(c)[x] = baseline[c][x]

\* What makes DiffsFit inductive: a baseline belongs to a registered client, a
\* frame is held only on its way to the socket, and whom the loop is about to
\* serve is registered.
DiffsInv ==
    /\ PerClient(baseline) /\ PerClient(slot) /\ PerClient(held)
    /\ PerClient(screen) /\ PerClient(writer) /\ PerClient(conn)
    /\ DOMAIN now = Parts
    /\ clients \subseteq Clients
    /\ inbox \in Seq(Event)
    /\ targets \in Seq(Clients) /\ broken \subseteq Clients
    /\ pc \in {"full", "retained"} => \A i \in DOMAIN targets : targets[i] \in clients
    /\ \A c \in Clients :
           /\ baseline[c] # Blank => c \in clients
           /\ held[c] # Blank => writer[c] \in {"taken", "writing"}
    /\ DiffsFit

\* The retained path may patch the last frame of a client that is alone: where
\* that frame is not current and no full render is due, the pane is dirty.  (A
\* client that detached may leave another one stale until its connection ends.)
StaleIsDirty ==
    \A c \in Writing :
        clients = {c} /\ pc \notin {"full", "refused"} /\ ~needsFull /\ ~deferred[c]
                      /\ baseline[c] # Blank /\ writer[c] # "closed"
            => \A x \in Parts :
                   baseline[c][x] # now[x] => x \in Panes /\ dirty[x] # "no"

\* A client whose frame was skipped because its slot was full is served again:
\* something that frees the slot will be told to the event loop.
DeferralIsWoken ==
    \A c \in Writing :
        deferred[c] => \/ slot[c] # Blank \/ writer[c] \in {"taken", "closed"}
                       \/ Pending("drained", c)
                       \/ needsFull

\* Every client that is connected and did not detach ends up showing what the
\* server displays, although output is coalesced, frames are skipped when a
\* client is slow, and clients come and go.
InSync(c) == conn[c] = "open" /\ c \notin detached => screen[c] = now
CatchesUp == \A c \in Clients : <>[]InSync(c)
=============================================================================
