---------------------------- MODULE ClientRegistry ----------------------------
(***************************************************************************)
(* Who is connected to the server, who is in the foreground and who has    *)
(* taken a single terminal for itself (src/src/server/headless.rs and      *)
(* server/clients.rs).                                                     *)
(*                                                                         *)
(* A full client shows the whole user interface; the foreground one        *)
(* decides the size of the panes.  A direct client asks, as its first      *)
(* message (client/mod.rs), for one terminal: to attach (it owns the       *)
(* terminal, whose PTY then has its size and is locked against the         *)
(* foreground's) or to observe.  The handlers call one another, so they    *)
(* are written as functions of the server's state: Forget, PromoteLatest,  *)
(* ResizeShared ... and the actions apply them.                            *)
(*                                                                         *)
(* A terminal's size stands for the terminal it fits, whatever the layout. *)
(* Frames are the subject of RenderStream; here Render keeps what it does  *)
(* to the registry.                                                        *)
(***************************************************************************)
EXTENDS Naturals, FiniteSets

CONSTANTS
    Clients,       \* client connections, by client_id
    DirectClients, \* those of a direct terminal attach
    NoClient,      \* None, where a client_id is optional
    Terminals,     \* terminal ids, which are never used twice
    Popups,        \* those of popup panes
    NoTerminal,    \* a connection without a terminal
    Sizes,         \* sizes of the clients' terminals
    MinSize        \* MIN_COLS x MIN_ROWS

ASSUME ConstantsAssumption ==
    /\ DirectClients \subseteq Clients /\ Popups \subseteq Terminals
    /\ NoClient \notin Clients /\ NoTerminal \notin Terminals
    /\ Sizes # {}

VARIABLES
    server, \* HeadlessServer, see ServerState
    used,   \* terminal ids given out so far
    due     \* a full render is due
vars == <<server, used, due>>

Gone == [mode |-> "gone", pending |-> FALSE, target |-> NoTerminal,
         size |-> MinSize, writer |-> "none"]

Connection ==
    [mode : {"gone", "app", "attach", "observe"}, pending : BOOLEAN,
     target : Terminals \cup {NoTerminal}, size : Sizes \cup {MinSize},
     writer : {"open", "closed", "none"}]

ServerState ==
    [terminals  : SUBSET Terminals,            \* AppState.terminals
     conn       : [Clients -> Connection],     \* clients
     behind     : [Clients -> SUBSET Clients], \* full ones with an older last_activity
     foreground : Clients \cup {NoClient},
     effective  : Sizes \cup {MinSize},        \* effective_size
     owner      : [Terminals -> Clients \cup {NoClient}], \* terminal_attach_owners
     locks      : SUBSET Terminals,            \* direct_attach_resize_locks
     pty        : [Terminals -> Sizes \cup {MinSize}],    \* size of each PTY
     handoff    : BOOLEAN]                     \* handoff_in_progress

Connected(s, c) == s.conn[c].mode # "gone"
IsStream(s, c) == s.conn[c].mode \in {"attach", "observe"}
\* is_full_app_client
IsFull(s, c) == s.conn[c].mode = "app" /\ ~s.conn[c].pending
\* client_is_pending_terminal_mode
IsPending(s, c) == s.conn[c].mode = "app" /\ s.conn[c].pending

---------------------------------------------------------------------------
(* What the handlers are made of.                                          *)

\* last_activity := a new stamp.  Only the order of full clients is ever asked.
Touch(s, c) ==
    [s EXCEPT !.behind = [d \in Clients |-> IF d # c THEN s.behind[d] \ {c}
                                            ELSE {e \in Clients \ {c} : IsFull(s, c) /\ IsFull(s, e)}]]

\* latest_app_client
IsLatest(s, c) == /\ IsFull(s, c)
                  /\ \A d \in Clients \ {c} : IsFull(s, d) => d \in s.behind[c]
Latest(s) == IF \E c \in Clients : IsLatest(s, c)
             THEN CHOOSE c \in Clients : IsLatest(s, c)
             ELSE NoClient

\* sync_foreground_client_state, as far as the size goes
Sync(s) ==
    LET f == IF s.foreground # NoClient /\ Connected(s, s.foreground)
             THEN s.foreground ELSE NoClient
    IN  [s EXCEPT !.foreground = f,
                  !.effective = IF f = NoClient THEN MinSize ELSE s.conn[f].size]

\* Mutant of Fit: the terminals that are attached are resized as well.
FitAll(s, size) ==
    [s EXCEPT !.pty = [t \in Terminals |-> IF t \in s.terminals THEN size ELSE s.pty[t]]]

\* compute_view with resize_panes, the locks respected
Fit(s, size) ==
    [s EXCEPT !.pty = [t \in Terminals |-> IF t \in s.terminals \ s.locks
                                           THEN size ELSE s.pty[t]]]

\* resize_shared_runtime_to_effective_size
ResizeShared(s) == IF s.foreground = NoClient THEN s ELSE Fit(s, s.effective)

\* promote_client_to_foreground
Promote(s, c) ==
    IF Connected(s, c) THEN Sync([Touch(s, c) EXCEPT !.foreground = c]) ELSE s

\* Mutant of PromoteLatest: the foreground stays where it was.
PromoteNobody(s) == Sync(s)

\* promote_latest_remaining_client
PromoteLatest(s) == Sync([s EXCEPT !.foreground = Latest(s)])

\* remove_client without the promotion, for the clients of C
Forget(s, C) ==
    LET left == {s.conn[c].target : c \in {c \in C : s.conn[c].mode = "attach"}}
    IN  [s EXCEPT !.conn   = [c \in Clients |-> IF c \in C THEN Gone ELSE s.conn[c]],
                  !.behind = [c \in Clients |-> IF c \in C THEN {} ELSE s.behind[c] \ C],
                  !.owner  = [t \in Terminals |-> IF t \in left THEN NoClient ELSE s.owner[t]],
                  !.locks  = s.locks \ (left \cap s.terminals)]

\* Mutant of RemoveOthers: the panes keep the size of who left them.
RemoveSilently(s, C) == Forget(s, C)

\* remove_client_and_resize_if_needed, for clients that are not in the foreground
RemoveOthers(s, C) ==
    IF s.foreground # NoClient /\ \E c \in C : IsStream(s, c)
    THEN ResizeShared(Forget(s, C))
    ELSE Forget(s, C)

\* remove_client_and_resize_if_needed
Remove(s, c) ==
    IF c = s.foreground THEN ResizeShared(PromoteLatest(Forget(s, {c})))
                        ELSE RemoveOthers(s, {c})

---------------------------------------------------------------------------
(* Server events.                                                          *)

Become(s, renders) == server' = s /\ due' = (due \/ renders)

\* While a handoff is in progress nobody is let in.
Connect(c, size) ==
    /\ ~Connected(server, c) /\ ~server.handoff
    /\ LET new == [mode |-> "app", pending |-> c \in DirectClients,
                   target |-> NoTerminal, size |-> size, writer |-> "open"]
           s == Touch([server EXCEPT !.conn[c] = new], c)
       IN  Become(ResizeShared(Sync(IF c \in DirectClients
                                    THEN s ELSE [s EXCEPT !.foreground = c])), TRUE)
    /\ UNCHANGED used

\* resolve_terminal_session_target: a connection that is not waiting for its
\* terminal, or one that asks for a terminal that is not there, is sent off.
\* (The message to one whose writer is closed removes it all the same.)
Refuses(s, c, t) == ~IsPending(s, c) \/ t \notin s.terminals

\* Mutant of TakeTerminal: the lock is left as it was.
TakeUnlocked(s, c, t) ==
    LET r == Touch([s EXCEPT !.conn[c].mode = "attach", !.conn[c].target = t,
                             !.conn[c].pending = FALSE], c)
    IN  [(IF s.foreground = c THEN PromoteLatest(r) ELSE r)
            EXCEPT !.owner[t] = c, !.pty[t] = s.conn[c].size]

\* The end of attach_terminal_client.
TakeTerminal(s, c, t) ==
    LET r == Touch([s EXCEPT !.conn[c].mode = "attach", !.conn[c].target = t,
                             !.conn[c].pending = FALSE], c)
    IN  [(IF s.foreground = c THEN PromoteLatest(r) ELSE r)
            EXCEPT !.owner[t] = c, !.locks = @ \cup {t}, !.pty[t] = s.conn[c].size]

\* Mutant of AttachTerminal: the owner is not told to leave.
AttachOver(c, t, takeover) ==
    /\ Connected(server, c) /\ ~server.handoff
    /\ LET owner == server.owner[t]
       IN  IF Refuses(server, c, t) \/ (owner # NoClient /\ ~takeover)
           THEN Become(Remove(server, c), FALSE)
           ELSE Become(TakeTerminal(server, c, t), TRUE)
    /\ UNCHANGED used

\* attach_terminal_client, and control_terminal_client, which resolves the
\* name first.  A takeover removes the owner before the terminal is taken.
AttachTerminal(c, t, takeover) ==
    /\ Connected(server, c) /\ ~server.handoff
    /\ LET owner == server.owner[t]
       IN  IF Refuses(server, c, t) \/ (owner \notin {NoClient, c} /\ ~takeover)
           THEN Become(Remove(server, c), FALSE)
           ELSE LET s == IF owner \in {NoClient, c} THEN server ELSE Remove(server, owner)
                IN  Become(TakeTerminal(s, c, t), TRUE)
    /\ UNCHANGED used

\* observe_terminal_client
ObserveTerminal(c, t) ==
    /\ Connected(server, c) /\ ~server.handoff
    /\ IF Refuses(server, c, t)
       THEN Become(Remove(server, c), FALSE)
       ELSE LET s == Touch([server EXCEPT !.conn[c].mode = "observe", !.conn[c].target = t,
                                          !.conn[c].pending = FALSE], c)
            IN  Become(IF s.foreground = c THEN PromoteLatest(s) ELSE s, TRUE)
    /\ UNCHANGED used

\* ClientInput, ClientInputEvents and a pasted image: what a stream client
\* types goes to its terminal or nowhere; the others come to the foreground
\* when they interact.  A client may ask to be detached with a key: it is told
\* and its writer dropped, it leaves when its connection ends.
Input(c, interacts, detaches) ==
    /\ ~server.handoff /\ ~IsPending(server, c) /\ ~IsStream(server, c)
    /\ detaches => interacts
    /\ LET changed == interacts /\ Connected(server, c) /\ server.foreground # c
           promoted == IF interacts THEN Promote(server, c) ELSE server
           s == Sync(IF changed THEN ResizeShared(promoted) ELSE promoted)
       IN  IF ~(detaches /\ Connected(s, c)) THEN Become(s, interacts)
           ELSE Become(IF s.conn[c].writer = "closed" THEN Remove(s, c)
                       ELSE [s EXCEPT !.conn[c].writer = "none"], FALSE)
    /\ UNCHANGED used

\* ClientResize
Resize(c, size) ==
    /\ ~server.handoff /\ ~IsPending(server, c)
    /\ LET s == IF Connected(server, c)
                THEN [server EXCEPT !.conn[c].size = size] ELSE server
           t == s.conn[c].target
       IN  Become(CASE s.conn[c].mode = "attach" ->
                           IF t \in s.terminals THEN [s EXCEPT !.pty[t] = size] ELSE s
                    [] s.conn[c].mode = "observe" -> s
                    [] OTHER -> ResizeShared(Promote(s, c)), TRUE)
    /\ UNCHANGED used

\* ClientDetach and ClientDisconnected; only the latter during a handoff
Leave(c) ==
    /\ Connected(server, c)
    /\ Become(Remove(server, c), TRUE)
    /\ UNCHANGED used

\* A client's writer thread ends: its connection is broken.
WriterEnds(c) ==
    /\ server.conn[c].writer = "open"
    /\ server' = [server EXCEPT !.conn[c].writer = "closed"]
    /\ UNCHANGED <<used, due>>

---------------------------------------------------------------------------
(* Terminals, the render and the handoff.                                  *)

\* A pane or a popup is opened, with a size that is only an estimate.
OpenTerminal(t, size) ==
    /\ t \notin used
    /\ used' = used \cup {t}
    /\ Become([server EXCEPT !.terminals = @ \cup {t}, !.pty[t] = size], TRUE)

\* Mutant of CloseTerminal: nothing asks for a render.
CloseQuietly(t) ==
    /\ t \in server.terminals
    /\ Become([server EXCEPT !.terminals = @ \ {t}], FALSE)
    /\ UNCHANGED used

\* The user or an API request closes it (close_popup_pane drops the lock as
\* well): those who show it are left to the render.
CloseTerminal(t) ==
    /\ t \in server.terminals
    /\ Become([server EXCEPT !.terminals = @ \ {t},
                             !.locks = IF t \in Popups THEN @ \ {t} ELSE @], TRUE)
    /\ UNCHANGED used

\* PaneDied of a pane of a tab: shutdown_terminal_stream_clients.
TerminalDies(t) ==
    /\ t \in server.terminals \ Popups
    /\ Become(RemoveOthers([server EXCEPT !.terminals = @ \ {t}],
                           {c \in Clients : IsStream(server, c) /\ server.conn[c].target = t}), TRUE)
    /\ UNCHANGED used

\* render_and_stream: the foreground client's frame fits the panes to it, the
\* streams of terminals that are gone end, and so do, last the foreground's,
\* the connections whose writer turns out to be closed (only a frame that
\* differs from the last one is sent).
Render ==
    /\ due
    /\ due' = FALSE
    /\ LET Target(c) == (IsFull(server, c) \/ IsStream(server, c)) /\ server.conn[c].writer # "none"
           f == server.foreground
           s == IF f # NoClient /\ Target(f) THEN Fit(server, server.conn[f].size) ELSE server
           lost == {c \in Clients : Target(c) /\ IsStream(s, c) /\ s.conn[c].target \notin s.terminals}
       IN  \E broken \in SUBSET {c \in Clients : Target(c) /\ s.conn[c].writer = "closed"} :
               LET others == RemoveOthers(s, (lost \cup broken) \ {f})
               IN  server' = IF f \in broken THEN Remove(others, f) ELSE others
    /\ UNCHANGED used

\* disconnect_all_clients_for_handoff
StartHandoff ==
    /\ ~server.handoff
    /\ Become([Sync([Forget(server, {c \in Clients : Connected(server, c)})
                        EXCEPT !.foreground = NoClient]) EXCEPT !.handoff = TRUE], FALSE)
    /\ UNCHANGED used

\* rollback_live_handoff
RollBack ==
    /\ server.handoff
    /\ Become([server EXCEPT !.handoff = FALSE], FALSE)
    /\ UNCHANGED used

---------------------------------------------------------------------------
Init ==
    /\ server = [terminals  |-> {},
                 conn       |-> [c \in Clients |-> Gone],
                 behind     |-> [c \in Clients |-> {}],
                 foreground |-> NoClient,
                 effective  |-> MinSize,
                 owner      |-> [t \in Terminals |-> NoClient],
                 locks      |-> {},
                 pty        |-> [t \in Terminals |-> MinSize],
                 handoff    |-> FALSE]
    /\ used = {}
    /\ due = FALSE

Next ==
    \/ \E c \in Clients, size \in Sizes : Connect(c, size) \/ Resize(c, size)
    \/ \E c \in Clients, t \in Terminals :
           (\E takeover \in BOOLEAN : AttachTerminal(c, t, takeover)) \/ ObserveTerminal(c, t)
    \/ \E c \in Clients, interacts, detaches \in BOOLEAN : Input(c, interacts, detaches)
    \/ \E c \in Clients : Leave(c) \/ WriterEnds(c)
    \/ \E t \in Terminals, size \in Sizes : OpenTerminal(t, size)
    \/ \E t \in Terminals : CloseTerminal(t) \/ TerminalDies(t)
    \/ Render \/ StartHandoff \/ RollBack

Spec == Init /\ [][Next]_vars

---------------------------------------------------------------------------
(* Properties.                                                             *)

TypeOK == server \in ServerState /\ used \subseteq Terminals /\ due \in BOOLEAN

\* A terminal's owner is the one client that is attached to it, through every
\* refusal, takeover, removal and end of a terminal (terminal_attach_owners is
\* kept apart from the clients' modes).
OwnerIsAttached ==
    \A t \in Terminals, c \in Clients :
        server.owner[t] = c <=> server.conn[c].mode = "attach" /\ server.conn[c].target = t

\* The panes that the foreground may not resize are those with an owner: a
\* lock that stays behind would leave its pane at the wrong size for good.
LocksAreOwned ==
    \A t \in server.terminals : t \in server.locks <=> server.owner[t] # NoClient

\* The PTY of an attached terminal has its owner's size, whatever the
\* foreground clients do.
AttachedHasItsSize ==
    \A t \in server.terminals :
        server.owner[t] # NoClient => server.pty[t] = server.conn[server.owner[t]].size

\* The foreground client is a full one, connected, and effective_size is its
\* size (headless.rs:273, "derived from the foreground client, or MIN_COLS x
\* MIN_ROWS when no clients are connected").
ForegroundIsFull ==
    /\ server.foreground # NoClient => IsFull(server, server.foreground)
    /\ server.effective = IF server.foreground = NoClient
                          THEN MinSize ELSE server.conn[server.foreground].size

\* While a full client is connected one is in the foreground.
SomeoneIsForeground ==
    (\E c \in Clients : IsFull(server, c)) => server.foreground # NoClient

\* Once everything that was due has been rendered, a terminal that nobody owns
\* fits the foreground client, so also one that was just given back.  (One
\* whose writer is gone is not rendered for.)
OthersFitTheForeground ==
    server.foreground # NoClient /\ ~due /\ server.conn[server.foreground].writer # "none" =>
        \A t \in server.terminals :
            server.owner[t] = NoClient => server.pty[t] = server.conn[server.foreground].size

\* Once everything that was due has been rendered nobody shows a terminal that
\* is gone, whichever way it went.
NobodyShowsTheGone ==
    ~due => \A c \in Clients : IsStream(server, c) => server.conn[c].target \in server.terminals

\* Terminals that were given out, and only those, have an owner or a lock.
UsedTerminals ==
    /\ server.terminals \cup server.locks \subseteq used
    /\ \A t \in Terminals : server.owner[t] # NoClient => t \in used

\* A direct client's writer is dropped only with the client.
StreamsHaveWriters ==
    \A c \in Clients :
        /\ IsStream(server, c) \/ IsPending(server, c) => server.conn[c].writer # "none"
        /\ IsPending(server, c) => c # server.foreground

\* What holds in every state, and is enough to hold in the next one.
IndInv ==
    /\ TypeOK
    /\ OwnerIsAttached
    /\ LocksAreOwned
    /\ AttachedHasItsSize
    /\ ForegroundIsFull
    /\ OthersFitTheForeground
    /\ NobodyShowsTheGone
    /\ UsedTerminals
    /\ StreamsHaveWriters
=============================================================================
