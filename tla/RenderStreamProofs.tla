------------------------- MODULE RenderStreamProofs -------------------------
(***************************************************************************)
(* The server's idea of every client's screen is right, for any number of  *)
(* clients and panes: DiffsFit, through the inductive DiffsInv.            *)
(*                                                                         *)
(* What a client shows is three layers: the frame in its slot, over the    *)
(* frame its writer holds, over its screen.  A layer only moves down, and  *)
(* a new one is put on top only when the slot is empty; it is a difference *)
(* to the baseline, that is, to what the layers below show.                *)
(***************************************************************************)
EXTENDS RenderStream, FiniteSetTheorems, TLAPS

\* What two layers show.
LEMMA TwoLayers ==
    ASSUME NEW a, NEW b
    PROVE  /\ DOMAIN Drawn(a, b) = DOMAIN a \cup DOMAIN b
           /\ \A x \in DOMAIN a : Drawn(a, b)[x] = a[x]
           /\ \A x \in DOMAIN b \ DOMAIN a : Drawn(a, b)[x] = b[x]
BY DEF Drawn

\* The upper of two layers hides the lower one.
LEMMA OnTop ==
    ASSUME NEW a, NEW b, NEW x \in DOMAIN a
    PROVE  x \in DOMAIN Drawn(a, b) /\ Drawn(a, b)[x] = a[x]
BY TwoLayers

\* Where the upper layer shows nothing, the lower one is seen.
LEMMA Beneath ==
    ASSUME NEW a, NEW b, NEW x, x \notin DOMAIN a
    PROVE  /\ x \in DOMAIN Drawn(a, b) <=> x \in DOMAIN b
           /\ x \in DOMAIN b => Drawn(a, b)[x] = b[x]
<1>1. DOMAIN Drawn(a, b) = DOMAIN a \cup DOMAIN b
  BY TwoLayers
<1>2. ASSUME x \in DOMAIN b PROVE Drawn(a, b)[x] = b[x]
  <2>1. x \in DOMAIN b \ DOMAIN a
    BY <1>2
  <2> QED
    BY <2>1 DEF Drawn
<1> QED
  BY <1>1, <1>2

\* A blank screen, slot or baseline shows no part.
LEMMA BlankIsEmpty == DOMAIN Blank = {}
BY DEF Blank

\* An appended event takes none away.
LEMMA PostKeeps ==
    ASSUME inbox \in Seq(Event), NEW e \in Event, inbox' = Append(inbox, e), NEW c
    PROVE  /\ inbox' \in Seq(Event)
           /\ Pending("resize", c) => Pending("resize", c)'
           /\ e = [kind |-> "resize", client |-> c] => Pending("resize", c)'
<1>1. inbox' \in Seq(Event)
  OBVIOUS
<1>2. /\ \A i \in DOMAIN inbox : i \in DOMAIN inbox' /\ inbox'[i] = inbox[i]
      /\ Len(inbox) + 1 \in DOMAIN inbox' /\ inbox'[Len(inbox) + 1] = e
  OBVIOUS
<1> QED
  BY <1>1, <1>2 DEF Pending

\* Only the event that is handled is taken away.
LEMMA TailKeeps ==
    ASSUME inbox \in Seq(Event), inbox # <<>>, inbox' = Tail(inbox), NEW c
    PROVE  /\ inbox' \in Seq(Event)
           /\ Head(inbox) \in Event
           /\ Pending("resize", c) =>
                  Pending("resize", c)' \/ Head(inbox) = [kind |-> "resize", client |-> c]
<1>1. inbox' \in Seq(Event) /\ Head(inbox) \in Event
  OBVIOUS
<1>2. ASSUME Pending("resize", c), Head(inbox) # [kind |-> "resize", client |-> c]
      PROVE  Pending("resize", c)'
  <2>1. PICK i \in DOMAIN inbox : inbox[i] = [kind |-> "resize", client |-> c]
    BY <1>2 DEF Pending
  <2>2. i # 1
    BY <1>2, <2>1
  <2>3. i - 1 \in DOMAIN inbox' /\ inbox'[i - 1] = inbox[i]
    BY <2>1, <2>2
  <2> QED
    BY <2>1, <2>3 DEF Pending
<1> QED
  BY <1>1, <1>2

\* A step that moves no frame, makes baselines blank at most, and takes no
\* resize away but from a client whose baseline is then blank.
LEMMA QuietFit ==
    ASSUME DiffsFit, UNCHANGED <<slot, held>>,
           \A c \in Clients : conn[c] # "open" => conn'[c] # "open",
           \A c \in Clients : conn'[c] = "open" => screen'[c] = screen[c] \/ Pending("resize", c)',
           \A c \in Clients : baseline'[c] = baseline[c] \/ baseline'[c] = Blank,
           \A c \in Clients : Pending("resize", c)
                                  => Pending("resize", c)' \/ baseline'[c] = Blank
    PROVE  DiffsFit'
<1> SUFFICES ASSUME NEW c \in Clients, conn'[c] = "open", ~Pending("resize", c)',
                    NEW x \in DOMAIN baseline'[c]
             PROVE  x \in DOMAIN Shown(c)' /\ Shown(c)'[x] = baseline'[c][x]
  BY DEF DiffsFit
<1>1. baseline'[c] # Blank
  BY BlankIsEmpty
<1>2. baseline'[c] = baseline[c] /\ conn[c] = "open" /\ ~Pending("resize", c)
  BY <1>1
<1>3. Shown(c)' = Shown(c)
  BY DEF Shown
<1> QED
  BY <1>2, <1>3 DEF DiffsFit

\* No client is connected when the server starts.
THEOREM InitFits == Init => DiffsInv
<1> SUFFICES ASSUME Init PROVE DiffsInv
  OBVIOUS
<1>1. /\ PerClient(baseline) /\ PerClient(slot) /\ PerClient(held)
      /\ PerClient(screen) /\ PerClient(writer) /\ PerClient(conn)
      /\ DOMAIN now = Parts /\ clients \subseteq Clients
      /\ inbox \in Seq(Event) /\ targets \in Seq(Clients) /\ broken = {} /\ pc = "top"
  BY DEF Init, PerClient
<1>2. \A c \in Clients : baseline[c] = Blank /\ held[c] = Blank /\ conn[c] = "new"
  BY DEF Init
<1>3. DiffsFit
  BY <1>2 DEF DiffsFit
<1> QED
  BY <1>1, <1>2, <1>3 DEF DiffsInv

---------------------------------------------------------------------------
(* Introductions: the server knows nobody before the handshake.            *)

\* A client that has not connected is not registered, has no writer thread, and
\* no event in the queue is about it.
Introduced ==
    /\ PerClient(writer) /\ PerClient(conn)
    /\ clients \subseteq Clients
    /\ inbox \in Seq(Event)
    /\ \A i \in DOMAIN inbox : conn[inbox[i].client] # "new"
    /\ \A c \in Clients : conn[c] = "new" => c \notin clients /\ writer[c] = "none"

\* The queue stays introduced when an event of a client that connected is added.
LEMMA PostIntroduces ==
    ASSUME Introduced, NEW e \in Event, inbox' = Append(inbox, e),
           conn'[e.client] # "new",
           \A c \in Clients : conn[c] # "new" => conn'[c] # "new"
    PROVE  /\ inbox' \in Seq(Event)
           /\ \A i \in DOMAIN inbox' : conn'[inbox'[i].client] # "new"
<1>1. inbox \in Seq(Event)
  BY DEF Introduced
<1>2. inbox' \in Seq(Event)
  BY <1>1
<1>3. ASSUME NEW i \in DOMAIN inbox' PROVE conn'[inbox'[i].client] # "new"
  <2>1. CASE i = Len(inbox) + 1
    <3>1. inbox'[i] = e
      BY <1>1, <2>1
    <3> QED
      BY <3>1
  <2>2. CASE i # Len(inbox) + 1
    <3>1. i \in DOMAIN inbox /\ inbox'[i] = inbox[i]
      BY <1>1, <2>2
    <3>2. inbox[i] \in Event
      BY <1>1, <3>1
    <3>3. inbox[i].client \in Clients
      BY <3>2 DEF Event
    <3> QED
      BY <3>1, <3>3 DEF Introduced
  <2> QED
    BY <2>1, <2>2
<1> QED
  BY <1>2, <1>3

\* A handler registers at most the client the event is about.
LEMMA HandlerIntroduces ==
    ASSUME Introduced, HandleEvent
    PROVE  Introduced'
<1> DEFINE c == Head(inbox).client
           kind == Head(inbox).kind
<1>1. inbox \in Seq(Event) /\ inbox # <<>> /\ inbox' = Tail(inbox)
  BY DEF Introduced, HandleEvent
<1>2. UNCHANGED <<writer, conn>>
  BY DEF HandleEvent, transport, client
<1>3. c \in Clients /\ conn[c] # "new"
  <2>1. Head(inbox) \in Event /\ Head(inbox) = inbox[1] /\ 1 \in DOMAIN inbox
    BY <1>1
  <2> QED
    BY <2>1 DEF Event, Introduced
<1>4. clients' \subseteq clients \cup {c}
  <2>1. \/ HandleConnected(c) \/ HandleKey(c) \/ HandleReply(c) \/ HandleFocus(c)
        \/ HandleDetach(c) \/ HandleResize(c) \/ HandleDisconnected(c) \/ HandleDrained(c)
    BY DEF HandleEvent
  <2> HIDE DEF c, kind
  <2>2. clients' = clients \/ clients' = clients \cup {c} \/ clients' = clients \ {c}
    BY <2>1 DEF HandleConnected, HandleKey, HandleReply, HandleFocus, HandleDetach,
                HandleResize, HandleDisconnected, HandleDrained, RemoveClient
  <2> QED
    BY <2>2
<1>5. \A i \in DOMAIN inbox' : i + 1 \in DOMAIN inbox /\ inbox'[i] = inbox[i + 1]
  BY <1>1
<1>6. inbox' \in Seq(Event)
  BY <1>1
<1>7. \A i \in DOMAIN inbox' : conn'[inbox'[i].client] # "new"
  BY <1>2, <1>5 DEF Introduced
<1>8. clients' \subseteq Clients
      /\ \A d \in Clients : conn'[d] = "new" => d \notin clients' /\ writer'[d] = "none"
  <2> HIDE DEF c, kind
  <2> QED
    BY <1>2, <1>3, <1>4 DEF Introduced
<1> QED
  BY <1>2, <1>6, <1>7, <1>8 DEF Introduced, PerClient

\* RemoveClient registers nobody.
LEMMA RemoveIntroduces ==
    ASSUME Introduced, NEW c, RemoveClient(c), UNCHANGED <<writer, conn, inbox>>
    PROVE  Introduced'
<1>1. clients' = clients \ {c}
  BY DEF RemoveClient
<1> QED
  BY <1>1 DEF Introduced, PerClient

\* The server knows nobody before the handshake.
THEOREM NobodyUnintroduced == Spec => []Introduced
<1>1. Init => Introduced
  BY DEF Init, Introduced, PerClient
<1>2. Introduced /\ [Next]_vars => Introduced'
  <2> SUFFICES ASSUME Introduced, [Next]_vars
               PROVE  Introduced'
    OBVIOUS
  <2>1. CASE UNCHANGED <<writer, conn, clients, inbox>>
    BY <2>1 DEF Introduced, PerClient
  <2>2. ASSUME NEW p \in Panes, PtyWrite(p) \/ ReaderStep(p) PROVE Introduced'
    BY <2>1, <2>2 DEF PtyWrite, ReaderStep, RequestRender, NotifyLoop, registry, transport, client
  <2>3. CASE Change \/ StartRender
    BY <2>1, <2>3 DEF Change, StartRender, registry, transport, client
  <2>4. CASE Drain \/ WakeByEvent
    BY <2>4, HandlerIntroduces DEF Drain, WakeByEvent
  <2>5. CASE CheckDirty \/ GoWait \/ WakeByPermit \/ WakeByDeadline
    BY <2>1, <2>5 DEF CheckDirty, GoWait, WakeByPermit, WakeByDeadline, registry, transport,
                      client
  <2>6. CASE RenderTarget \/ Rendered \/ RetainedSent \/ RetainedRefused \/ RetainedFallback
    BY <2>1, <2>6 DEF RenderTarget, Rendered, RetainedSent, RetainedRefused,
                      RetainedFallback, registry, transport, client
  <2>7. CASE RemoveBroken
    <3>1. PICK c \in broken : RemoveClient(c)
      BY <2>7 DEF RemoveBroken
    <3> QED
      BY <2>7, <3>1, RemoveIntroduces DEF RemoveBroken, transport, client
  <2>8. CASE AfterRefusal
    <3>1. UNCHANGED <<writer, conn, inbox>>
      BY <2>8 DEF AfterRefusal, transport, client
    <3>2. CASE broken = {}
      BY <2>1, <2>8, <3>1, <3>2 DEF AfterRefusal, registry
    <3>3. CASE broken # {}
      <4>1. PICK c \in broken : RemoveClient(c)
        BY <2>8, <3>3 DEF AfterRefusal
      <4> QED
        BY <3>1, <4>1, RemoveIntroduces
    <3> QED
      BY <3>2, <3>3
  <2>9. ASSUME NEW c \in Clients, TakeFrame(c) \/ WriteFrame(c) \/ WriterExits(c)
        PROVE  Introduced'
    <3>1. /\ writer[c] # "none"
          /\ UNCHANGED <<conn, clients, inbox>>
          /\ \E w : writer' = [writer EXCEPT ![c] = w]
      BY <2>9 DEF TakeFrame, WriteFrame, WriterExits, registry, client
    <3> QED
      BY <3>1 DEF Introduced, PerClient
  <2>10. ASSUME NEW c \in Clients, AnnounceDrained(c) PROVE Introduced'
    <3>1. /\ writer[c] = "taken" /\ writer' = [writer EXCEPT ![c] = "writing"]
          /\ inbox' = Append(inbox, [kind |-> "drained", client |-> c])
          /\ UNCHANGED <<conn, clients>>
      BY <2>10 DEF AnnounceDrained, Post, registry, client
    <3>2. [kind |-> "drained", client |-> c] \in Event
      BY DEF Event
    <3>3. conn[c] # "new"
      BY <3>1 DEF Introduced
    <3>4. inbox' \in Seq(Event) /\ \A i \in DOMAIN inbox' : conn'[inbox'[i].client] # "new"
      BY <3>1, <3>2, <3>3, PostIntroduces
    <3> QED
      BY <3>1, <3>4 DEF Introduced, PerClient
  <2>11. ASSUME NEW c \in Clients, Connect(c) \/ Leave(c) \/ ReadEnds(c)
                                       \/ \E kind \in Kinds : Send(c, kind)
         PROVE  Introduced'
    <3>1. PICK k \in {"open", "left", "ended"} : conn' = [conn EXCEPT ![c] = k]
      BY <2>11 DEF Connect, Leave, ReadEnds, Send, Introduced, PerClient
    <3>2. \/ inbox' = inbox
          \/ \E e \in Event : e.client = c /\ inbox' = Append(inbox, e)
      BY <2>11 DEF Connect, Leave, ReadEnds, Send, Post, Event
    <3>3. conn'[c] # "new" /\ \A d \in Clients : conn[d] # "new" => conn'[d] # "new"
      BY <3>1 DEF Introduced, PerClient
    <3>4. inbox' \in Seq(Event) /\ \A i \in DOMAIN inbox' : conn'[inbox'[i].client] # "new"
      <4>1. CASE inbox' = inbox
        <5>1. inbox \in Seq(Event) /\ \A i \in DOMAIN inbox : inbox[i] \in Event
          BY DEF Introduced
        <5>2. \A i \in DOMAIN inbox : inbox[i].client \in Clients
          BY <5>1 DEF Event
        <5> QED
          BY <3>3, <4>1, <5>1, <5>2 DEF Introduced
      <4>2. CASE inbox' # inbox
        <5>1. PICK e \in Event : e.client = c /\ inbox' = Append(inbox, e)
          BY <3>2, <4>2
        <5> QED
          BY <3>3, <5>1, PostIntroduces
      <4> QED
        BY <4>1, <4>2
    <3>5. clients' = clients /\ \E w : writer' = [writer EXCEPT ![c] = w]
      BY <2>11 DEF Connect, Leave, ReadEnds, Send, registry, transport, Introduced, PerClient
    <3> QED
      BY <3>1, <3>3, <3>4, <3>5 DEF Introduced, PerClient
  <2>12. CASE UNCHANGED vars
    BY <2>1, <2>12 DEF vars, registry, transport, client
  <2> QED
    BY <2>2, <2>3, <2>4, <2>5, <2>6, <2>7, <2>8, <2>9, <2>10, <2>11, <2>12
       DEF Next, LoopStep, WriterStep
<1> QED
  BY <1>1, <1>2, PTL DEF Spec

---------------------------------------------------------------------------
(* The handlers of the event loop.                                         *)

\* What a handler may do to the baselines: blank some of them.
LEMMA ResizeBlanks ==
    ASSUME DOMAIN now = Parts, NEW base, PerClient(base), NEW fg, NEW remaining,
           ResizeShared(fg, remaining, base)
    PROVE  /\ DOMAIN now' = Parts
           /\ PerClient(baseline)'
           /\ \A c \in Clients : baseline'[c] = base[c] \/ baseline'[c] = Blank
           /\ fg \in remaining => \A c \in Clients : baseline'[c] = Blank
<1>1. CASE fg \in remaining
  BY <1>1 DEF ResizeShared, GiveShape, PerClient
<1>2. CASE fg \notin remaining
  BY <1>2 DEF ResizeShared, PerClient
<1> QED
  BY <1>1, <1>2

\* A promotion too; with the resize forced, every baseline becomes blank.
LEMMA PromoteBlanks ==
    ASSUME DOMAIN now = Parts, NEW base, PerClient(base), NEW c, NEW always \in BOOLEAN,
           Promote(c, always, base)
    PROVE  /\ DOMAIN now' = Parts
           /\ PerClient(baseline)'
           /\ \A d \in Clients : baseline'[d] = base[d] \/ baseline'[d] = Blank
           /\ always /\ c \in clients => \A d \in Clients : baseline'[d] = Blank
<1> DEFINE fg == IF c \in clients THEN c ELSE foreground
<1>1. CASE always \/ fg # foreground
  <2>1. ResizeShared(fg, clients, base)
    BY <1>1 DEF Promote
  <2> HIDE DEF fg
  <2>2. /\ DOMAIN now' = Parts
        /\ PerClient(baseline)'
        /\ \A d \in Clients : baseline'[d] = base[d] \/ baseline'[d] = Blank
        /\ fg \in clients => \A d \in Clients : baseline'[d] = Blank
    BY <2>1, ResizeBlanks
  <2> QED
    BY <2>2 DEF fg
<1>2. CASE ~(always \/ fg # foreground)
  <2>1. baseline' = base /\ now' = now
    BY <1>2 DEF Promote
  <2> QED
    BY <1>2, <2>1 DEF PerClient
<1> QED
  BY <1>1, <1>2

\* Removing a client blanks its baseline, and the others at most.
LEMMA RemoveBlanks ==
    ASSUME DOMAIN now = Parts, PerClient(baseline), clients \subseteq Clients,
           NEW c \in Clients, RemoveClient(c)
    PROVE  /\ DOMAIN now' = Parts
           /\ PerClient(baseline)'
           /\ clients' = clients \ {c}
           /\ baseline'[c] = Blank
           /\ \A d \in Clients : baseline'[d] = baseline[d] \/ baseline'[d] = Blank
<1> DEFINE base == [baseline EXCEPT ![c] = Blank]
<1>1. /\ PerClient(base)
      /\ base[c] = Blank
      /\ \A d \in Clients : base[d] = baseline[d] \/ base[d] = Blank
  BY DEF PerClient
<1>2. clients' = clients \ {c}
  BY DEF RemoveClient
<1>3. CASE c \in clients /\ foreground = c
  <2>1. ResizeShared(foreground', clients', base)
    BY <1>3 DEF RemoveClient
  <2> HIDE DEF base
  <2>2. /\ DOMAIN now' = Parts
        /\ PerClient(baseline)'
        /\ \A d \in Clients : baseline'[d] = base[d] \/ baseline'[d] = Blank
    BY <1>1, <2>1, ResizeBlanks
  <2> QED
    BY <1>1, <1>2, <2>2
<1>4. CASE ~(c \in clients /\ foreground = c)
  <2>1. baseline' = base /\ now' = now
    BY <1>4 DEF RemoveClient
  <2> HIDE DEF base
  <2>2. PerClient(baseline)'
    BY <1>1, <2>1 DEF PerClient
  <2> QED
    BY <1>1, <1>2, <2>1, <2>2
<1> QED
  BY <1>3, <1>4

\* The resets that a handler makes of its own.
LEMMA OwnResets ==
    ASSUME PerClient(baseline), NEW c \in Clients
    PROVE  /\ PerClient(InputBaseline(c)) /\ PerClient([baseline EXCEPT ![c] = Blank])
           /\ \A d \in Clients : /\ \/ InputBaseline(c)[d] = baseline[d]
                                    \/ InputBaseline(c)[d] = Blank
                                 /\ \/ [baseline EXCEPT ![c] = Blank][d] = baseline[d]
                                    \/ [baseline EXCEPT ![c] = Blank][d] = Blank
BY DEF PerClient, InputBaseline

\* What the handling of any event does: a resize blanks its sender's baseline.
LEMMA HandlerBlanks ==
    ASSUME DiffsInv, HandleEvent
    PROVE  /\ DOMAIN now' = Parts
           /\ PerClient(baseline)'
           /\ clients' \subseteq Clients
           /\ \A d \in Clients : baseline'[d] = baseline[d] \/ baseline'[d] = Blank
           /\ \A d \in Clients : baseline'[d] # Blank => d \in clients'
           /\ \A d \in Clients : Head(inbox) = [kind |-> "resize", client |-> d]
                                    => baseline'[d] = Blank
<1> DEFINE c == Head(inbox).client
           kind == Head(inbox).kind
<1>0. /\ DOMAIN now = Parts /\ PerClient(baseline) /\ clients \subseteq Clients
      /\ \A d \in Clients : baseline[d] # Blank => d \in clients
  BY DEF DiffsInv
<1>1. c \in Clients
  <2>1. inbox \in Seq(Event) /\ inbox # <<>>
    BY DEF DiffsInv, HandleEvent
  <2>2. Head(inbox) \in Event
    BY <2>1
  <2> QED
    BY <2>2 DEF Event
<1>2. \A d \in Clients : Head(inbox) = [kind |-> "resize", client |-> d]
                             => kind = "resize" /\ c = d
  OBVIOUS
<1>3. \/ kind = "connected" /\ HandleConnected(c)
      \/ kind = "key" /\ HandleKey(c)
      \/ kind = "reply" /\ HandleReply(c)
      \/ kind = "focus" /\ HandleFocus(c)
      \/ kind = "detach" /\ HandleDetach(c)
      \/ kind = "resize" /\ HandleResize(c)
      \/ kind = "disconnected" /\ HandleDisconnected(c)
      \/ kind = "drained" /\ HandleDrained(c)
  BY DEF HandleEvent
<1> HIDE DEF c, kind
<1>4. CASE kind = "connected" /\ HandleConnected(c)
  <2>1. clients' = clients \cup {c} /\ ResizeShared(c, clients', baseline)
    BY <1>4 DEF HandleConnected
  <2>2. /\ DOMAIN now' = Parts /\ PerClient(baseline)'
        /\ \A d \in Clients : baseline'[d] = Blank
    BY <1>0, <2>1, ResizeBlanks
  <2> QED
    BY <1>0, <1>1, <2>1, <2>2
<1>5. CASE kind = "key" /\ HandleKey(c)
  <2>1. clients' = clients /\ Promote(c, FALSE, InputBaseline(c))
    BY <1>5 DEF HandleKey
  <2> DEFINE base == InputBaseline(c)
  <2>2. PerClient(base) /\ \A d \in Clients : base[d] = baseline[d] \/ base[d] = Blank
    BY <1>0, <1>1, OwnResets
  <2> HIDE DEF base
  <2>3. /\ DOMAIN now' = Parts /\ PerClient(baseline)'
        /\ \A d \in Clients : baseline'[d] = base[d] \/ baseline'[d] = Blank
    BY <1>0, <2>1, <2>2, PromoteBlanks DEF base
  <2> QED
    BY <1>0, <1>2, <1>5, <2>1, <2>2, <2>3
<1>6. CASE kind = "reply" /\ HandleReply(c)
  <2>1. UNCHANGED <<clients, now>> /\ baseline' = InputBaseline(c)
    BY <1>6 DEF HandleReply
  <2>2. PerClient(baseline)'
    BY <1>0, <1>1, <2>1, OwnResets DEF PerClient
  <2> QED
    BY <1>0, <1>1, <1>2, <1>6, <2>1, <2>2, OwnResets
<1>7. CASE kind = "focus" /\ HandleFocus(c)
  <2>1. clients' = clients /\ Promote(c, FALSE, [baseline EXCEPT ![c] = Blank])
    BY <1>7 DEF HandleFocus
  <2> DEFINE base == [baseline EXCEPT ![c] = Blank]
  <2>2. PerClient(base) /\ \A d \in Clients : base[d] = baseline[d] \/ base[d] = Blank
    BY <1>0, <1>1, OwnResets
  <2> HIDE DEF base
  <2>3. /\ DOMAIN now' = Parts /\ PerClient(baseline)'
        /\ \A d \in Clients : baseline'[d] = base[d] \/ baseline'[d] = Blank
    BY <1>0, <2>1, <2>2, PromoteBlanks DEF base
  <2> QED
    BY <1>0, <1>2, <1>7, <2>1, <2>2, <2>3
<1>8. CASE kind = "detach" /\ HandleDetach(c)
  <2>1. clients' = clients /\ Promote(c, FALSE, InputBaseline(c))
    BY <1>8 DEF HandleDetach
  <2> DEFINE base == InputBaseline(c)
  <2>2. PerClient(base) /\ \A d \in Clients : base[d] = baseline[d] \/ base[d] = Blank
    BY <1>0, <1>1, OwnResets
  <2> HIDE DEF base
  <2>3. /\ DOMAIN now' = Parts /\ PerClient(baseline)'
        /\ \A d \in Clients : baseline'[d] = base[d] \/ baseline'[d] = Blank
    BY <1>0, <2>1, <2>2, PromoteBlanks DEF base
  <2> QED
    BY <1>0, <1>2, <1>8, <2>1, <2>2, <2>3
<1>9. CASE kind = "resize" /\ HandleResize(c)
  <2>1. clients' = clients /\ Promote(c, TRUE, baseline)
    BY <1>9 DEF HandleResize
  <2>2. /\ DOMAIN now' = Parts /\ PerClient(baseline)'
        /\ \A d \in Clients : baseline'[d] = baseline[d] \/ baseline'[d] = Blank
        /\ c \in clients => \A d \in Clients : baseline'[d] = Blank
    BY <1>0, <2>1, PromoteBlanks
  <2>3. baseline'[c] = Blank
    BY <1>0, <1>1, <2>2
  <2> QED
    BY <1>0, <1>2, <2>1, <2>2, <2>3
<1>10. CASE kind = "disconnected" /\ HandleDisconnected(c)
  <2>1. RemoveClient(c)
    BY <1>10 DEF HandleDisconnected
  <2>2. /\ DOMAIN now' = Parts /\ PerClient(baseline)'
        /\ clients' = clients \ {c} /\ baseline'[c] = Blank
        /\ \A d \in Clients : baseline'[d] = baseline[d] \/ baseline'[d] = Blank
    BY <1>0, <1>1, <2>1, RemoveBlanks
  <2> QED
    BY <1>0, <1>2, <1>10, <2>2
<1>11. CASE kind = "drained" /\ HandleDrained(c)
  <2>1. UNCHANGED <<clients, now, baseline>>
    BY <1>11 DEF HandleDrained
  <2> QED
    BY <1>0, <1>2, <1>11, <2>1 DEF PerClient
<1> QED
  BY <1>3, <1>4, <1>5, <1>6, <1>7, <1>8, <1>9, <1>10, <1>11

---------------------------------------------------------------------------
(* Sending a frame.                                                        *)

\* Whatever becomes of a frame of all parts that is prepared for a registered
\* client, the client still agrees with its baseline.
LEMMA SendFits ==
    ASSUME DiffsInv, NEW c \in Clients, c \in clients, NEW f, DOMAIN f = Parts,
           Current(c, f) \/ Sent(c, f) \/ SlotFull(c, f) \/ WriterGone(c, f),
           UNCHANGED <<held, screen, conn, inbox>>
    PROVE  /\ DiffsFit'
           /\ PerClient(baseline)' /\ PerClient(slot)'
           /\ \A d \in Clients : baseline'[d] # Blank => d \in clients
<1>0. /\ PerClient(baseline) /\ PerClient(slot) /\ DiffsFit
      /\ \A d \in Clients : baseline[d] # Blank => d \in clients
  BY DEF DiffsInv
<1>1. CASE UNCHANGED <<baseline, slot>>
  <2>1. DiffsFit'
    BY <1>0, <1>1, QuietFit DEF Pending
  <2> QED
    BY <1>0, <1>1, <2>1 DEF PerClient
<1>2. CASE Sent(c, f)
  <2>1. /\ slot[c] = Blank
        /\ slot' = [slot EXCEPT ![c] = Prepared(c, f)]
        /\ baseline' = [baseline EXCEPT ![c] = f]
    BY <1>2 DEF Sent
  <2>2. PerClient(baseline)' /\ PerClient(slot)'
    BY <1>0, <2>1 DEF PerClient
  <2>3. /\ \A d \in Clients \ {c} : baseline'[d] = baseline[d] /\ slot'[d] = slot[d]
        /\ baseline'[c] = f /\ slot'[c] = Prepared(c, f)
    BY <1>0, <2>1 DEF PerClient
  <2>4. ASSUME NEW d \in Clients, conn'[d] = "open", ~Pending("resize", d)',
               NEW x \in DOMAIN baseline'[d]
        PROVE  x \in DOMAIN Shown(d)' /\ Shown(d)'[x] = baseline'[d][x]
    <3>1. conn[d] = "open" /\ ~Pending("resize", d)
      BY <2>4 DEF Pending
    <3>2. CASE d # c
      <4>1. Shown(d)' = Shown(d) /\ baseline'[d] = baseline[d]
        BY <2>3, <3>2 DEF Shown
      <4> QED
        BY <1>0, <3>1, <4>1 DEF DiffsFit
    <3>3. CASE d = c
      <4>1. x \in Parts /\ baseline'[d][x] = f[x]
        BY <2>3, <3>3
      <4>2. CASE x \in DOMAIN Prepared(c, f)
        <5>1. Prepared(c, f)[x] = f[x]
          BY <4>1, <4>2 DEF Prepared
        <5>2. Shown(d)' = Drawn(Prepared(c, f), Drawn(held[c], screen[c]))
          BY <2>3, <3>3 DEF Shown
        <5> DEFINE below == Drawn(held[c], screen[c])
        <5>3. /\ x \in DOMAIN Drawn(Prepared(c, f), below)
              /\ Drawn(Prepared(c, f), below)[x] = f[x]
          BY <4>2, <5>1, OnTop
        <5> QED
          BY <4>1, <5>2, <5>3
      <4>3. CASE x \notin DOMAIN Prepared(c, f)
        <5>1. x \in DOMAIN baseline[c] /\ baseline[c][x] = f[x]
          BY <4>1, <4>3 DEF Prepared
        <5>2. x \in DOMAIN Shown(c) /\ Shown(c)[x] = f[x]
          BY <1>0, <3>1, <3>3, <5>1 DEF DiffsFit
        <5> DEFINE below == Drawn(held[c], screen[c])
        <5>3. x \in DOMAIN below /\ below[x] = f[x]
          <6>1. Shown(c) = Drawn(Blank, below)
            BY <2>1 DEF Shown
          <6> QED
            BY <5>2, <6>1, Beneath, BlankIsEmpty
        <5>4. Shown(d)' = Drawn(Prepared(c, f), Drawn(held[c], screen[c]))
          BY <2>3, <3>3 DEF Shown
        <5>5. /\ x \in DOMAIN Drawn(Prepared(c, f), below)
              /\ Drawn(Prepared(c, f), below)[x] = f[x]
          BY <4>3, <5>3, Beneath
        <5> QED
          BY <4>1, <5>4, <5>5
      <4> QED
        BY <4>2, <4>3
    <3> QED
      BY <3>2, <3>3
  <2>5. DiffsFit'
    BY <2>4 DEF DiffsFit
  <2> QED
    BY <1>0, <2>2, <2>3, <2>5
<1> QED
  BY <1>1, <1>2 DEF Current, SlotFull, WriterGone

\* A layer moves down when the writer takes it and when it writes it.
LEMMA WriterFits ==
    ASSUME DiffsInv, NEW c \in Clients, WriterStep(c)
    PROVE  DiffsInv'
<1>0. /\ PerClient(baseline) /\ PerClient(slot) /\ PerClient(held)
      /\ PerClient(screen) /\ PerClient(writer) /\ PerClient(conn)
      /\ DiffsFit /\ inbox \in Seq(Event)
      /\ held[c] # Blank => writer[c] \in {"taken", "writing"}
  BY DEF DiffsInv
<1>1. CASE TakeFrame(c)
  <2>1. /\ slot' = [slot EXCEPT ![c] = Blank] /\ held' = [held EXCEPT ![c] = slot[c]]
        /\ writer' = [writer EXCEPT ![c] = "taken"] /\ held[c] = Blank
        /\ UNCHANGED <<baseline, screen, conn, inbox, now, clients, render, pc>>
    BY <1>0, <1>1 DEF TakeFrame, display, loop, registry, render, client
  <2>2. PerClient(slot)' /\ PerClient(held)' /\ PerClient(writer)'
    BY <1>0, <2>1 DEF PerClient
  <2>3. \A d \in Clients : held'[d] # Blank => writer'[d] \in {"taken", "writing"}
    BY <1>0, <2>1 DEF PerClient, DiffsInv
  <2>4. ASSUME NEW d \in Clients, conn'[d] = "open", ~Pending("resize", d)',
               NEW x \in DOMAIN baseline'[d]
        PROVE  x \in DOMAIN Shown(d)' /\ Shown(d)'[x] = baseline'[d][x]
    <3>1. x \in DOMAIN Shown(d) /\ Shown(d)[x] = baseline[d][x]
      BY <1>0, <2>1, <2>4 DEF DiffsFit, Pending
    <3>2. CASE d # c
      BY <1>0, <2>1, <3>1, <3>2 DEF Shown, PerClient
    <3>3. CASE d = c
      <4>1. /\ Shown(d) = Drawn(slot[c], Drawn(Blank, screen[c]))
            /\ Shown(d)' = Drawn(Blank, Drawn(slot[c], screen[c]))
        BY <1>0, <2>1, <3>3 DEF Shown, PerClient
      <4> DEFINE before == Drawn(slot[c], Drawn(Blank, screen[c]))
                 after == Drawn(slot[c], screen[c])
      <4>2. x \in DOMAIN before /\ before[x] = baseline[c][x]
        BY <3>1, <3>3, <4>1
      <4>3. x \in DOMAIN after /\ after[x] = baseline[c][x]
        <5>1. CASE x \in DOMAIN slot[c]
          BY <4>2, <5>1, OnTop
        <5>2. CASE x \notin DOMAIN slot[c]
          <6>1. /\ x \in DOMAIN Drawn(Blank, screen[c])
                /\ Drawn(Blank, screen[c])[x] = baseline[c][x]
            BY <4>2, <5>2, Beneath
          <6>2. x \in DOMAIN screen[c] /\ screen[c][x] = baseline[c][x]
            BY <6>1, BlankIsEmpty, Beneath
          <6> QED
            BY <5>2, <6>2, Beneath
        <5> QED
          BY <5>1, <5>2
      <4>4. x \in DOMAIN Drawn(Blank, after) /\ Drawn(Blank, after)[x] = baseline[c][x]
        BY <4>3, Beneath, BlankIsEmpty
      <4> QED
        BY <2>1, <3>3, <4>1, <4>4
    <3> QED
      BY <3>2, <3>3
  <2>5. DiffsFit'
    BY <2>4 DEF DiffsFit
  <2> QED
    BY <2>1, <2>2, <2>3, <2>5 DEF DiffsInv, PerClient, render
<1>2. CASE AnnounceDrained(c)
  <2>1. /\ inbox' = Append(inbox, [kind |-> "drained", client |-> c])
        /\ writer' = [writer EXCEPT ![c] = "writing"]
        /\ UNCHANGED <<baseline, slot, held, screen, conn, now, clients, render, pc>>
    BY <1>2 DEF AnnounceDrained, Post, display, loop, registry, render, client
  <2>2. [kind |-> "drained", client |-> c] \in Event
    BY DEF Event
  <2>3. /\ inbox' \in Seq(Event)
        /\ \A d \in Clients : Pending("resize", d) => Pending("resize", d)'
    BY <1>0, <2>1, <2>2, PostKeeps
  <2>4. DiffsFit'
    BY <1>0, <2>1, <2>3, QuietFit
  <2>5. PerClient(writer)'
        /\ \A d \in Clients : held'[d] # Blank => writer'[d] \in {"taken", "writing"}
    BY <1>0, <2>1 DEF PerClient, DiffsInv
  <2> QED
    BY <2>1, <2>3, <2>4, <2>5 DEF DiffsInv, PerClient, render
<1>3. CASE WriteFrame(c)
  <2>1. /\ held' = [held EXCEPT ![c] = Blank]
        /\ UNCHANGED <<baseline, conn, inbox, now, clients, render, pc>>
        /\ \/ /\ conn[c] = "open"
              /\ screen' = [screen EXCEPT ![c] = Drawn(held[c], screen[c])]
              /\ writer' = [writer EXCEPT ![c] = "waiting"] /\ slot' = slot
           \/ /\ conn[c] # "open" /\ screen' = screen
              /\ writer' = [writer EXCEPT ![c] = "closed"]
              /\ slot' = [slot EXCEPT ![c] = Blank]
    BY <1>3 DEF WriteFrame, display, loop, registry, render
  <2>2. /\ PerClient(slot)' /\ PerClient(held)' /\ PerClient(writer)' /\ PerClient(screen)'
        /\ \A d \in Clients : held'[d] # Blank => writer'[d] \in {"taken", "writing"}
    BY <1>0, <2>1 DEF PerClient, DiffsInv
  <2>3. ASSUME NEW d \in Clients, conn'[d] = "open", ~Pending("resize", d)',
               NEW x \in DOMAIN baseline'[d]
        PROVE  x \in DOMAIN Shown(d)' /\ Shown(d)'[x] = baseline'[d][x]
    <3>1. x \in DOMAIN Shown(d) /\ Shown(d)[x] = baseline[d][x]
      BY <1>0, <2>1, <2>3 DEF DiffsFit, Pending
    <3>2. CASE d # c
      <4>1. slot'[d] = slot[d] /\ held'[d] = held[d] /\ screen'[d] = screen[d]
        BY <1>0, <2>1, <3>2 DEF PerClient
      <4> QED
        BY <2>1, <3>1, <4>1 DEF Shown
    <3>3. CASE d = c
      <4>1. slot'[c] = slot[c] /\ held'[c] = Blank /\ screen'[c] = Drawn(held[c], screen[c])
        BY <1>0, <2>1, <2>3, <3>3 DEF PerClient
      <4>2. /\ Shown(d) = Drawn(slot[c], Drawn(held[c], screen[c]))
            /\ Shown(d)' = Drawn(slot[c], Drawn(Blank, Drawn(held[c], screen[c])))
        BY <3>3, <4>1 DEF Shown
      <4> DEFINE below == Drawn(held[c], screen[c])
                 after == Drawn(slot[c], Drawn(Blank, below))
      <4>3. x \in DOMAIN after /\ after[x] = baseline[d][x]
        <5>1. CASE x \in DOMAIN slot[c]
          BY <3>1, <4>2, <5>1, OnTop
        <5>2. CASE x \notin DOMAIN slot[c]
          <6>1. x \in DOMAIN below /\ below[x] = baseline[d][x]
            BY <3>1, <4>2, <5>2, Beneath
          <6>2. x \in DOMAIN Drawn(Blank, below) /\ Drawn(Blank, below)[x] = baseline[d][x]
            BY <6>1, Beneath, BlankIsEmpty
          <6> QED
            BY <5>2, <6>2, Beneath
        <5> QED
          BY <5>1, <5>2
      <4> QED
        BY <2>1, <3>3, <4>2, <4>3
    <3> QED
      BY <3>2, <3>3
  <2>4. DiffsFit'
    BY <2>3 DEF DiffsFit
  <2> QED
    BY <2>1, <2>2, <2>4 DEF DiffsInv, PerClient, render
<1>4. CASE WriterExits(c)
  <2>1. /\ writer' = [writer EXCEPT ![c] = "closed"] /\ held[c] = Blank
        /\ UNCHANGED <<baseline, slot, held, screen, conn, inbox, now, clients, render, pc>>
    BY <1>0, <1>4 DEF WriterExits, display, loop, registry, render, client
  <2>2. DiffsFit'
    BY <1>0, <2>1, QuietFit DEF Pending
  <2>3. PerClient(writer)'
        /\ \A d \in Clients : held'[d] # Blank => writer'[d] \in {"taken", "writing"}
    BY <1>0, <2>1 DEF PerClient, DiffsInv
  <2> QED
    BY <2>1, <2>2, <2>3 DEF DiffsInv, PerClient, render
<1> QED
  BY <1>1, <1>2, <1>3, <1>4 DEF WriterStep

---------------------------------------------------------------------------
(* The steps.                                                              *)

\* A step of the readers or of the loop that touches no client.
LEMMA IdleFits ==
    ASSUME DiffsInv,
           UNCHANGED <<baseline, slot, held, screen, conn, writer, inbox, clients, broken>>,
           DOMAIN now' = DOMAIN now,
           \/ UNCHANGED <<targets, pc>>
           \/ targets' = targets /\ pc' \notin {"full", "retained"}
           \/ targets' = targets /\ pc = "retained"
           \/ targets' \in Seq(Clients) /\ \A i \in DOMAIN targets' : targets'[i] \in clients
    PROVE  DiffsInv'
<1>1. DiffsFit'
  BY QuietFit DEF DiffsInv, Pending
<1> QED
  BY <1>1 DEF DiffsInv, PerClient

\* The render targets are registered.
LEMMA TargetsRegistered ==
    ASSUME clients \subseteq Clients, NEW s \in TargetOrder
    PROVE  s \in Seq(Clients) /\ \A i \in DOMAIN s : s[i] \in clients
<1>1. /\ s \in [1..Cardinality(Writing) -> Writing]
      /\ Writing \subseteq clients
  BY DEF TargetOrder, Writing
<1>2. Cardinality(Writing) \in Nat
  BY <1>1, FS_Subset, FS_CardinalityType, ConstantsAssumption
<1> QED
  BY <1>1, <1>2

\* An event that is appended by a client's connection.
LEMMA ConnectionFits ==
    ASSUME DiffsInv, Introduced, NEW c \in Clients,
           Connect(c) \/ Leave(c) \/ ReadEnds(c) \/ \E kind \in Kinds : Send(c, kind)
    PROVE  DiffsInv'
<1>0. /\ UNCHANGED <<baseline, slot, held, now, clients, render, pc>>
      /\ PerClient(screen) /\ PerClient(conn) /\ PerClient(writer) /\ inbox \in Seq(Event)
  BY DEF Connect, Leave, ReadEnds, Send, display, loop, registry, transport, DiffsInv
<1>1. CASE Connect(c)
  <2>1. /\ conn[c] = "new" /\ conn' = [conn EXCEPT ![c] = "open"]
        /\ writer' = [writer EXCEPT ![c] = "waiting"] /\ screen' = screen
        /\ inbox' = Append(inbox, [kind |-> "connected", client |-> c])
    BY <1>1 DEF Connect, Post
  <2>2. baseline[c] = Blank /\ held[c] = Blank
    BY <2>1 DEF DiffsInv, Introduced
  <2>3. [kind |-> "connected", client |-> c] \in Event
    BY DEF Event
  <2>4. /\ inbox' \in Seq(Event)
        /\ \A d \in Clients : Pending("resize", d) => Pending("resize", d)'
    BY <1>0, <2>1, <2>3, PostKeeps
  <2>5. DiffsFit'
    <3> SUFFICES ASSUME NEW d \in Clients, conn'[d] = "open", ~Pending("resize", d)',
                        NEW x \in DOMAIN baseline'[d]
                 PROVE  x \in DOMAIN Shown(d)' /\ Shown(d)'[x] = baseline'[d][x]
      BY DEF DiffsFit
    <3>1. d # c
      BY <1>0, <2>2, BlankIsEmpty
    <3>2. conn[d] = "open" /\ ~Pending("resize", d)
      BY <1>0, <2>1, <2>4, <3>1 DEF PerClient
    <3>3. Shown(d)' = Shown(d) /\ baseline'[d] = baseline[d]
      BY <1>0, <2>1 DEF Shown
    <3> QED
      BY <3>2, <3>3 DEF DiffsInv, DiffsFit
  <2>6. PerClient(conn)' /\ PerClient(writer)'
        /\ \A d \in Clients : held'[d] # Blank => writer'[d] \in {"taken", "writing"}
    BY <1>0, <2>1, <2>2 DEF PerClient, DiffsInv
  <2> QED
    BY <1>0, <2>1, <2>4, <2>5, <2>6 DEF DiffsInv, PerClient, render
<1>2. CASE Leave(c)
  <2>1. /\ conn[c] = "open" /\ conn' = [conn EXCEPT ![c] = "left"]
        /\ screen' = [screen EXCEPT ![c] = Blank] /\ UNCHANGED <<writer, inbox>>
    BY <1>2 DEF Leave, transport
  <2>2. DiffsFit'
    BY <1>0, <2>1, QuietFit DEF DiffsInv, PerClient, Pending
  <2>3. PerClient(conn)' /\ PerClient(screen)'
    BY <1>0, <2>1 DEF PerClient
  <2> QED
    BY <1>0, <2>1, <2>2, <2>3 DEF DiffsInv, PerClient, render
<1>3. CASE ReadEnds(c)
  <2>1. /\ conn[c] = "left" /\ conn' = [conn EXCEPT ![c] = "ended"]
        /\ UNCHANGED <<screen, writer>>
        /\ inbox' = Append(inbox, [kind |-> "disconnected", client |-> c])
    BY <1>3 DEF ReadEnds, Post, transport
  <2>2. [kind |-> "disconnected", client |-> c] \in Event
    BY DEF Event
  <2>3. /\ inbox' \in Seq(Event)
        /\ \A d \in Clients : Pending("resize", d) => Pending("resize", d)'
    BY <1>0, <2>1, <2>2, PostKeeps
  <2>4. \A d \in Clients : conn[d] # "open" => conn'[d] # "open"
    BY <1>0, <2>1 DEF PerClient
  <2>5. DiffsFit'
    BY <1>0, <2>1, <2>3, <2>4, QuietFit DEF DiffsInv
  <2>6. PerClient(conn)'
    BY <1>0, <2>1 DEF PerClient
  <2> QED
    BY <1>0, <2>1, <2>3, <2>5, <2>6 DEF DiffsInv, PerClient, render
<1>4. ASSUME NEW kind \in Kinds, Send(c, kind) PROVE DiffsInv'
  <2>1. /\ conn' = conn /\ writer' = writer
        /\ inbox' = Append(inbox, [kind |-> kind, client |-> c])
        /\ \/ kind = "resize" /\ screen' = [screen EXCEPT ![c] = Blank]
           \/ screen' = screen
    BY <1>4 DEF Send, Post, transport
  <2>2. [kind |-> kind, client |-> c] \in Event
    BY DEF Event
  <2>3. /\ inbox' \in Seq(Event)
        /\ \A d \in Clients : Pending("resize", d) => Pending("resize", d)'
        /\ kind = "resize" => Pending("resize", c)'
    BY <1>0, <2>1, <2>2, PostKeeps
  <2>4. \A d \in Clients : screen'[d] = screen[d] \/ Pending("resize", d)'
    BY <1>0, <2>1, <2>3 DEF PerClient
  <2>5. DiffsFit'
    BY <1>0, <2>1, <2>3, <2>4, QuietFit DEF DiffsInv
  <2>6. PerClient(screen)'
    BY <1>0, <2>1 DEF PerClient
  <2> QED
    BY <1>0, <2>1, <2>3, <2>5, <2>6 DEF DiffsInv, PerClient, render
<1> QED
  BY <1>1, <1>2, <1>3, <1>4

\* The loop handles an event, between two renders.
LEMMA HandlerFits ==
    ASSUME DiffsInv, HandleEvent, pc' \notin {"full", "retained"}
    PROVE  DiffsInv'
<1>1. /\ inbox \in Seq(Event) /\ inbox # <<>> /\ inbox' = Tail(inbox)
      /\ UNCHANGED <<slot, held, writer, conn, screen, targets, broken>>
  BY DEF DiffsInv, HandleEvent, transport, client, render
<1>2. /\ DOMAIN now' = Parts
      /\ PerClient(baseline)'
      /\ clients' \subseteq Clients
      /\ \A d \in Clients : baseline'[d] = baseline[d] \/ baseline'[d] = Blank
      /\ \A d \in Clients : baseline'[d] # Blank => d \in clients'
      /\ \A d \in Clients : Head(inbox) = [kind |-> "resize", client |-> d]
                               => baseline'[d] = Blank
  BY HandlerBlanks
<1>3. /\ inbox' \in Seq(Event)
      /\ \A d \in Clients : Pending("resize", d) =>
             Pending("resize", d)' \/ Head(inbox) = [kind |-> "resize", client |-> d]
  BY <1>1, TailKeeps
<1>4. DiffsFit'
  BY <1>1, <1>2, <1>3, QuietFit DEF DiffsInv
<1> QED
  BY <1>1, <1>2, <1>3, <1>4 DEF DiffsInv, PerClient

\* A client is removed after a render.
LEMMA RemoveFits ==
    ASSUME DiffsInv, NEW c \in broken, RemoveClient(c), broken' = broken \ {c},
           UNCHANGED <<slot, held, writer, conn, screen, inbox, targets, pc>>,
           targets = <<>> \/ pc \notin {"full", "retained"}
    PROVE  DiffsInv'
<1>1. /\ DOMAIN now' = Parts
      /\ PerClient(baseline)'
      /\ clients' = clients \ {c}
      /\ baseline'[c] = Blank
      /\ \A d \in Clients : baseline'[d] = baseline[d] \/ baseline'[d] = Blank
  BY RemoveBlanks DEF DiffsInv
<1>2. DiffsFit'
  BY <1>1, QuietFit DEF DiffsInv, Pending
<1> QED
  BY <1>1, <1>2 DEF DiffsInv, PerClient

\* The frame of a full render, or of a retained update, is offered.
LEMMA OfferFits ==
    ASSUME DiffsInv, NEW c \in clients, NEW f, DOMAIN f = Parts,
           Current(c, f) \/ Sent(c, f) \/ SlotFull(c, f) \/ WriterGone(c, f),
           UNCHANGED <<held, writer, screen, conn, inbox, clients>>,
           DOMAIN now' = Parts,
           \/ targets' = targets /\ pc' \notin {"full", "retained"}
           \/ targets' = <<>>
           \/ pc = "full" /\ targets # <<>> /\ targets' = Tail(targets)
    PROVE  DiffsInv'
<1>1. c \in Clients
  BY DEF DiffsInv
<1>2. /\ DiffsFit'
      /\ PerClient(baseline)' /\ PerClient(slot)'
      /\ \A d \in Clients : baseline'[d] # Blank => d \in clients
  BY <1>1, SendFits
<1>3. broken' \subseteq Clients
  BY <1>1 DEF Current, Sent, SlotFull, WriterGone, DiffsInv
<1>4. /\ targets' \in Seq(Clients)
      /\ pc' \in {"full", "retained"} => \A i \in DOMAIN targets' : targets'[i] \in clients
  <2>1. targets \in Seq(Clients)
    BY DEF DiffsInv
  <2>2. CASE targets' = targets /\ pc' \notin {"full", "retained"}
    BY <2>1, <2>2
  <2>3. CASE targets' = <<>>
    BY <2>3
  <2>4. CASE pc = "full" /\ targets # <<>> /\ targets' = Tail(targets)
    <3>1. \A i \in DOMAIN targets' : i + 1 \in DOMAIN targets /\ targets'[i] = targets[i + 1]
      BY <2>1, <2>4
    <3>2. targets' \in Seq(Clients)
      BY <2>1, <2>4
    <3> QED
      BY <2>4, <3>1, <3>2 DEF DiffsInv
  <2> QED
    BY <2>2, <2>3, <2>4
<1> QED
  BY <1>2, <1>3, <1>4 DEF DiffsInv, PerClient

\* The steps of a render.
LEMMA RenderFits ==
    ASSUME DiffsInv,
           RenderTarget \/ RemoveBroken \/ RetainedSent \/ RetainedRefused \/ AfterRefusal
    PROVE  DiffsInv'
<1>0. /\ targets \in Seq(Clients) /\ clients \subseteq Clients /\ DOMAIN now = Parts
      /\ pc \in {"full", "retained"} => \A i \in DOMAIN targets : targets[i] \in clients
  BY DEF DiffsInv
<1>1. CASE RenderTarget
  <2> DEFINE c == Head(targets)
  <2>1. c \in clients
    <3>1. pc = "full" /\ targets # <<>>
      BY <1>1 DEF RenderTarget
    <3>2. 1 \in DOMAIN targets /\ c = targets[1]
      BY <1>0, <3>1
    <3> QED
      BY <1>0, <3>1, <3>2
  <2>2. DOMAIN now' = Parts
    BY <1>0, <1>1 DEF RenderTarget
  <2>3. Current(c, now') \/ Sent(c, now') \/ SlotFull(c, now') \/ WriterGone(c, now')
    BY <1>1 DEF RenderTarget
  <2>4. /\ UNCHANGED <<held, writer, screen, conn, inbox, clients>>
        /\ pc = "full" /\ targets # <<>> /\ targets' = Tail(targets)
    BY <1>1 DEF RenderTarget, loop, client
  <2> HIDE DEF c
  <2> QED
    BY <2>1, <2>2, <2>3, <2>4, OfferFits
<1>2. CASE RemoveBroken
  <2>1. PICK c \in broken : broken' = broken \ {c} /\ RemoveClient(c)
    BY <1>2 DEF RemoveBroken
  <2>2. /\ UNCHANGED <<slot, held, writer, conn, screen, inbox, targets, pc>>
        /\ targets = <<>>
    BY <1>2 DEF RemoveBroken, loop, transport, client
  <2> QED
    BY <2>1, <2>2, RemoveFits
<1>3. CASE RetainedSent
  <2>1. PICK c \in Writing : Current(c, Patched(c)) \/ Sent(c, Patched(c))
    BY <1>3 DEF RetainedSent
  <2>2. c \in clients /\ DOMAIN Patched(c) = Parts
    BY DEF Writing, Patched
  <2>3. /\ UNCHANGED <<now, held, writer, screen, conn, inbox, clients>>
        /\ targets' = <<>>
    BY <1>3 DEF RetainedSent, client
  <2> DEFINE f == Patched(c)
  <2>4. DOMAIN f = Parts /\ (Current(c, f) \/ Sent(c, f) \/ SlotFull(c, f) \/ WriterGone(c, f))
    BY <2>1, <2>2
  <2> HIDE DEF f
  <2> QED
    BY <1>0, <2>2, <2>3, <2>4, OfferFits
<1>4. CASE RetainedRefused
  <2>1. PICK c \in Writing : SlotFull(c, Patched(c)) \/ WriterGone(c, Patched(c))
    BY <1>4 DEF RetainedRefused
  <2>2. c \in clients /\ DOMAIN Patched(c) = Parts
    BY DEF Writing, Patched
  <2>3. /\ UNCHANGED <<now, held, writer, screen, conn, inbox, clients>>
        /\ targets' = targets /\ pc' \notin {"full", "retained"}
    BY <1>4 DEF RetainedRefused, client
  <2> DEFINE f == Patched(c)
  <2>4. DOMAIN f = Parts /\ (Current(c, f) \/ Sent(c, f) \/ SlotFull(c, f) \/ WriterGone(c, f))
    BY <2>1, <2>2
  <2> HIDE DEF f
  <2> QED
    BY <1>0, <2>2, <2>3, <2>4, OfferFits
<1>5. CASE AfterRefusal
  <2>1. CASE broken = {}
    <3>1. /\ targets' \in TargetOrder
          /\ UNCHANGED <<now, baseline, slot, held, screen, conn, writer, inbox, clients, broken>>
      BY <1>5, <2>1 DEF AfterRefusal, registry, transport, client
    <3>2. targets' \in Seq(Clients) /\ \A i \in DOMAIN targets' : targets'[i] \in clients
      BY <1>0, <3>1, TargetsRegistered
    <3> QED
      BY <3>1, <3>2, IdleFits
  <2>2. CASE broken # {}
    <3>1. PICK c \in broken : RemoveClient(c) /\ broken' = broken \ {c}
      BY <1>5, <2>2 DEF AfterRefusal
    <3>2. /\ UNCHANGED <<slot, held, writer, conn, screen, inbox, targets, pc>>
          /\ pc \notin {"full", "retained"}
      BY <1>5, <2>2 DEF AfterRefusal, transport, client
    <3> QED
      BY <3>1, <3>2, RemoveFits
  <2> QED
    BY <2>1, <2>2
<1> QED
  BY <1>1, <1>2, <1>3, <1>4, <1>5

---------------------------------------------------------------------------
(* The theorems.                                                           *)

\* DiffsInv is inductive, relative to Introduced.
THEOREM StepFits == DiffsInv /\ Introduced /\ [Next]_vars => DiffsInv'
<1> SUFFICES ASSUME DiffsInv, Introduced, [Next]_vars
             PROVE  DiffsInv'
  OBVIOUS
<1> DEFINE quiet == <<baseline, slot, held, screen, conn, writer, inbox, clients, broken>>
<1>1. ASSUME NEW p \in Panes, PtyWrite(p) \/ ReaderStep(p) PROVE DiffsInv'
  <2>1. UNCHANGED quiet /\ UNCHANGED <<targets, pc>> /\ DOMAIN now' = DOMAIN now
    BY <1>1 DEF PtyWrite, ReaderStep, RequestRender, NotifyLoop, loop, registry, render,
                transport, client
  <2> QED
    BY <2>1, IdleFits
<1>2. CASE Change \/ WakeByPermit \/ WakeByDeadline \/ CheckDirty \/ GoWait \/ Rendered
  <2>1. /\ UNCHANGED quiet /\ DOMAIN now' = DOMAIN now
        /\ \/ UNCHANGED <<targets, pc>>
           \/ targets' = targets /\ pc' \notin {"full", "retained"}
    BY <1>2 DEF Change, WakeByPermit, WakeByDeadline, CheckDirty, GoWait, Rendered,
                display, registry, render, transport, client
  <2> QED
    BY <2>1, IdleFits
<1>3. CASE StartRender
  <2>1. UNCHANGED quiet /\ now' = now /\ targets' \in TargetOrder
    BY <1>3 DEF StartRender, registry, transport, client
  <2>2. targets' \in Seq(Clients) /\ \A i \in DOMAIN targets' : targets'[i] \in clients
    BY <2>1, TargetsRegistered DEF DiffsInv
  <2> QED
    BY <2>1, <2>2, IdleFits
<1>4. CASE Drain
  <2>1. pc' \notin {"full", "retained"} /\ HandleEvent
    BY <1>4 DEF Drain
  <2> QED
    BY <2>1, HandlerFits
<1>5. CASE WakeByEvent
  <2>1. pc' \notin {"full", "retained"} /\ HandleEvent
    BY <1>5 DEF WakeByEvent
  <2> QED
    BY <2>1, HandlerFits
<1>6. CASE RetainedFallback
  <2>1. UNCHANGED quiet /\ UNCHANGED <<targets, now>> /\ pc = "retained"
    BY <1>6 DEF RetainedFallback, registry, render, transport, client
  <2> QED
    BY <2>1, IdleFits
<1>7. CASE RenderTarget \/ RemoveBroken \/ RetainedSent \/ RetainedRefused \/ AfterRefusal
  BY <1>7, RenderFits
<1>8. ASSUME NEW c \in Clients, WriterStep(c) PROVE DiffsInv'
  BY <1>8, WriterFits
<1>9. ASSUME NEW c \in Clients,
             Connect(c) \/ Leave(c) \/ ReadEnds(c) \/ \E kind \in Kinds : Send(c, kind)
      PROVE  DiffsInv'
  BY <1>9, ConnectionFits
<1>10. CASE UNCHANGED vars
  <2>1. UNCHANGED quiet /\ UNCHANGED <<targets, pc, now>>
    BY <1>10 DEF vars, display, loop, registry, render, transport, client
  <2> QED
    BY <2>1, IdleFits
<1> QED
  BY <1>1, <1>2, <1>3, <1>4, <1>5, <1>6, <1>7, <1>8, <1>9, <1>10 DEF Next, LoopStep

\* Every step of the program keeps the strengthened invariant.
THEOREM Inductive == Spec => []DiffsInv
BY InitFits, StepFits, NobodyUnintroduced, PTL DEF Spec

\* Once the frames on their way are written, a client shows the baseline the
\* server keeps for it, for any number of clients, panes and messages.
THEOREM ClientsShowBaselines == Spec => []DiffsFit
<1>1. DiffsInv => DiffsFit
  BY DEF DiffsInv
<1> QED
  BY <1>1, Inductive, PTL
=============================================================================
