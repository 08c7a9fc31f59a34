-------------------------- MODULE RenderLoopProofs --------------------------
(***************************************************************************)
(* What the event loop of RenderStream owes to its clients, for any number *)
(* of clients and panes: a client whose frame was skipped is served again  *)
(* (DeferralIsWoken), and the retained path never leaves a stale pane that *)
(* is clean (StaleIsDirty).                                                *)
(*                                                                         *)
(* Both rest on the order of the render targets: a full render serves      *)
(* every client that has a writer, the foreground client last.             *)
(***************************************************************************)
EXTENDS RenderStreamProofs

\* The render targets are all the clients that have a writer, the foreground
\* client last.
LEMMA OrderCovers ==
    ASSUME clients \subseteq Clients, NEW s \in TargetOrder
    PROVE  /\ \A c \in Writing : \E i \in DOMAIN s : s[i] = c
           /\ foreground \in Writing => s # <<>> /\ s[Len(s)] = foreground
<1> DEFINE n == Cardinality(Writing)
<1>1. IsFiniteSet(Writing) /\ n \in Nat
  BY FS_Subset, FS_CardinalityType, ConstantsAssumption DEF Writing
<1>2. /\ s \in [1..n -> Writing]
      /\ \A i, j \in DOMAIN s : i < j => s[i] # foreground /\ (s[j] = foreground \/ s[i] < s[j])
  BY DEF TargetOrder
<1>3. Writing \subseteq Nat
  BY ConstantsAssumption DEF Writing
<1> HIDE DEF n
<1>4. ASSUME NEW i \in 1..n, NEW j \in 1..n, i < j PROVE s[i] # s[j]
  <2>1. s[i] # foreground /\ (s[j] = foreground \/ s[i] < s[j])
    BY <1>2, <1>4
  <2>2. s[i] \in Nat /\ s[j] \in Nat
    BY <1>2, <1>3
  <2> QED
    BY <2>1, <2>2
<1>5. ASSUME NEW i \in 1..n, NEW j \in 1..n, s[i] = s[j] PROVE i = j
  <2>1. i \in Nat /\ j \in Nat
    OBVIOUS
  <2> QED
    BY <1>4, <1>5, <2>1
<1>6. s \in Injection(1..n, Writing)
  BY <1>2, <1>5 DEF Injection, IsInjective
<1>7. Cardinality(1..n) = n
  BY <1>1, FS_Interval
<1>8. s \in Surjection(1..n, Writing)
  BY <1>1, <1>6, <1>7, FS_Injection DEF n
<1>9. \A c \in Writing : \E i \in 1..n : s[i] = c
  BY <1>8 DEF Surjection
<1>10. ASSUME foreground \in Writing PROVE s # <<>> /\ s[Len(s)] = foreground
  <2>1. PICK i \in 1..n : s[i] = foreground
    BY <1>9, <1>10
  <2>2. n \in 1..n /\ Len(s) = n
    BY <1>1, <1>2, <2>1
  <2>3. i = n
    BY <1>1, <1>2, <2>1, <2>2
  <2> QED
    BY <2>1, <2>2, <2>3
<1> QED
  BY <1>2, <1>9, <1>10

\* What waits in the queue still waits when an event is added.
LEMMA PendingStays ==
    ASSUME inbox \in Seq(Event), NEW e, inbox' = Append(inbox, e), NEW kind, NEW c
    PROVE  /\ Pending(kind, c) => Pending(kind, c)'
           /\ e = [kind |-> kind, client |-> c] => Pending(kind, c)'
<1>1. /\ \A i \in DOMAIN inbox : i \in DOMAIN inbox' /\ inbox'[i] = inbox[i]
      /\ Len(inbox) + 1 \in DOMAIN inbox' /\ inbox'[Len(inbox) + 1] = e
  OBVIOUS
<1> QED
  BY <1>1 DEF Pending

\* What waits in the queue is handled, or still waits.
LEMMA PendingIsNext ==
    ASSUME inbox \in Seq(Event), inbox # <<>>, inbox' = Tail(inbox), NEW kind, NEW c,
           Pending(kind, c)
    PROVE  Pending(kind, c)' \/ Head(inbox) = [kind |-> kind, client |-> c]
<1>1. PICK i \in DOMAIN inbox : inbox[i] = [kind |-> kind, client |-> c]
  BY DEF Pending
<1>2. CASE i = 1
  BY <1>1, <1>2
<1>3. CASE i # 1
  <2>1. i - 1 \in DOMAIN inbox' /\ inbox'[i - 1] = inbox[i]
    BY <1>3
  <2> QED
    BY <1>1, <2>1 DEF Pending
<1> QED
  BY <1>2, <1>3

---------------------------------------------------------------------------
(* A skipped frame is rendered again.                                      *)

\* Something that frees the client's slot is known to the event loop or will be.
Woken(c) == slot[c] # Blank \/ writer[c] \in {"taken", "closed"} \/ Pending("drained", c)

\* A full render is due that has yet to serve the client.
Due(c) ==
    /\ needsFull /\ pc # "virtual"
    /\ pc = "full" => \E i \in DOMAIN targets : targets[i] = c

\* What makes DeferralIsWoken inductive: the flag needsFull, which is reset when
\* a render ends, does not count for those whom the render has served already.
DeferInv ==
    /\ PerClient(deferred)
    /\ pc = "retained" => ~needsFull
    /\ \A c \in Writing : deferred[c] => Woken(c) \/ Due(c)

\* Nobody waits when the server starts.
LEMMA InitDefers == Init => DeferInv
BY DEF Init, DeferInv, PerClient, Writing

\* The offer of a frame: only a client that will be woken is deferred.
LEMMA OfferDefers ==
    ASSUME PerClient(deferred), PerClient(slot), NEW c \in Clients, NEW f,
           Current(c, f) \/ Sent(c, f) \/ SlotFull(c, f) \/ WriterGone(c, f),
           UNCHANGED <<writer, inbox>>
    PROVE  /\ PerClient(deferred)'
           /\ deferred'[c] => Woken(c)'
           /\ \A d \in Clients : d # c => deferred'[d] = deferred[d] /\ (Woken(d) => Woken(d)')
<1>1. CASE Current(c, f)
  <2>1. deferred' = [deferred EXCEPT ![c] = FALSE] /\ slot' = slot
    BY <1>1 DEF Current
  <2>2. PerClient(deferred)' /\ ~deferred'[c] /\ \A d \in Clients : d # c => deferred'[d] = deferred[d]
    BY <2>1 DEF PerClient
  <2> QED
    BY <2>1, <2>2 DEF Woken, Pending
<1>2. CASE Sent(c, f)
  <2>1. deferred' = [deferred EXCEPT ![c] = FALSE]
        /\ slot' = [slot EXCEPT ![c] = Prepared(c, f)]
    BY <1>2 DEF Sent
  <2>2. PerClient(deferred)' /\ ~deferred'[c]
        /\ \A d \in Clients : d # c => deferred'[d] = deferred[d] /\ slot'[d] = slot[d]
    BY <2>1 DEF PerClient
  <2> QED
    BY <2>2 DEF Woken, Pending
<1>3. CASE SlotFull(c, f)
  <2>1. deferred' = [deferred EXCEPT ![c] = TRUE] /\ slot' = slot /\ slot[c] # Blank
    BY <1>3 DEF SlotFull
  <2>2. PerClient(deferred)' /\ \A d \in Clients : d # c => deferred'[d] = deferred[d]
    BY <2>1 DEF PerClient
  <2> QED
    BY <2>1, <2>2 DEF Woken, Pending
<1>4. CASE WriterGone(c, f)
  <2>1. UNCHANGED <<deferred, slot>> /\ writer[c] = "closed"
    BY <1>4 DEF WriterGone
  <2> QED
    BY <2>1 DEF Woken, Pending, PerClient
<1> QED
  BY <1>1, <1>2, <1>3, <1>4

\* A render of the client at the head of the targets, or of the only one.
LEMMA RenderDefers ==
    ASSUME DeferInv, DiffsInv, RenderTarget \/ RetainedSent \/ RetainedRefused
    PROVE  DeferInv'
<1>0. /\ PerClient(deferred) /\ PerClient(slot) /\ targets \in Seq(Clients)
      /\ clients \subseteq Clients
      /\ pc = "full" => \A i \in DOMAIN targets : targets[i] \in clients
  BY DEF DeferInv, DiffsInv
<1>1. CASE RenderTarget
  <2>0. Head(targets) \in Clients /\ Head(targets) = targets[1]
    <3>1. targets # <<>>
      BY <1>1 DEF RenderTarget
    <3> QED
      BY <1>0, <3>1
  <2> PICK c \in Clients : c = Head(targets)
    BY <2>0
  <2>1. /\ pc = "full" /\ targets # <<>> /\ targets' = Tail(targets)
        /\ Current(c, now') \/ Sent(c, now') \/ SlotFull(c, now') \/ WriterGone(c, now')
        /\ UNCHANGED <<writer, inbox, clients, detached, needsFull, pc>>
    BY <1>1 DEF RenderTarget, loop
  <2>2. c = targets[1]
    BY <2>0
  <2>3. \A i \in DOMAIN targets : i # 1 => i - 1 \in DOMAIN targets' /\ targets'[i - 1] = targets[i]
    BY <1>0, <2>1
  <2>4. /\ PerClient(deferred)'
        /\ deferred'[c] => Woken(c)'
        /\ \A d \in Clients : d # c => deferred'[d] = deferred[d] /\ (Woken(d) => Woken(d)')
    BY <1>0, <2>1, <2>2, OfferDefers
  <2>5. ASSUME NEW d \in Clients, d # c, Due(d) PROVE Due(d)'
    <3>1. PICK i \in DOMAIN targets : targets[i] = d
      BY <2>1, <2>5 DEF Due
    <3>2. i # 1
      BY <2>2, <2>5, <3>1
    <3>3. i - 1 \in DOMAIN targets' /\ targets'[i - 1] = d
      BY <2>3, <3>1, <3>2
    <3> QED
      BY <2>1, <2>5, <3>3 DEF Due
  <2>6. Writing' = Writing /\ Writing \subseteq Clients
    BY <1>0, <2>1 DEF Writing
  <2>7. ASSUME NEW d \in Writing', deferred'[d] PROVE Woken(d)' \/ Due(d)'
    <3>1. d \in Clients /\ d \in Writing
      BY <2>6
    <3>2. CASE d = c
      BY <2>4, <2>7, <3>2
    <3>3. CASE d # c
      <4>1. deferred[d]
        BY <2>4, <2>7, <3>1, <3>3
      <4>2. Woken(d) \/ Due(d)
        BY <3>1, <4>1 DEF DeferInv
      <4> QED
        BY <2>4, <2>5, <3>1, <3>3, <4>2
    <3> QED
      BY <3>2, <3>3
  <2> QED
    BY <2>1, <2>4, <2>7 DEF DeferInv
<1>2. CASE RetainedSent \/ RetainedRefused
  <2>1. /\ pc = "retained" /\ pc' \in {"top", "refused"}
        /\ UNCHANGED <<writer, inbox, clients, detached>>
    BY <1>2 DEF RetainedSent, RetainedRefused
  <2>2. PICK c \in Writing : \/ Current(c, Patched(c)) \/ Sent(c, Patched(c))
                             \/ SlotFull(c, Patched(c)) \/ WriterGone(c, Patched(c))
    BY <1>2 DEF RetainedSent, RetainedRefused
  <2>3. Writing' = Writing /\ Writing \subseteq Clients
    BY <1>0, <2>1 DEF Writing
  <2> DEFINE f == Patched(c)
  <2>4. Current(c, f) \/ Sent(c, f) \/ SlotFull(c, f) \/ WriterGone(c, f)
    BY <2>2
  <2> HIDE DEF f
  <2>5. /\ PerClient(deferred)'
        /\ deferred'[c] => Woken(c)'
        /\ \A d \in Clients : d # c => deferred'[d] = deferred[d] /\ (Woken(d) => Woken(d)')
    BY <1>0, <2>1, <2>3, <2>4, OfferDefers
  <2>6. \A d \in Writing : deferred[d] => Woken(d)
    BY <2>1 DEF DeferInv, Due
  <2>7. \A d \in Writing : deferred'[d] => Woken(d)'
    BY <2>3, <2>5, <2>6
  <2> QED
    BY <2>1, <2>3, <2>5, <2>7 DEF DeferInv
<1> QED
  BY <1>1, <1>2

\* A render begins, or ends, or a client whose writer is gone is removed.
LEMMA LoopDefers ==
    ASSUME DeferInv, DiffsInv,
           \/ StartRender \/ Rendered \/ RetainedFallback
           \/ RemoveBroken \/ AfterRefusal
    PROVE  DeferInv'
<1>0. PerClient(deferred) /\ clients \subseteq Clients /\ broken \subseteq Clients
  BY DEF DeferInv, DiffsInv
<1> DEFINE quiet == UNCHANGED <<slot, writer, inbox, deferred, clients, detached>>
<1>1. ASSUME quiet
      PROVE  /\ Writing' = Writing /\ PerClient(deferred)'
             /\ \A c : Woken(c)' = Woken(c)
  BY <1>0, <1>1 DEF Writing, PerClient, Woken, Pending
<1>2. ASSUME targets' \in TargetOrder, pc' \in {"retained", FullRender(targets')},
             pc' = "retained" => ~needsFull, needsFull' = needsFull,
             \A c \in Writing : deferred[c] => Woken(c) \/ needsFull, quiet
      PROVE  DeferInv'
  <2>1. \A c \in Writing : \E i \in DOMAIN targets' : targets'[i] = c
    BY <1>0, <1>2, OrderCovers
  <2>2. ASSUME NEW c \in Writing, deferred[c] PROVE Woken(c)' \/ Due(c)'
    <3>1. CASE Woken(c)
      BY <1>1, <1>2, <3>1
    <3>2. CASE needsFull
      <4>1. pc' = FullRender(targets') /\ targets' # <<>>
        BY <1>2, <2>1, <2>2, <3>2
      <4>2. pc' = "full"
        BY <4>1 DEF FullRender
      <4> QED
        BY <1>2, <2>1, <2>2, <3>2, <4>2 DEF Due
    <3> QED
      BY <1>2, <2>2, <3>1, <3>2
  <2>3. \A c \in Writing' : deferred'[c] => Woken(c)' \/ Due(c)'
    BY <1>1, <1>2, <2>2
  <2> QED
    BY <1>1, <1>2, <2>3 DEF DeferInv
<1>3. CASE StartRender
  <2>1. /\ quiet /\ needsFull' = needsFull /\ targets' \in TargetOrder
        /\ pc' = IF renderDirty /\ ~needsFull THEN "retained" ELSE FullRender(targets')
    BY <1>3 DEF StartRender, registry, transport
  <2>2. \A c \in Writing : deferred[c] => Woken(c) \/ needsFull
    BY DEF DeferInv, Due
  <2>3. pc' \in {"retained", FullRender(targets')} /\ (pc' = "retained" => ~needsFull)
    BY <2>1 DEF FullRender
  <2> HIDE DEF quiet
  <2> QED
    BY <1>2, <2>1, <2>2, <2>3
<1>4. CASE Rendered
  <2>1. /\ quiet /\ pc' = "top" /\ pc \in {"full", "virtual"} /\ targets = <<>>
    BY <1>4 DEF Rendered, registry, transport
  <2>2. \A c \in Writing : deferred[c] => Woken(c)
    BY <2>1 DEF DeferInv, Due
  <2>3. Writing' = Writing /\ PerClient(deferred)' /\ \A c : Woken(c)' = Woken(c)
    BY <1>1, <2>1
  <2> QED
    BY <2>1, <2>2, <2>3 DEF DeferInv
<1>5. CASE RetainedFallback
  <2>1. /\ quiet /\ pc = "retained" /\ pc' = FullRender(targets)
    BY <1>5 DEF RetainedFallback, registry, transport
  <2>2. \A c \in Writing : deferred[c] => Woken(c)
    BY <2>1 DEF DeferInv, Due
  <2>3. Writing' = Writing /\ PerClient(deferred)' /\ \A c : Woken(c)' = Woken(c)
    BY <1>1, <2>1
  <2> QED
    BY <2>1, <2>2, <2>3 DEF DeferInv, FullRender
<1>6. ASSUME NEW c \in broken, RemoveClient(c), UNCHANGED <<slot, writer, inbox, targets>>,
             UNCHANGED <<pc, needsFull>>
      PROVE  DeferInv'
  <2>1. /\ clients' = clients \ {c} /\ detached' = detached \ {c}
        /\ deferred' = [deferred EXCEPT ![c] = FALSE]
    BY <1>6 DEF RemoveClient
  <2>2. Writing' = Writing \ {c} /\ PerClient(deferred)'
        /\ \A d \in Writing' : deferred'[d] = deferred[d]
    BY <1>0, <2>1 DEF Writing, PerClient
  <2>3. \A d : Woken(d)' = Woken(d) /\ Due(d)' = Due(d)
    BY <1>6 DEF Woken, Due, Pending
  <2> QED
    BY <1>6, <2>2, <2>3 DEF DeferInv
<1>7. CASE RemoveBroken
  <2>1. PICK c \in broken : RemoveClient(c)
    BY <1>7 DEF RemoveBroken
  <2> QED
    BY <1>6, <1>7, <2>1 DEF RemoveBroken, loop, transport
<1>8. CASE AfterRefusal
  <2>1. needsFull' = needsFull /\ UNCHANGED <<slot, writer, inbox>> /\ pc = "refused"
    BY <1>8 DEF AfterRefusal, transport
  <2>2. CASE broken = {}
    <3>1. quiet /\ targets' \in TargetOrder /\ pc' = FullRender(targets')
      BY <1>8, <2>1, <2>2 DEF AfterRefusal, registry
    <3>2. \A c \in Writing : deferred[c] => Woken(c) \/ needsFull
      BY DEF DeferInv, Due
    <3>3. pc' # "retained"
      BY <3>1 DEF FullRender
    <3> HIDE DEF quiet
    <3> QED
      BY <1>2, <2>1, <3>1, <3>2, <3>3
  <2>3. CASE broken # {}
    <3>1. PICK c \in broken : RemoveClient(c)
      BY <1>8, <2>3 DEF AfterRefusal
    <3>2. UNCHANGED <<pc, targets>>
      BY <1>8, <2>3 DEF AfterRefusal
    <3> QED
      BY <1>6, <2>1, <3>1, <3>2
  <2> QED
    BY <2>2, <2>3
<1> QED
  BY <1>3, <1>4, <1>5, <1>7, <1>8

\* What the handling of an event does where it asks for no full render.
LEMMA HandlerAsks ==
    ASSUME inbox \in Seq(Event), PerClient(deferred), HandleEvent
    PROVE  \E c \in Clients :
               /\ c = Head(inbox).client
               /\ \/ needsFull' = TRUE
                  \/ /\ Head(inbox).kind # "drained" /\ deferred' = deferred
                     /\ needsFull' = needsFull /\ clients' = clients
                     /\ detached' = detached \/ detached' = detached \cup {c}
                  \/ /\ deferred' = [deferred EXCEPT ![c] = FALSE]
                     /\ UNCHANGED <<needsFull, clients, detached>>
               /\ PerClient(deferred)'
<1>1. Head(inbox) \in Event
  <2>1. inbox # <<>>
    BY DEF HandleEvent
  <2> QED
    BY <2>1
<1>2. PICK c \in Clients : c = Head(inbox).client
  BY <1>1 DEF Event
<1>3. \/ Head(inbox).kind = "connected" /\ HandleConnected(c)
      \/ Head(inbox).kind = "key" /\ HandleKey(c)
      \/ Head(inbox).kind = "reply" /\ HandleReply(c)
      \/ Head(inbox).kind = "focus" /\ HandleFocus(c)
      \/ Head(inbox).kind = "detach" /\ HandleDetach(c)
      \/ Head(inbox).kind = "resize" /\ HandleResize(c)
      \/ Head(inbox).kind = "disconnected" /\ HandleDisconnected(c)
      \/ Head(inbox).kind = "drained" /\ HandleDrained(c)
  BY <1>2 DEF HandleEvent
<1>4. CASE \/ HandleConnected(c) \/ HandleKey(c) \/ HandleResize(c) \/ HandleFocus(c)
           \/ HandleDisconnected(c)
  <2>1. /\ needsFull' = TRUE
        /\ \/ deferred' = deferred
           \/ \E b : deferred' = [deferred EXCEPT ![c] = b]
    BY <1>4 DEF HandleConnected, HandleKey, HandleResize, HandleFocus, HandleDisconnected,
                RemoveClient, AskFullRender
  <2> QED
    BY <1>2, <2>1 DEF PerClient
<1>5. CASE Head(inbox).kind = "reply" /\ HandleReply(c)
  BY <1>2, <1>5 DEF HandleReply, PerClient
<1>6. CASE Head(inbox).kind = "detach" /\ HandleDetach(c)
  <2>1. /\ UNCHANGED <<deferred, needsFull, clients>>
        /\ detached' = detached \/ detached' = detached \cup {c}
    BY <1>6 DEF HandleDetach
  <2> QED
    BY <1>2, <1>6, <2>1 DEF PerClient
<1>7. CASE HandleDrained(c)
  <2>1. /\ deferred' = [deferred EXCEPT ![c] = FALSE]
        /\ needsFull' = TRUE \/ UNCHANGED <<needsFull, clients, detached>>
    BY <1>7 DEF HandleDrained, AskFullRender
  <2> QED
    BY <1>2, <2>1 DEF PerClient
<1> QED
  BY <1>3, <1>4, <1>5, <1>6, <1>7

\* The handler of the drained message takes nobody's only wakeup but in exchange
\* for a full render, or for a client that is deferred no more.
LEMMA HandlerDefers ==
    ASSUME DeferInv, DiffsInv, HandleEvent, pc \in {"drain", "wait"}, pc' \in {"drain", "top"}
    PROVE  DeferInv'
<1>1. /\ inbox \in Seq(Event) /\ inbox # <<>> /\ inbox' = Tail(inbox)
      /\ UNCHANGED <<slot, writer>> /\ PerClient(deferred)
  BY DEF DiffsInv, DeferInv, HandleEvent, transport
<1>2. PICK c \in Clients :
          /\ c = Head(inbox).client
          /\ \/ needsFull' = TRUE
             \/ /\ Head(inbox).kind # "drained" /\ deferred' = deferred
                /\ needsFull' = needsFull /\ clients' = clients
                /\ detached' = detached \/ detached' = detached \cup {c}
             \/ /\ deferred' = [deferred EXCEPT ![c] = FALSE]
                /\ UNCHANGED <<needsFull, clients, detached>>
          /\ PerClient(deferred)'
  BY <1>1, HandlerAsks
<1>3. PerClient(deferred)'
  BY <1>2
<1>4. needsFull' => \A d \in Writing' : Due(d)'
  BY DEF Due
<1>5. ASSUME ~needsFull', NEW d \in Writing', deferred'[d] PROVE Woken(d)' \/ Due(d)'
  <2>1. d \in Writing /\ deferred[d] /\ needsFull' = needsFull
        /\ Head(inbox) # [kind |-> "drained", client |-> d]
    <3>1. clients \subseteq Clients
      BY DEF DiffsInv
    <3>2. CASE /\ Head(inbox).kind # "drained" /\ deferred' = deferred
               /\ needsFull' = needsFull /\ clients' = clients
               /\ detached' = detached \/ detached' = detached \cup {c}
      BY <1>5, <3>2 DEF Writing
    <3>3. CASE /\ deferred' = [deferred EXCEPT ![c] = FALSE]
               /\ UNCHANGED <<needsFull, clients, detached>>
      <4>1. d \in Writing /\ d \in Clients
        BY <3>1, <3>3 DEF Writing
      <4>2. d # c /\ deferred[d]
        BY <1>1, <1>5, <3>3, <4>1 DEF PerClient
      <4> QED
        BY <1>2, <3>3, <4>1, <4>2
    <3> QED
      BY <1>2, <1>5, <3>2, <3>3
  <2>2. Woken(d)
    BY <1>5, <2>1 DEF DeferInv, Due
  <2>3. Pending("drained", d) => Pending("drained", d)'
    BY <1>1, <2>1, PendingIsNext
  <2> QED
    BY <1>1, <2>2, <2>3 DEF Woken
<1> QED
  BY <1>3, <1>4, <1>5 DEF DeferInv

\* A writer thread that takes the frame announces it before it writes.
LEMMA WriterDefers ==
    ASSUME DeferInv, DiffsInv, NEW c \in Clients, WriterStep(c)
    PROVE  DeferInv'
<1>0. PerClient(deferred) /\ PerClient(writer) /\ PerClient(slot) /\ inbox \in Seq(Event)
  BY DEF DiffsInv, DeferInv
<1>1. UNCHANGED <<deferred, clients, detached, needsFull, pc, targets>>
  BY DEF WriterStep, TakeFrame, AnnounceDrained, WriteFrame, WriterExits, registry, loop, render
<1>2. Writing' = Writing /\ PerClient(deferred)' /\ \A d : Due(d)' = Due(d)
  BY <1>0, <1>1 DEF Writing, PerClient, Due
<1>3. ASSUME NEW d \in Clients, Woken(d) PROVE Woken(d)'
  <2>1. CASE TakeFrame(c)
    <3>1. /\ slot' = [slot EXCEPT ![c] = Blank] /\ inbox' = inbox
          /\ writer' = [writer EXCEPT ![c] = "taken"] /\ writer[c] = "waiting"
      BY <2>1 DEF TakeFrame
    <3>2. writer'[c] = "taken"
          /\ (d # c => slot'[d] = slot[d] /\ writer'[d] = writer[d])
      BY <1>0, <3>1 DEF PerClient
    <3> QED
      BY <1>3, <3>1, <3>2 DEF Woken, Pending
  <2>2. CASE AnnounceDrained(c)
    <3>1. /\ slot' = slot /\ inbox' = Append(inbox, [kind |-> "drained", client |-> c])
          /\ writer' = [writer EXCEPT ![c] = "writing"]
      BY <2>2 DEF AnnounceDrained, Post
    <3>2. /\ Pending("drained", d) => Pending("drained", d)'
          /\ d = c => Pending("drained", d)'
      BY <1>0, <3>1, PendingStays
    <3>3. d # c => writer'[d] = writer[d]
      BY <1>0, <3>1 DEF PerClient
    <3> QED
      BY <1>3, <3>1, <3>2, <3>3 DEF Woken
  <2>3. CASE WriteFrame(c)
    <3>1. /\ inbox' = inbox /\ writer[c] = "writing"
          /\ \/ slot' = slot /\ writer' = [writer EXCEPT ![c] = "waiting"]
             \/ /\ slot' = [slot EXCEPT ![c] = Blank]
                /\ writer' = [writer EXCEPT ![c] = "closed"]
      BY <2>3 DEF WriteFrame
    <3>2. /\ slot'[c] = slot[c] \/ writer'[c] = "closed"
          /\ (d # c => slot'[d] = slot[d] /\ writer'[d] = writer[d])
      BY <1>0, <3>1 DEF PerClient
    <3> QED
      BY <1>3, <3>1, <3>2 DEF Woken, Pending
  <2>4. CASE WriterExits(c)
    <3>1. UNCHANGED <<slot, inbox>> /\ writer' = [writer EXCEPT ![c] = "closed"]
      BY <2>4 DEF WriterExits
    <3>2. writer'[c] = "closed" /\ (d # c => writer'[d] = writer[d])
      BY <1>0, <3>1 DEF PerClient
    <3> QED
      BY <1>3, <3>1, <3>2 DEF Woken, Pending
  <2> QED
    BY <2>1, <2>2, <2>3, <2>4 DEF WriterStep
<1>4. Writing \subseteq Clients
  BY DEF Writing, DiffsInv
<1>5. \A d \in Writing : deferred[d] => Woken(d)' \/ Due(d)'
  BY <1>2, <1>3, <1>4 DEF DeferInv
<1> QED
  BY <1>1, <1>2, <1>5 DEF DeferInv

\* A connection only adds events; one that begins is of a client not registered.
LEMMA ConnectionDefers ==
    ASSUME DeferInv, DiffsInv, Introduced, NEW c \in Clients,
           Connect(c) \/ Leave(c) \/ ReadEnds(c) \/ \E kind \in Kinds : Send(c, kind)
    PROVE  DeferInv'
<1>0. PerClient(deferred) /\ PerClient(writer) /\ inbox \in Seq(Event) /\ clients \subseteq Clients
  BY DEF DiffsInv, DeferInv
<1>1. /\ UNCHANGED <<slot, deferred, clients, detached, needsFull, pc, targets>>
      /\ inbox' = inbox \/ \E e : inbox' = Append(inbox, e)
      /\ writer' = writer \/ (writer' = [writer EXCEPT ![c] = "waiting"] /\ conn[c] = "new")
  BY DEF Connect, Leave, ReadEnds, Send, Post, registry, loop, render, transport
<1>2. Writing' = Writing /\ PerClient(deferred)' /\ \A d : Due(d)' = Due(d)
  BY <1>0, <1>1 DEF Writing, PerClient, Due
<1>3. \A d \in Writing : writer'[d] = writer[d]
  <2>1. conn[c] = "new" => c \notin Writing
    BY DEF Introduced, Writing
  <2> QED
    BY <1>0, <1>1, <2>1 DEF PerClient, Writing
<1>4. ASSUME NEW d PROVE Pending("drained", d) => Pending("drained", d)'
  <2>1. CASE inbox' = inbox
    BY <2>1 DEF Pending
  <2>2. CASE inbox' # inbox
    <3>1. PICK e : inbox' = Append(inbox, e)
      BY <1>1, <2>2
    <3> QED
      BY <1>0, <3>1, PendingStays
  <2> QED
    BY <2>1, <2>2
<1>5. \A d \in Writing : Woken(d) => Woken(d)'
  BY <1>1, <1>3, <1>4 DEF Woken
<1>6. \A d \in Writing : deferred[d] => Woken(d)' \/ Due(d)'
  BY <1>2, <1>5 DEF DeferInv
<1> QED
  BY <1>1, <1>2, <1>6 DEF DeferInv

\* A step of the readers or of the loop that renders nothing and moves no frame.
LEMMA IdleDefers ==
    ASSUME DeferInv, UNCHANGED <<slot, writer, inbox, deferred, clients, detached>>,
           needsFull => needsFull',
           \/ UNCHANGED <<pc, targets, needsFull>>
           \/ pc' \in {"top", "drain", "wait"}
    PROVE  DeferInv'
<1>1. Writing' = Writing /\ PerClient(deferred)' /\ \A c : Woken(c)' = Woken(c)
  BY DEF DeferInv, Writing, PerClient, Woken, Pending
<1>2. \A c : Due(c) => Due(c)'
  BY DEF Due
<1>3. \A c \in Writing : deferred[c] => Woken(c)' \/ Due(c)'
  BY <1>1, <1>2 DEF DeferInv
<1> QED
  BY <1>1, <1>3 DEF DeferInv

\* DeferInv is inductive, relative to the invariants of RenderStreamProofs.
THEOREM StepDefers == DeferInv /\ DiffsInv /\ Introduced /\ [Next]_vars => DeferInv'
<1> SUFFICES ASSUME DeferInv, DiffsInv, Introduced, [Next]_vars
             PROVE  DeferInv'
  OBVIOUS
<1> DEFINE quiet == UNCHANGED <<slot, writer, inbox, deferred, clients, detached>>
<1>1. ASSUME NEW p \in Panes, PtyWrite(p) \/ ReaderStep(p) PROVE DeferInv'
  <2>1. quiet /\ UNCHANGED <<pc, targets, needsFull>>
    BY <1>1 DEF PtyWrite, ReaderStep, RequestRender, NotifyLoop, loop, registry, render, transport
  <2> QED
    BY <2>1, IdleDefers
<1>2. CASE Change \/ WakeByPermit \/ WakeByDeadline \/ CheckDirty \/ GoWait
  <2>1. quiet /\ pc' \in {"top", "drain", "wait"} /\ (needsFull => needsFull')
    BY <1>2 DEF Change, WakeByPermit, WakeByDeadline, CheckDirty, GoWait, AskFullRender,
                registry, transport
  <2> QED
    BY <2>1, IdleDefers
<1>3. CASE Drain \/ WakeByEvent
  <2>1. HandleEvent /\ pc \in {"drain", "wait"} /\ pc' \in {"drain", "top"}
    BY <1>3 DEF Drain, WakeByEvent
  <2> QED
    BY <2>1, HandlerDefers
<1>4. CASE StartRender \/ Rendered \/ RetainedFallback \/ RemoveBroken \/ AfterRefusal
  BY <1>4, LoopDefers
<1>5. CASE RenderTarget \/ RetainedSent \/ RetainedRefused
  BY <1>5, RenderDefers
<1>6. ASSUME NEW c \in Clients, WriterStep(c) PROVE DeferInv'
  BY <1>6, WriterDefers
<1>7. ASSUME NEW c \in Clients,
             Connect(c) \/ Leave(c) \/ ReadEnds(c) \/ \E kind \in Kinds : Send(c, kind)
      PROVE  DeferInv'
  BY <1>7, ConnectionDefers
<1>8. CASE UNCHANGED vars
  <2>1. quiet /\ UNCHANGED <<pc, targets, needsFull>>
    BY <1>8 DEF vars, loop, registry, render, transport
  <2> QED
    BY <2>1, IdleDefers
<1> QED
  BY <1>1, <1>2, <1>3, <1>4, <1>5, <1>6, <1>7, <1>8 DEF Next, LoopStep

\* Every step of the program keeps it.
THEOREM DefersInductive == Spec => []DeferInv
BY InitDefers, StepDefers, Inductive, NobodyUnintroduced, PTL DEF Spec

\* A client whose frame was skipped because its slot was full is served again:
\* whatever the clients do and however many they are, what frees the slot is
\* known to the event loop, or will be, or a full render is due.
THEOREM SkippedAreServed == Spec => []DeferralIsWoken
<1>1. DeferInv => DeferralIsWoken
  BY DEF DeferInv, DeferralIsWoken, Woken, Due
<1> QED
  BY <1>1, DefersInductive, PTL

---------------------------------------------------------------------------
(* A stale pane is dirty.                                                  *)

\* The foreground client is the last of the render targets.
LastIsForeground == targets # <<>> /\ targets[Len(targets)] = foreground

\* ... from the start of a render until it is served.
ForegroundLast ==
    foreground \in Writing =>
        /\ pc \in {"retained", "virtual"} => LastIsForeground
        /\ pc = "full" /\ targets # <<>> => LastIsForeground

\* Its last frame is one that the retained path would patch.
Patchable(c) == ~deferred[c] /\ baseline[c] # Blank /\ writer[c] # "closed"

DirtyWhereStale(c) ==
    \A x \in Parts : baseline[c][x] # now[x] => x \in Panes /\ dirty[x] # "no"

\* Its turn in a full render that is due has not come yet, or that render ended.
Awaits == IF pc = "full" THEN targets # <<>> ELSE pc = "refused" \/ needsFull

\* What makes StaleIsDirty inductive.  It is about the foreground client, and so
\* about a client that is alone: a full render takes the panes' dirty rows for
\* everyone at once and serves the foreground client last, and a change of the
\* foreground leaves no baseline.
StaleInv ==
    /\ dirty \in [Panes -> {"no", "rows", "all"}]
    /\ clients # {} => foreground \in clients
    /\ ForegroundLast
    /\ foreground \in Writing /\ Patchable(foreground) /\ ~Awaits
           => DirtyWhereStale(foreground)

LEMMA InitStale == Init => StaleInv
BY DEF Init, StaleInv, ForegroundLast, Writing

LEMMA FreshNow ==
    ASSUME StaleInv, NEW f, f = foreground, f \in Writing, Patchable(f), ~Awaits
    PROVE  DirtyWhereStale(f)
BY DEF StaleInv

LEMMA FreshNext ==
    ASSUME dirty' \in [Panes -> {"no", "rows", "all"}],
           clients' # {} => foreground' \in clients',
           clients' \subseteq Clients,
           ForegroundLast',
           ASSUME NEW f \in Clients, f = foreground', f \in Writing', Patchable(f)', ~Awaits'
           PROVE  DirtyWhereStale(f)'
    PROVE  StaleInv'
<1>1. ASSUME foreground' \in Writing', Patchable(foreground)', ~Awaits'
      PROVE  DirtyWhereStale(foreground)'
  <2>1. PICK f \in Clients : f = foreground'
    BY <1>1 DEF Writing
  <2>2. f \in Writing' /\ Patchable(f)'
    BY <1>1, <2>1 DEF Patchable
  <2>3. DirtyWhereStale(f)'
    BY <1>1, <2>1, <2>2
  <2> QED
    BY <2>1, <2>3 DEF DirtyWhereStale
<1> QED
  BY <1>1 DEF StaleInv

\* A step that touches neither the display nor the foreground client.
LEMMA IdleStale ==
    ASSUME StaleInv, DiffsInv,
           UNCHANGED <<now, dirty, foreground, clients, detached, deferred, baseline>>,
           \A c \in Writing : writer[c] = "closed" => writer'[c] = "closed",
           Awaits => Awaits',
           \/ UNCHANGED <<pc, targets>>
           \/ pc' \notin {"full", "retained", "virtual"}
    PROVE  StaleInv'
<1>1. ForegroundLast'
  BY DEF StaleInv, ForegroundLast, LastIsForeground, Writing
<1>2. ASSUME NEW f \in Clients, f = foreground', f \in Writing', Patchable(f)', ~Awaits'
      PROVE  DirtyWhereStale(f)'
  <2>1. f = foreground /\ f \in Writing /\ Patchable(f) /\ ~Awaits
    BY <1>2 DEF Patchable, Writing
  <2>2. DirtyWhereStale(f)
    BY <2>1, FreshNow
  <2> QED
    BY <2>2 DEF DirtyWhereStale
<1>3. clients' \subseteq Clients /\ dirty' \in [Panes -> {"no", "rows", "all"}]
      /\ (clients' # {} => foreground' \in clients')
  BY DEF StaleInv, DiffsInv
<1> QED
  BY <1>1, <1>2, <1>3, FreshNext

\* Output makes the pane dirty.
LEMMA WriteStale ==
    ASSUME StaleInv, DiffsInv, NEW p \in Panes, PtyWrite(p)
    PROVE  StaleInv'
<1>1. /\ now' = [now EXCEPT ![p] = @ + 1]
      /\ UNCHANGED <<foreground, clients, detached, deferred, baseline, writer, pc, targets, needsFull>>
  BY DEF PtyWrite, loop, registry, render, transport
<1>2. /\ dirty' \in [Panes -> {"no", "rows", "all"}]
      /\ dirty'[p] # "no" /\ \A q \in Panes : q # p => dirty'[q] = dirty[q]
  <2>1. dirty \in [Panes -> {"no", "rows", "all"}]
    BY DEF StaleInv
  <2>2. PICK d \in {"rows", "all"} :
            dirty' = [dirty EXCEPT ![p] = IF @ = "all" THEN @ ELSE d]
    BY DEF PtyWrite
  <2> QED
    BY <2>1, <2>2
<1>3. \A x \in Parts : x # p => now'[x] = now[x]
  BY <1>1 DEF DiffsInv
<1>4. ForegroundLast'
  BY <1>1 DEF StaleInv, ForegroundLast, LastIsForeground, Writing
<1>5. ASSUME NEW f \in Clients, f = foreground', f \in Writing', Patchable(f)', ~Awaits'
      PROVE  DirtyWhereStale(f)'
  <2>1. f = foreground /\ f \in Writing /\ Patchable(f) /\ ~Awaits
    BY <1>1, <1>5 DEF Patchable, Writing, Awaits
  <2>2. DirtyWhereStale(f)
    BY <2>1, FreshNow
  <2> QED
    BY <1>1, <1>2, <1>3, <2>2 DEF DirtyWhereStale
<1>6. clients' \subseteq Clients /\ (clients' # {} => foreground' \in clients')
  BY <1>1 DEF StaleInv, DiffsInv
<1> QED
  BY <1>2, <1>4, <1>5, <1>6, FreshNext

\* The shape of a shared size: who gets it, no baseline survives.
LEMMA ResizeStale ==
    ASSUME dirty \in [Panes -> {"no", "rows", "all"}], NEW fg, NEW remaining, NEW base,
           ResizeShared(fg, remaining, base)
    PROVE  /\ dirty' \in [Panes -> {"no", "rows", "all"}]
           /\ \/ fg \in remaining /\ \A c \in Clients : baseline'[c] = Blank
              \/ fg \notin remaining /\ baseline' = base /\ UNCHANGED <<now, dirty>>
BY DEF ResizeShared, GiveShape

\* When a client is removed, the foreground client stays or no baseline survives.
LEMMA RemoveStale ==
    ASSUME StaleInv, DiffsInv, DeferInv, NEW c \in Clients, RemoveClient(c),
           UNCHANGED <<writer, needsFull, pc, targets>>,
           pc = "full" => targets = <<>>, pc \notin {"retained", "virtual"}
    PROVE  StaleInv'
<1>1. /\ dirty \in [Panes -> {"no", "rows", "all"}]
      /\ PerClient(baseline) /\ PerClient(deferred)
      /\ clients # {} => foreground \in clients
      /\ clients \subseteq Clients
  BY DEF StaleInv, DiffsInv, DeferInv
<1>2. /\ clients' = clients \ {c} /\ detached' = detached \ {c}
      /\ deferred' = [deferred EXCEPT ![c] = FALSE]
  BY DEF RemoveClient
<1>3. CASE c \in clients /\ foreground = c
  <2>1. /\ foreground' \in (IF clients' = {} THEN {NoClient} ELSE clients')
        /\ ResizeShared(foreground', clients', [baseline EXCEPT ![c] = Blank])
    BY <1>3 DEF RemoveClient
  <2>2. /\ dirty' \in [Panes -> {"no", "rows", "all"}]
        /\ clients' # {} => foreground' \in clients'
        /\ foreground' \in clients' => \A d \in Clients : baseline'[d] = Blank
    BY <1>1, <2>1, ResizeStale
  <2>3. ASSUME NEW f \in Clients, f = foreground', f \in Writing', Patchable(f)', ~Awaits'
        PROVE  DirtyWhereStale(f)'
    BY <2>2, <2>3 DEF Writing, Patchable
  <2> QED
    BY <1>1, <1>2, <2>2, <2>3, FreshNext DEF ForegroundLast
<1>4. CASE ~(c \in clients /\ foreground = c)
  <2>1. /\ baseline' = [baseline EXCEPT ![c] = Blank]
        /\ UNCHANGED <<foreground, now, dirty>>
    BY <1>4 DEF RemoveClient
  <2>2. clients' # {} => foreground' \in clients'
    BY <1>1, <1>2, <1>4, <2>1
  <2>3. ASSUME NEW f \in Clients, f = foreground', f \in Writing', Patchable(f)', ~Awaits'
        PROVE  DirtyWhereStale(f)'
    <3>1. f \in Writing /\ f # c
      BY <1>2, <2>3 DEF Writing
    <3>2. baseline'[f] = baseline[f] /\ (deferred[f] => deferred'[f])
      BY <1>1, <1>2, <2>1, <3>1 DEF PerClient
    <3>3. DirtyWhereStale(f)
      BY <2>1, <2>3, <3>1, <3>2, FreshNow DEF Patchable, Awaits
    <3> QED
      BY <2>1, <3>2, <3>3 DEF DirtyWhereStale
  <2> QED
    BY <1>1, <1>2, <2>1, <2>2, <2>3, FreshNext DEF ForegroundLast
<1> QED
  BY <1>3, <1>4

\* The handling of an event: the foreground client changes only with a resize.
LEMMA HandlerStale ==
    ASSUME StaleInv, DiffsInv, DeferInv, HandleEvent, clients' \subseteq Clients,
           pc \in {"drain", "wait"}, pc' \in {"drain", "top"}
    PROVE  StaleInv'
<1>1. /\ dirty \in [Panes -> {"no", "rows", "all"}] /\ PerClient(baseline)
      /\ clients # {} => foreground \in clients
      /\ PerClient(deferred) /\ writer' = writer
      /\ clients \subseteq Clients
  BY DEF StaleInv, DiffsInv, DeferInv, HandleEvent, transport
<1>2. ForegroundLast'
  BY DEF ForegroundLast
<1>3. PICK c \in Clients : c = Head(inbox).client
  <2>1. inbox \in Seq(Event) /\ inbox # <<>>
    BY DEF DiffsInv, HandleEvent
  <2>2. Head(inbox) \in Event
    BY <2>1
  <2> QED
    BY <2>2 DEF Event
<1>4. ASSUME NEW always \in BOOLEAN, NEW base, Promote(c, always, base), clients' = clients
      PROVE  /\ dirty' \in [Panes -> {"no", "rows", "all"}]
             /\ clients' # {} => foreground' \in clients'
             /\ foreground' = IF c \in clients THEN c ELSE foreground
             /\ \/ \A d \in Clients : baseline'[d] = Blank
                \/ /\ baseline' = base /\ UNCHANGED <<now, dirty>>
                   /\ foreground' = foreground \/ clients = {}
  <2>1. CASE ResizeShared(IF c \in clients THEN c ELSE foreground, clients, base)
    BY <1>1, <1>4, <2>1, ResizeStale DEF Promote
  <2>2. CASE /\ (IF c \in clients THEN c ELSE foreground) = foreground
             /\ baseline' = base /\ UNCHANGED <<now, dirty>>
    BY <1>1, <1>4, <2>2 DEF Promote
  <2> QED
    BY <1>4, <2>1, <2>2 DEF Promote
<1>5. ASSUME dirty' \in [Panes -> {"no", "rows", "all"}],
             clients' # {} => foreground' \in clients',
             needsFull'
      PROVE  StaleInv'
  BY <1>2, <1>5 DEF StaleInv, Awaits
<1>6. ASSUME dirty' \in [Panes -> {"no", "rows", "all"}],
             clients' # {} => foreground' \in clients',
             needsFull' = needsFull, clients' = clients, detached \subseteq detached',
             \A d \in Clients : deferred[d] => deferred'[d],
             foreground' \in Writing' =>
                 \A d \in Clients :
                    \/ baseline'[d] = Blank
                    \/ baseline'[d] = baseline[d] /\ UNCHANGED <<now, dirty, foreground>>
      PROVE  StaleInv'
  <2>1. ASSUME NEW f \in Clients, f = foreground', f \in Writing', Patchable(f)', ~Awaits'
        PROVE  DirtyWhereStale(f)'
    <3>1. baseline'[f] = baseline[f] /\ UNCHANGED <<now, dirty, foreground>>
      BY <1>6, <2>1 DEF Patchable
    <3>2. f \in Writing /\ Patchable(f) /\ ~Awaits
      BY <1>1, <1>6, <2>1, <3>1 DEF Patchable, Writing, Awaits
    <3>3. DirtyWhereStale(f)
      BY <2>1, <3>1, <3>2, FreshNow
    <3> QED
      BY <3>1, <3>3 DEF DirtyWhereStale
  <2> QED
    BY <1>1, <1>2, <1>6, <2>1, FreshNext
<1>7. CASE HandleConnected(c)
  <2>1. /\ foreground' = c /\ clients' = clients \cup {c} /\ needsFull'
        /\ ResizeShared(c, clients', baseline)
    BY <1>7 DEF HandleConnected, AskFullRender
  <2>2. dirty' \in [Panes -> {"no", "rows", "all"}]
    BY <1>1, <2>1, ResizeStale
  <2> QED
    BY <1>5, <2>1, <2>2
<1>8. CASE HandleKey(c) \/ HandleFocus(c) \/ HandleResize(c)
  <2>1. /\ needsFull' /\ clients' = clients
        /\ \E always \in BOOLEAN : \E base : Promote(c, always, base)
    BY <1>8 DEF HandleKey, HandleFocus, HandleResize, AskFullRender
  <2> QED
    BY <1>4, <1>5, <2>1
<1>9. CASE HandleReply(c)
  <2>1. /\ UNCHANGED <<now, dirty, needsFull, clients, detached, foreground, deferred>>
        /\ baseline' = InputBaseline(c)
    BY <1>9 DEF HandleReply
  <2>2. \A d \in Clients : baseline'[d] = Blank \/ baseline'[d] = baseline[d]
    BY <1>1, <2>1, OwnResets
  <2> QED
    BY <1>1, <1>6, <2>1, <2>2
<1>10. CASE HandleDetach(c)
  <2>1. /\ Promote(c, FALSE, InputBaseline(c)) /\ UNCHANGED <<needsFull, clients, deferred>>
        /\ detached' = IF c \in clients THEN detached \cup {c} ELSE detached
    BY <1>10 DEF HandleDetach
  <2>2. /\ dirty' \in [Panes -> {"no", "rows", "all"}]
        /\ clients' # {} => foreground' \in clients'
        /\ foreground' = IF c \in clients THEN c ELSE foreground
    BY <1>4, <2>1
  <2>3. ASSUME foreground' \in Writing'
        PROVE  /\ baseline' = InputBaseline(c)
               /\ UNCHANGED <<now, dirty, foreground>>
    <3>1. c \notin clients
      BY <2>1, <2>2, <2>3 DEF Writing
    <3> QED
      BY <2>1, <3>1 DEF Promote
  <2>4. \A d \in Clients : InputBaseline(c)[d] = Blank \/ InputBaseline(c)[d] = baseline[d]
    BY <1>1, OwnResets
  <2> QED
    BY <1>6, <2>1, <2>2, <2>3, <2>4
<1>11. CASE HandleDisconnected(c)
  <2>1. needsFull' /\ clients' = clients \ {c}
    BY <1>11 DEF HandleDisconnected, AskFullRender, RemoveClient
  <2>2. /\ dirty' \in [Panes -> {"no", "rows", "all"}]
        /\ clients' # {} => foreground' \in clients'
    <3>1. CASE c \in clients /\ foreground = c
      BY <1>1, <1>11, <3>1, ResizeStale DEF HandleDisconnected, RemoveClient
    <3>2. CASE ~(c \in clients /\ foreground = c)
      BY <1>1, <1>11, <2>1, <3>2 DEF HandleDisconnected, RemoveClient
    <3> QED
      BY <3>1, <3>2
  <2> QED
    BY <1>5, <2>1, <2>2
<1>12. CASE HandleDrained(c)
  <2>1. /\ UNCHANGED <<now, dirty, clients, detached, foreground, baseline>>
        /\ deferred' = [deferred EXCEPT ![c] = FALSE]
        /\ IF deferred[c] THEN needsFull' ELSE needsFull' = needsFull
    BY <1>12 DEF HandleDrained, AskFullRender
  <2>2. CASE deferred[c]
    BY <1>1, <1>5, <2>1, <2>2
  <2>3. CASE ~deferred[c]
    <3>1. \A d \in Clients : deferred[d] => deferred'[d]
      BY <1>1, <2>1, <2>3 DEF PerClient
    <3> QED
      BY <1>1, <1>6, <2>1, <2>3, <3>1
  <2> QED
    BY <2>2, <2>3
<1> QED
  BY <1>3, <1>7, <1>8, <1>9, <1>10, <1>11, <1>12 DEF HandleEvent

\* A full render's frame is what the client shows, unless it is deferred or its
\* writer is gone.
LEMMA TargetStale ==
    ASSUME StaleInv, DiffsInv, DeferInv, RenderTarget
    PROVE  StaleInv'
<1>1. /\ pc = "full" /\ targets # <<>> /\ targets' = Tail(targets)
      /\ dirty' = [p \in Panes |-> "no"]
      /\ UNCHANGED <<writer, clients, detached, foreground, needsFull, pc>>
  BY DEF RenderTarget, loop
<1>2. targets \in Seq(Clients) /\ PerClient(baseline) /\ clients \subseteq Clients
  BY DEF DiffsInv
<1>3. Head(targets) \in Clients /\ Len(targets) \in Nat \ {0}
  BY <1>1, <1>2
<1>4. PICK c \in Clients : c = Head(targets)
  BY <1>3
<1>5. Current(c, now') \/ Sent(c, now') \/ SlotFull(c, now') \/ WriterGone(c, now')
  BY <1>4 DEF RenderTarget
<1>6. foreground \in Writing => targets[Len(targets)] = foreground
  BY <1>1 DEF StaleInv, ForegroundLast, LastIsForeground
<1>7. /\ targets' # <<>> => targets'[Len(targets')] = targets[Len(targets)]
      /\ targets' = <<>> => c = targets[Len(targets)]
  <2>1. /\ Len(targets') = Len(targets) - 1 /\ c = targets[1]
        /\ \A i \in 1..Len(targets') : targets'[i] = targets[i + 1]
    BY <1>1, <1>2, <1>4
  <2>2. Len(targets') \in Nat /\ (targets' = <<>> <=> Len(targets') = 0)
    <3>1. targets' \in Seq(Clients)
      BY <1>1, <1>2
    <3> QED
      BY <3>1
  <2>3. CASE targets' = <<>>
    <3>1. Len(targets) = 1
      BY <1>3, <2>1, <2>2, <2>3
    <3> QED
      BY <2>1, <2>3, <3>1
  <2>4. CASE targets' # <<>>
    <3>1. Len(targets') \in 1..Len(targets') /\ Len(targets') + 1 = Len(targets)
      BY <1>3, <2>1, <2>2, <2>4
    <3>2. targets'[Len(targets')] = targets[Len(targets') + 1]
      BY <2>1, <3>1
    <3> QED
      BY <2>4, <3>1, <3>2
  <2> QED
    BY <2>3, <2>4
<1>8. ForegroundLast'
  BY <1>1, <1>6, <1>7 DEF ForegroundLast, LastIsForeground, Writing
<1>9. ASSUME NEW f \in Clients, f = foreground', f \in Writing', Patchable(f)', ~Awaits'
      PROVE  DirtyWhereStale(f)'
  <2>1. targets' = <<>> /\ f \in Writing /\ f = foreground
    BY <1>1, <1>9 DEF Awaits, Writing
  <2>2. f = c
    BY <1>6, <1>7, <2>1
  <2>3. baseline'[c] = now'
    <3>1. CASE Current(c, now')
      BY <3>1 DEF Current
    <3>2. CASE Sent(c, now')
      BY <1>2, <3>2 DEF Sent, PerClient
    <3>3. CASE SlotFull(c, now') \/ WriterGone(c, now')
      <4>1. deferred'[c] \/ writer'[c] = "closed"
        BY <1>1, <3>3 DEF SlotFull, WriterGone, DeferInv, PerClient
      <4> QED
        BY <1>9, <2>2, <4>1 DEF Patchable
    <3> QED
      BY <1>5, <3>1, <3>2, <3>3
  <2> QED
    BY <2>2, <2>3 DEF DirtyWhereStale
<1>10. /\ clients' \subseteq Clients /\ dirty' \in [Panes -> {"no", "rows", "all"}]
       /\ clients' # {} => foreground' \in clients'
  BY <1>1, <1>2 DEF StaleInv
<1> QED
  BY <1>8, <1>9, <1>10, FreshNext

\* A retained update that is sent shows the dirty rows of every pane, and it was
\* allowed for the foreground client only where the rest was not stale.
LEMMA RetainedStale ==
    ASSUME StaleInv, DiffsInv, DeferInv, RetainedSent \/ RetainedRefused
    PROVE  StaleInv'
<1>1. /\ pc = "retained" /\ ~needsFull
      /\ dirty' = [p \in Panes |-> "no"]
      /\ \A p \in Panes : dirty[p] # "all"
      /\ UNCHANGED <<now, writer, clients, detached, foreground>>
      /\ pc' \in {"top", "refused"}
  BY DEF RetainedSent, RetainedRefused, DeferInv
<1>2. /\ clients \subseteq Clients /\ PerClient(baseline)
      /\ dirty \in [Panes -> {"no", "rows", "all"}]
  BY DEF DiffsInv, StaleInv
<1>3. ASSUME NEW f \in Clients, f = foreground', f \in Writing', Patchable(f)', ~Awaits'
      PROVE  DirtyWhereStale(f)'
  <2>1. RetainedSent /\ f \in Writing /\ f = foreground
    BY <1>1, <1>3 DEF RetainedRefused, Awaits, Writing
  <2>2. PICK c \in Writing : RetainedAllowed(c) /\ (Current(c, Patched(c)) \/ Sent(c, Patched(c)))
    BY <2>1 DEF RetainedSent
  <2>3. c = f
    <3>1. targets[Len(targets)] = f /\ targets = <<c>>
      BY <1>1, <2>1, <2>2 DEF StaleInv, ForegroundLast, LastIsForeground, RetainedAllowed
    <3> QED
      BY <3>1
  <2>4. DirtyWhereStale(f)
    <3>1. Patchable(f) /\ ~Awaits
      BY <1>1, <1>3, <2>2, <2>3 DEF Patchable, Awaits, RetainedAllowed
    <3> QED
      BY <2>1, <3>1, FreshNow
  <2>5. baseline'[f] = Patched(f)
    <3>1. CASE Current(c, Patched(c))
      BY <2>3, <3>1 DEF Current
    <3>2. CASE Sent(c, Patched(c))
      <4>1. baseline' = [baseline EXCEPT ![c] = Patched(c)]
        BY <3>2 DEF Sent
      <4> QED
        BY <1>2, <2>3, <4>1 DEF PerClient
    <3> QED
      BY <2>2, <3>1, <3>2
  <2>6. ASSUME NEW x \in Parts PROVE Patched(f)[x] = now[x]
    <3>1. CASE x \in Panes /\ dirty[x] = "rows"
      BY <3>1 DEF Patched
    <3>2. CASE ~(x \in Panes /\ dirty[x] = "rows")
      <4>1. Patched(f)[x] = baseline[f][x]
        BY <3>2 DEF Patched
      <4>2. x \in Panes => dirty[x] = "no"
        BY <1>1, <1>2, <3>2
      <4> QED
        BY <2>4, <4>1, <4>2 DEF DirtyWhereStale
    <3> QED
      BY <3>1, <3>2
  <2> QED
    BY <1>1, <2>5, <2>6 DEF DirtyWhereStale
<1>4. ForegroundLast'
  BY <1>1 DEF ForegroundLast
<1>5. /\ clients' \subseteq Clients /\ dirty' \in [Panes -> {"no", "rows", "all"}]
      /\ clients' # {} => foreground' \in clients'
  BY <1>1, <1>2 DEF StaleInv
<1> QED
  BY <1>3, <1>4, <1>5, FreshNext

\* A render begins, or is full after all.
LEMMA BeginStale ==
    ASSUME StaleInv, DiffsInv, StartRender \/ (AfterRefusal /\ broken = {}) \/ RetainedFallback
    PROVE  StaleInv'
<1>0. /\ clients \subseteq Clients /\ (clients # {} => foreground \in clients)
      /\ dirty \in [Panes -> {"no", "rows", "all"}]
  BY DEF DiffsInv, StaleInv
<1>1. UNCHANGED <<now, foreground, clients, detached, deferred, baseline, writer, needsFull>>
  BY DEF StartRender, AfterRefusal, RetainedFallback, registry, transport
<1>2. dirty' \in [Panes -> {"no", "rows", "all"}] /\ (~RetainedFallback => dirty' = dirty)
  BY <1>0 DEF StartRender, AfterRefusal, RetainedFallback
<1>3. foreground \in Writing => targets' # <<>> /\ targets'[Len(targets')] = foreground
  <2>1. CASE targets' \in TargetOrder
    BY <1>0, <2>1, OrderCovers
  <2>2. CASE RetainedFallback
    BY <2>2 DEF RetainedFallback, render, StaleInv, ForegroundLast, LastIsForeground
  <2> QED
    BY <2>1, <2>2 DEF StartRender, AfterRefusal
<1>4. ForegroundLast'
  BY <1>1, <1>3 DEF ForegroundLast, LastIsForeground, Writing
<1>5. ASSUME NEW f \in Clients, f = foreground', f \in Writing', Patchable(f)', ~Awaits'
      PROVE  DirtyWhereStale(f)'
  <2>1. f = foreground /\ f \in Writing /\ Patchable(f) /\ targets' # <<>>
    BY <1>1, <1>3, <1>5 DEF Patchable, Writing
  <2>2. StartRender /\ pc = "drain" /\ ~needsFull
    <3>1. FullRender(targets') = "full" /\ FullRender(targets) \in {"full", "virtual"}
      BY <2>1 DEF FullRender
    <3>2. pc' # "full"
      BY <1>5, <2>1 DEF Awaits
    <3>3. RetainedFallback => targets' = targets
      BY DEF RetainedFallback, render
    <3>4. StartRender
      BY <3>1, <3>2, <3>3 DEF AfterRefusal, RetainedFallback
    <3> QED
      BY <3>1, <3>2, <3>4 DEF StartRender
  <2>3. DirtyWhereStale(f)
    BY <2>1, <2>2, FreshNow DEF Awaits
  <2>4. dirty' = dirty
    BY <2>2 DEF StartRender
  <2> QED
    BY <1>1, <2>3, <2>4 DEF DirtyWhereStale
<1> QED
  BY <1>0, <1>1, <1>2, <1>4, <1>5, FreshNext

\* A render ends; the one for nobody takes the dirty rows too.
LEMMA EndStale ==
    ASSUME StaleInv, DiffsInv, Rendered
    PROVE  StaleInv'
<1>1. /\ UNCHANGED <<now, foreground, clients, detached, deferred, baseline, writer, targets>>
      /\ pc \in {"full", "virtual"} /\ pc' = "top" /\ targets = <<>>
      /\ dirty' = IF pc = "virtual" THEN [p \in Panes |-> "no"] ELSE dirty
  BY DEF Rendered, registry, render, transport
<1>2. ASSUME NEW f \in Clients, f = foreground', f \in Writing', Patchable(f)', ~Awaits'
      PROVE  DirtyWhereStale(f)'
  <2>1. f = foreground /\ f \in Writing /\ Patchable(f)
    BY <1>1, <1>2 DEF Patchable, Writing
  <2>2. pc = "full"
    BY <1>1, <2>1 DEF StaleInv, ForegroundLast, LastIsForeground
  <2>3. DirtyWhereStale(f)
    BY <1>1, <2>1, <2>2, FreshNow DEF Awaits
  <2> QED
    BY <1>1, <2>2, <2>3 DEF DirtyWhereStale
<1>3. ForegroundLast' /\ dirty' \in [Panes -> {"no", "rows", "all"}] /\ clients' \subseteq Clients
      /\ (clients' # {} => foreground' \in clients')
  BY <1>1 DEF ForegroundLast, StaleInv, DiffsInv
<1> QED
  BY <1>2, <1>3, FreshNext

\* StaleInv is inductive, relative to the invariants above.
THEOREM StepStale ==
    StaleInv /\ DeferInv /\ DiffsInv /\ DiffsInv' /\ Introduced /\ [Next]_vars => StaleInv'
<1> SUFFICES ASSUME StaleInv, DeferInv, DiffsInv, DiffsInv', Introduced, [Next]_vars
             PROVE  StaleInv'
  OBVIOUS
<1> DEFINE still == UNCHANGED <<now, dirty, foreground, clients, detached, deferred, baseline>>
<1>0. clients' \subseteq Clients /\ broken \subseteq Clients
  BY DEF DiffsInv
<1>1. ASSUME NEW p \in Panes, PtyWrite(p) PROVE StaleInv'
  BY <1>1, WriteStale
<1>2. ASSUME NEW p \in Panes, ReaderStep(p) PROVE StaleInv'
  <2>1. still /\ UNCHANGED <<writer, pc, targets, needsFull>>
    BY <1>2 DEF ReaderStep, RequestRender, NotifyLoop, loop, registry, render, transport
  <2> QED
    BY <2>1, IdleStale DEF Awaits
<1>3. CASE Change
  <2>1. /\ pc = "drain" /\ pc' = "drain" /\ needsFull'
        /\ UNCHANGED <<dirty, foreground, clients>>
    BY <1>3 DEF Change, AskFullRender, registry
  <2> QED
    BY <2>1 DEF StaleInv, ForegroundLast, Awaits
<1>4. CASE WakeByPermit \/ WakeByDeadline \/ CheckDirty \/ GoWait
  <2>1. /\ still /\ UNCHANGED <<writer, targets, needsFull>>
        /\ pc \in {"top", "drain", "wait"} /\ pc' \in {"top", "drain", "wait"}
    BY <1>4 DEF WakeByPermit, WakeByDeadline, CheckDirty, GoWait, display, registry, render,
                transport
  <2> QED
    BY <2>1, IdleStale DEF Awaits
<1>5. CASE Drain \/ WakeByEvent
  <2>1. HandleEvent /\ pc \in {"drain", "wait"} /\ pc' \in {"drain", "top"}
    BY <1>5 DEF Drain, WakeByEvent
  <2> QED
    BY <1>0, <2>1, HandlerStale
<1>6. CASE StartRender \/ (AfterRefusal /\ broken = {}) \/ RetainedFallback
  BY <1>6, BeginStale
<1>7. CASE RenderTarget
  BY <1>7, TargetStale
<1>8. CASE RetainedSent \/ RetainedRefused
  BY <1>8, RetainedStale
<1>9. CASE Rendered
  BY <1>9, EndStale
<1>10. CASE RemoveBroken \/ (AfterRefusal /\ broken # {})
  <2>1. PICK c \in broken : RemoveClient(c)
    BY <1>10 DEF RemoveBroken, AfterRefusal
  <2>2. /\ UNCHANGED <<writer, needsFull, pc, targets>>
        /\ (pc = "full" /\ targets = <<>>) \/ pc = "refused"
    BY <1>10 DEF RemoveBroken, AfterRefusal, loop, transport
  <2> QED
    BY <1>0, <2>1, <2>2, RemoveStale
<1>11. ASSUME NEW c \in Clients, WriterStep(c) PROVE StaleInv'
  <2>1. still /\ UNCHANGED <<pc, targets, needsFull>>
    BY <1>11 DEF WriterStep, TakeFrame, AnnounceDrained, WriteFrame, WriterExits, display, loop,
                 registry, render
  <2>2. writer[c] # "closed" /\ \E w : writer' = [writer EXCEPT ![c] = w]
    BY <1>11 DEF WriterStep, TakeFrame, AnnounceDrained, WriteFrame, WriterExits
  <2>3. \A d \in Writing : writer[d] = "closed" => writer'[d] = "closed"
    BY <2>2 DEF DiffsInv, PerClient, Writing
  <2> QED
    BY <2>1, <2>3, IdleStale DEF Awaits
<1>12. ASSUME NEW c \in Clients,
              Connect(c) \/ Leave(c) \/ ReadEnds(c) \/ \E kind \in Kinds : Send(c, kind)
       PROVE  StaleInv'
  <2>1. still /\ UNCHANGED <<pc, targets, needsFull>>
    BY <1>12 DEF Connect, Leave, ReadEnds, Send, display, loop, registry, render
  <2>2. writer' = writer \/ (writer' = [writer EXCEPT ![c] = "waiting"] /\ conn[c] = "new")
    BY <1>12 DEF Connect, Leave, ReadEnds, Send, transport
  <2>3. conn[c] = "new" => c \notin Writing
    BY DEF Introduced, Writing
  <2>4. \A d \in Writing : writer[d] = "closed" => writer'[d] = "closed"
    BY <2>2, <2>3 DEF DiffsInv, PerClient, Writing
  <2> QED
    BY <2>1, <2>4, IdleStale DEF Awaits
<1>13. CASE UNCHANGED vars
  <2>1. still /\ UNCHANGED <<writer, pc, targets, needsFull>>
    BY <1>13 DEF vars, display, loop, registry, render, transport
  <2> QED
    BY <2>1, IdleStale DEF Awaits
<1> QED
  BY <1>1, <1>2, <1>3, <1>4, <1>5, <1>6, <1>7, <1>8, <1>9, <1>10, <1>11, <1>12, <1>13
     DEF Next, LoopStep

\* Every step of the program keeps it.
THEOREM StaleInductive == Spec => []StaleInv
BY InitStale, StepStale, DefersInductive, Inductive, NobodyUnintroduced, PTL DEF Spec

\* The retained path may patch the last frame of a client that is alone: where
\* that frame is stale and no full render is due, the pane is dirty, for any
\* number of clients that came, went or detached before.
THEOREM StalePanesAreDirty == Spec => []StaleIsDirty
<1>1. StaleInv => StaleIsDirty
  <2> SUFFICES ASSUME StaleInv, NEW c \in Writing, clients = {c},
                      pc \notin {"full", "refused"}, ~needsFull, ~deferred[c],
                      baseline[c] # Blank, writer[c] # "closed"
               PROVE  DirtyWhereStale(c)
    BY DEF StaleIsDirty, DirtyWhereStale
  <2>1. c = foreground
    BY DEF StaleInv
  <2> QED
    BY <2>1, FreshNow DEF Patchable, Awaits
<1> QED
  BY <1>1, StaleInductive, PTL
=============================================================================
