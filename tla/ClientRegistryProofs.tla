------------------------ MODULE ClientRegistryProofs ------------------------
(***************************************************************************)
(* IndInv of ClientRegistry is an invariant, for every set of clients,     *)
(* terminals and sizes.                                                    *)
(*                                                                         *)
(* The handlers are compositions of functions of the server's state, so    *)
(* the proof is made of lemmas about these functions: each keeps Core,     *)
(* what must hold between any two of them, and those that may move the     *)
(* foreground establish Front.  Fits and Shown are what a render restores. *)
(* The last section does the same for Led: the full clients are ranked by  *)
(* their last activity, so that there is one to promote.                   *)
(***************************************************************************)
EXTENDS ClientRegistry, FiniteSetTheorems, WellFoundedInduction, TLAPS

\* What every function keeps.
Owned(s) == \A t \in Terminals, c \in Clients :
    s.owner[t] = c <=> s.conn[c].mode = "attach" /\ s.conn[c].target = t
Locked(s) == \A t \in s.terminals : t \in s.locks <=> s.owner[t] # NoClient
Sized(s) == \A t \in s.terminals :
    s.owner[t] # NoClient => s.pty[t] = s.conn[s.owner[t]].size
Given(s, u) == /\ s.terminals \cup s.locks \subseteq u
               /\ \A t \in Terminals : s.owner[t] # NoClient => t \in u
Written(s) == \A c \in Clients :
    /\ IsStream(s, c) \/ IsPending(s, c) => s.conn[c].writer # "none"
    /\ IsPending(s, c) => c # s.foreground
Core(s, u) ==
    s \in ServerState /\ Owned(s) /\ Locked(s) /\ Sized(s) /\ Given(s, u) /\ Written(s)

Front(s) == /\ s.foreground # NoClient => IsFull(s, s.foreground)
            /\ s.effective = IF s.foreground = NoClient
                             THEN MinSize ELSE s.conn[s.foreground].size

\* Terminals nobody owns have the foreground's size.
Fits(s) == s.foreground # NoClient =>
    \A t \in s.terminals : s.owner[t] = NoClient => s.pty[t] = s.conn[s.foreground].size
Watched(s) == s.foreground # NoClient /\ s.conn[s.foreground].writer # "none"
Shown(s) == \A c \in Clients : IsStream(s, c) => s.conn[c].target \in s.terminals

\* The invariant, said of these.
Inv == /\ Core(server, used) /\ Front(server)
       /\ ~due => (Watched(server) => Fits(server)) /\ Shown(server)
       /\ used \subseteq Terminals /\ due \in BOOLEAN

LEMMA InvIsIndInv == Inv <=> IndInv
BY ConstantsAssumption
   DEF Inv, IndInv, Core, Owned, Locked, Sized, Given, Written, Front, Fits, Watched, Shown,
       TypeOK, OwnerIsAttached, LocksAreOwned, AttachedHasItsSize, ForegroundIsFull,
       OthersFitTheForeground, NobodyShowsTheGone, UsedTerminals, StreamsHaveWriters

---------------------------------------------------------------------------
(* The functions.                                                          *)

\* Two states whose clients and terminals are the same, but for the
\* foreground and the order of the stamps, are alike for Core.
LEMMA CoreElsewhere ==
    ASSUME NEW s, NEW r, NEW u, Core(s, u), r \in ServerState,
           r.terminals = s.terminals, r.conn = s.conn, r.owner = s.owner,
           r.locks = s.locks, r.pty = s.pty,
           \A c \in Clients : IsPending(s, c) => c # r.foreground
    PROVE  Core(r, u)
BY DEF Core, Owned, Locked, Sized, Given, Written, IsStream, IsPending

\* A resize of the unlocked terminals.
LEMMA FitCore ==
    ASSUME NEW s, NEW u, Core(s, u), NEW size \in Sizes \cup {MinSize}
    PROVE  /\ Core(Fit(s, size), u)
           /\ \A t \in s.terminals : s.owner[t] = NoClient => Fit(s, size).pty[t] = size
<1> DEFINE r == Fit(s, size)
<1>1. /\ r \in ServerState
      /\ r.pty = [t \in Terminals |-> IF t \in s.terminals \ s.locks THEN size ELSE s.pty[t]]
      /\ r.terminals = s.terminals /\ r.conn = s.conn /\ r.owner = s.owner
      /\ r.locks = s.locks /\ r.foreground = s.foreground
  BY DEF Core, ServerState, Fit
<1>2. s \in ServerState /\ Locked(s) /\ Sized(s)
  BY DEF Core
<1>3. s.terminals \subseteq Terminals
  BY <1>2 DEF ServerState
<1>4. Sized(r)
  BY <1>1, <1>2, <1>3 DEF Sized, Locked
<1>5. Owned(r) /\ Locked(r) /\ Given(r, u) /\ Written(r)
  BY <1>1 DEF Core, Owned, Locked, Given, Written, IsStream, IsPending
<1>6. \A t \in s.terminals : s.owner[t] = NoClient => r.pty[t] = size
  BY <1>1, <1>2, <1>3 DEF Locked
<1> QED
  BY <1>1, <1>4, <1>5, <1>6 DEF Core

LEMMA FitRest ==
    ASSUME NEW s \in ServerState, NEW size
    PROVE  /\ Fit(s, size).terminals = s.terminals /\ Fit(s, size).conn = s.conn
           /\ Fit(s, size).owner = s.owner /\ Fit(s, size).foreground = s.foreground
           /\ Fit(s, size).effective = s.effective /\ Fit(s, size).handoff = s.handoff
<1> DEFINE pty == [t \in Terminals |-> IF t \in s.terminals \ s.locks THEN size ELSE s.pty[t]]
<1>1. Fit(s, size) = [s EXCEPT !.pty = pty]
  BY DEF Fit
<1> HIDE DEF pty
<1> QED
  BY <1>1 DEF ServerState

\* resize_shared_runtime_to_effective_size fits the terminals nobody owns.
LEMMA ResizeSharedCore ==
    ASSUME NEW s, NEW u, Core(s, u), Front(s)
    PROVE  /\ Core(ResizeShared(s), u) /\ Front(ResizeShared(s)) /\ Fits(ResizeShared(s))
           /\ ResizeShared(s).terminals = s.terminals
           /\ ResizeShared(s).conn = s.conn
           /\ ResizeShared(s).foreground = s.foreground
           /\ ResizeShared(s).owner = s.owner
           /\ ResizeShared(s).handoff = s.handoff
<1>1. CASE s.foreground = NoClient
  BY <1>1 DEF ResizeShared, Fits
<1>2. CASE s.foreground # NoClient
  <2> DEFINE r == Fit(s, s.effective)
  <2>1. ResizeShared(s) = r
    BY <1>2 DEF ResizeShared
  <2>2. s \in ServerState
    BY DEF Core
  <2>3. s.effective \in Sizes \cup {MinSize}
    BY <2>2 DEF ServerState
  <2>4. /\ Core(r, u)
        /\ \A t \in s.terminals : s.owner[t] = NoClient => r.pty[t] = s.effective
    BY <2>3, FitCore
  <2>5. /\ r.terminals = s.terminals /\ r.conn = s.conn /\ r.owner = s.owner
        /\ r.foreground = s.foreground /\ r.effective = s.effective /\ r.handoff = s.handoff
    BY <2>2, FitRest
  <2> HIDE DEF r
  <2>6. Front(r)
    BY <2>5 DEF Front, IsFull
  <2>7. Fits(r)
    BY <1>2, <2>4, <2>5 DEF Fits, Front
  <2> QED
    BY <2>1, <2>4, <2>5, <2>6, <2>7
<1> QED
  BY <1>1, <1>2

\* sync_foreground_client_state after the foreground was chosen.
LEMMA SyncCore ==
    ASSUME NEW s, NEW u, Core(s, u), s.foreground # NoClient => IsFull(s, s.foreground)
    PROVE  /\ Core(Sync(s), u) /\ Front(Sync(s))
           /\ Sync(s) = [s EXCEPT !.effective = IF s.foreground = NoClient THEN MinSize
                                                ELSE s.conn[s.foreground].size]
<1> DEFINE size == IF s.foreground = NoClient THEN MinSize ELSE s.conn[s.foreground].size
           r == [s EXCEPT !.effective = size]
<1>1. s \in ServerState
  BY DEF Core
<1>2. s.foreground # NoClient => Connected(s, s.foreground)
  BY DEF IsFull, Connected
<1>3. Sync(s) = r
  BY <1>1, <1>2 DEF Sync, ServerState
<1>4. size \in Sizes \cup {MinSize}
  BY <1>1 DEF ServerState, Connection
<1>5. /\ r \in ServerState /\ r.effective = size
      /\ r.terminals = s.terminals /\ r.conn = s.conn /\ r.owner = s.owner
      /\ r.locks = s.locks /\ r.pty = s.pty /\ r.foreground = s.foreground
  BY <1>1, <1>4 DEF ServerState
<1>6. Front(r)
  BY <1>5 DEF Front, IsFull
<1>7. \A c \in Clients : IsPending(s, c) => c # r.foreground
  BY <1>5 DEF Core, Written
<1> HIDE DEF r, size
<1>8. Core(r, u)
  BY <1>5, <1>7, CoreElsewhere
<1> QED
  BY <1>3, <1>6, <1>8 DEF r, size

\* A new stamp changes nothing but the order.
LEMMA TouchCore ==
    ASSUME NEW s, s \in ServerState, NEW c \in Clients
    PROVE  /\ Touch(s, c) \in ServerState
           /\ Touch(s, c).terminals = s.terminals /\ Touch(s, c).conn = s.conn
           /\ Touch(s, c).owner = s.owner /\ Touch(s, c).locks = s.locks
           /\ Touch(s, c).pty = s.pty /\ Touch(s, c).foreground = s.foreground
           /\ Touch(s, c).effective = s.effective /\ Touch(s, c).handoff = s.handoff
<1>1. [d \in Clients |-> IF d # c THEN s.behind[d] \ {c}
                         ELSE {e \in Clients \ {c} : IsFull(s, c) /\ IsFull(s, e)}]
        \in [Clients -> SUBSET Clients]
  BY DEF ServerState
<1> QED
  BY <1>1 DEF Touch, ServerState

\* promote_latest_remaining_client
LEMMA PromoteLatestCore ==
    ASSUME NEW s, NEW u, Core(s, u)
    PROVE  /\ Core(PromoteLatest(s), u) /\ Front(PromoteLatest(s))
           /\ PromoteLatest(s).terminals = s.terminals
           /\ PromoteLatest(s).conn = s.conn
           /\ PromoteLatest(s).owner = s.owner
           /\ PromoteLatest(s).locks = s.locks
           /\ PromoteLatest(s).pty = s.pty
           /\ PromoteLatest(s).handoff = s.handoff
<1> DEFINE f == Latest(s)
           r == [s EXCEPT !.foreground = f]
<1>1. f \in Clients \cup {NoClient} /\ (f # NoClient => IsFull(s, f))
  <2>1. CASE \E c \in Clients : IsLatest(s, c)
    BY <2>1 DEF Latest, IsLatest
  <2>2. CASE ~\E c \in Clients : IsLatest(s, c)
    BY <2>2 DEF Latest
  <2> QED
    BY <2>1, <2>2
<1> HIDE DEF f
<1>2. s \in ServerState
  BY DEF Core
<1>3. /\ r \in ServerState /\ r.foreground = f
      /\ r.terminals = s.terminals /\ r.conn = s.conn /\ r.owner = s.owner
      /\ r.locks = s.locks /\ r.pty = s.pty /\ r.handoff = s.handoff
  BY <1>1, <1>2 DEF ServerState
<1>4. \A c \in Clients : IsPending(s, c) => c # f
  BY <1>1, ConstantsAssumption DEF IsPending, IsFull
<1>5. Core(r, u)
  BY <1>3, <1>4, CoreElsewhere
<1>6. r.foreground # NoClient => IsFull(r, r.foreground)
  BY <1>1, <1>3 DEF IsFull
<1> HIDE DEF r
<1>7. /\ Core(Sync(r), u) /\ Front(Sync(r))
      /\ Sync(r) = [r EXCEPT !.effective = IF r.foreground = NoClient THEN MinSize
                                           ELSE r.conn[r.foreground].size]
  BY <1>5, <1>6, SyncCore
<1>8. PromoteLatest(s) = Sync(r)
  BY DEF PromoteLatest, f, r
<1>9. /\ Sync(r).terminals = r.terminals /\ Sync(r).conn = r.conn /\ Sync(r).owner = r.owner
      /\ Sync(r).locks = r.locks /\ Sync(r).pty = r.pty /\ Sync(r).handoff = r.handoff
  BY <1>3, <1>7 DEF ServerState
<1> QED
  BY <1>3, <1>7, <1>8, <1>9

\* promote_client_to_foreground, for a client that is no stream
LEMMA PromoteCore ==
    ASSUME NEW s, NEW u, Core(s, u), NEW c \in Clients,
           IF Connected(s, c) THEN IsFull(s, c) ELSE Front(s)
    PROVE  /\ Core(Promote(s, c), u) /\ Front(Promote(s, c))
           /\ Promote(s, c).terminals = s.terminals
           /\ Promote(s, c).conn = s.conn
           /\ Promote(s, c).foreground = IF Connected(s, c) THEN c ELSE s.foreground
           /\ Promote(s, c).owner = s.owner
           /\ Promote(s, c).locks = s.locks
           /\ Promote(s, c).pty = s.pty
           /\ Promote(s, c).handoff = s.handoff
<1>1. CASE ~Connected(s, c)
  BY <1>1 DEF Promote
<1>2. CASE Connected(s, c)
  <2> DEFINE r == [Touch(s, c) EXCEPT !.foreground = c]
  <2>1. s \in ServerState
    BY DEF Core
  <2>2. /\ r \in ServerState /\ r.foreground = c
        /\ r.terminals = s.terminals /\ r.conn = s.conn /\ r.owner = s.owner
        /\ r.locks = s.locks /\ r.pty = s.pty /\ r.handoff = s.handoff
    <3>1. Touch(s, c) \in ServerState
      BY <2>1, TouchCore
    <3> QED
      BY <2>1, <3>1, TouchCore DEF ServerState
  <2>3. \A d \in Clients : IsPending(s, d) => d # c
    BY <1>2 DEF IsPending, IsFull
  <2> HIDE DEF r
  <2>4. Core(r, u)
    BY <2>2, <2>3, CoreElsewhere
  <2>5. r.foreground # NoClient => IsFull(r, r.foreground)
    BY <1>2, <2>2 DEF IsFull
  <2>6. /\ Core(Sync(r), u) /\ Front(Sync(r))
        /\ Sync(r) = [r EXCEPT !.effective = IF r.foreground = NoClient THEN MinSize
                                             ELSE r.conn[r.foreground].size]
    BY <2>4, <2>5, SyncCore
  <2>7. /\ Sync(r).terminals = r.terminals /\ Sync(r).conn = r.conn /\ Sync(r).owner = r.owner
        /\ Sync(r).locks = r.locks /\ Sync(r).pty = r.pty /\ Sync(r).handoff = r.handoff
        /\ Sync(r).foreground = r.foreground
    BY <2>2, <2>6 DEF ServerState
  <2>8. Promote(s, c) = Sync(r)
    BY <1>2 DEF Promote, r
  <2> QED
    BY <1>2, <2>2, <2>6, <2>7, <2>8
<1> QED
  BY <1>1, <1>2

\* What is left of the connections and of the owners when clients go.
Without(s, C) == [c \in Clients |-> IF c \in C THEN Gone ELSE s.conn[c]]
Freed(s, C) ==
    [t \in Terminals |->
        IF \E c \in C : IsStream(s, c) /\ s.owner[t] = c THEN NoClient ELSE s.owner[t]]

\* remove_client: a client's terminal has no owner any more.
LEMMA ForgetCore ==
    ASSUME NEW s, NEW u, Core(s, u), NEW C \in SUBSET Clients
    PROVE  /\ Core(Forget(s, C), u)
           /\ Forget(s, C).terminals = s.terminals
           /\ Forget(s, C).foreground = s.foreground
           /\ Forget(s, C).effective = s.effective
           /\ Forget(s, C).handoff = s.handoff
           /\ Forget(s, C).pty = s.pty
           /\ Forget(s, C).conn = Without(s, C)
           /\ Forget(s, C).owner = Freed(s, C)
<1> DEFINE r == Forget(s, C)
           left == {s.conn[c].target : c \in {c \in C : s.conn[c].mode = "attach"}}
<1>1. s \in ServerState /\ Owned(s) /\ Locked(s) /\ Sized(s) /\ Given(s, u) /\ Written(s)
  BY DEF Core
<1>2. Gone \in Connection
  BY DEF Gone, Connection
<1>3. /\ r.conn = [c \in Clients |-> IF c \in C THEN Gone ELSE s.conn[c]]
      /\ r.behind = [c \in Clients |-> IF c \in C THEN {} ELSE s.behind[c] \ C]
      /\ r.owner = [t \in Terminals |-> IF t \in left THEN NoClient ELSE s.owner[t]]
      /\ r.locks = s.locks \ (left \cap s.terminals)
      /\ r.terminals = s.terminals /\ r.foreground = s.foreground /\ r.pty = s.pty
      /\ r.effective = s.effective /\ r.handoff = s.handoff
  BY <1>1 DEF Forget, ServerState
<1>4. \A t \in Terminals : t \in left <=> \E c \in C : s.owner[t] = c
  <2> SUFFICES ASSUME NEW t \in Terminals
               PROVE  t \in left <=> \E c \in C : s.owner[t] = c
    OBVIOUS
  <2> HIDE DEF left, r
  <2>1. t \in left <=> \E c \in C : s.conn[c].mode = "attach" /\ s.conn[c].target = t
    BY Zenon DEF left
  <2>2. \A c \in C : s.owner[t] = c <=> s.conn[c].mode = "attach" /\ s.conn[c].target = t
    <3>1. ASSUME NEW c \in Clients
          PROVE  s.owner[t] = c <=> s.conn[c].mode = "attach" /\ s.conn[c].target = t
      BY <1>1 DEF Owned
    <3> QED
      BY <3>1
  <2> QED
    BY <2>1, <2>2, Zenon
<1>5. r \in ServerState
  <2>1. r.conn \in [Clients -> Connection]
    BY <1>1, <1>2, <1>3 DEF ServerState
  <2>2. r.behind \in [Clients -> SUBSET Clients]
    BY <1>1, <1>3 DEF ServerState
  <2>3. r.owner \in [Terminals -> Clients \cup {NoClient}]
    BY <1>1, <1>3 DEF ServerState
  <2>4. r.locks \in SUBSET Terminals
    BY <1>1, <1>3 DEF ServerState
  <2> QED
    BY <1>1, <1>3, <2>1, <2>2, <2>3, <2>4 DEF Forget, ServerState
<1> HIDE DEF r, left
<1>6. Owned(r)
  <2> SUFFICES ASSUME NEW t \in Terminals, NEW c \in Clients
               PROVE  r.owner[t] = c <=> r.conn[c].mode = "attach" /\ r.conn[c].target = t
    BY DEF Owned
  <2>1. CASE c \in C
    BY <1>1, <1>3, <1>4, <2>1, ConstantsAssumption DEF Owned, Gone
  <2>2. CASE c \notin C
    BY <1>1, <1>3, <1>4, <2>2, ConstantsAssumption DEF Owned
  <2> QED
    BY <2>1, <2>2
<1>7. Locked(r)
  BY <1>1, <1>3, <1>4 DEF Locked, ServerState
<1>8. Sized(r)
  <2> SUFFICES ASSUME NEW t \in s.terminals, r.owner[t] # NoClient
               PROVE  r.pty[t] = r.conn[r.owner[t]].size
    BY <1>3 DEF Sized
  <2>1. t \in Terminals /\ t \notin left /\ r.owner[t] = s.owner[t] /\ s.owner[t] # NoClient
    BY <1>1, <1>3 DEF ServerState
  <2>2. s.owner[t] \in Clients /\ s.owner[t] \notin C
    BY <1>1, <1>4, <2>1 DEF ServerState
  <2> QED
    BY <1>1, <1>3, <2>1, <2>2 DEF Sized
<1>9. Given(r, u)
  BY <1>1, <1>3 DEF Given
<1>10. Written(r)
  BY <1>1, <1>3 DEF Written, IsStream, IsPending, Gone
<1>11. r.owner = Freed(s, C)
  <2>1. \A t \in Terminals : t \in left <=> \E c \in C : IsStream(s, c) /\ s.owner[t] = c
    BY <1>1, <1>4 DEF Owned, IsStream
  <2> QED
    BY <1>3, <2>1 DEF Freed
<1>12. r.conn = Without(s, C)
  BY <1>3 DEF Without
<1> QED
  BY <1>3, <1>5, <1>6, <1>7, <1>8, <1>9, <1>10, <1>11, <1>12 DEF Core, r

\* In particular the terminal of an attached client is nobody's.
LEMMA ForgetOwner ==
    ASSUME NEW s, NEW u, Core(s, u), NEW d \in Clients, NEW v \in Terminals,
           IsStream(s, d), s.owner[v] = d
    PROVE  Forget(s, {d}).owner[v] = NoClient
<1>1. {d} \in SUBSET Clients
  OBVIOUS
<1>2. Forget(s, {d}).owner = Freed(s, {d})
  BY <1>1, ForgetCore
<1> QED
  BY <1>2 DEF Freed

\* remove_client_and_resize_if_needed, not for the foreground client
LEMMA RemoveOthersCore ==
    ASSUME NEW s, NEW u, Core(s, u), Front(s), NEW C \in SUBSET Clients, s.foreground \notin C
    PROVE  /\ Core(RemoveOthers(s, C), u)
           /\ Front(RemoveOthers(s, C))
           /\ Fits(s) => Fits(RemoveOthers(s, C))
           /\ RemoveOthers(s, C).terminals = s.terminals
           /\ RemoveOthers(s, C).foreground = s.foreground
           /\ RemoveOthers(s, C).handoff = s.handoff
           /\ RemoveOthers(s, C).conn = Without(s, C)
           /\ RemoveOthers(s, C).owner = Forget(s, C).owner
<1> DEFINE r == Forget(s, C)
<1>1. /\ Core(r, u)
      /\ r.terminals = s.terminals /\ r.foreground = s.foreground
      /\ r.effective = s.effective /\ r.handoff = s.handoff /\ r.pty = s.pty
      /\ r.conn = Without(s, C) /\ r.owner = Freed(s, C)
  BY ForgetCore
<1>2. s \in ServerState
  BY DEF Core
<1>3. Front(r)
  BY <1>1, <1>2 DEF Front, IsFull, ServerState, Without
<1> HIDE DEF r
<1>4. CASE s.foreground # NoClient /\ \E c \in C : IsStream(s, c)
  <2>1. RemoveOthers(s, C) = ResizeShared(r)
    BY <1>4 DEF RemoveOthers, r
  <2>2. /\ Core(ResizeShared(r), u) /\ Front(ResizeShared(r)) /\ Fits(ResizeShared(r))
        /\ ResizeShared(r).terminals = r.terminals
        /\ ResizeShared(r).conn = r.conn
        /\ ResizeShared(r).foreground = r.foreground
        /\ ResizeShared(r).owner = r.owner
        /\ ResizeShared(r).handoff = r.handoff
    BY <1>1, <1>3, ResizeSharedCore
  <2> QED
    BY <1>1, <2>1, <2>2 DEF r
<1>5. CASE ~(s.foreground # NoClient /\ \E c \in C : IsStream(s, c))
  <2>1. RemoveOthers(s, C) = r
    BY <1>5 DEF RemoveOthers, r
  <2>2. Fits(s) => Fits(r)
    <3> SUFFICES ASSUME Fits(s), s.foreground # NoClient, NEW t \in s.terminals,
                        r.owner[t] = NoClient
                 PROVE  r.pty[t] = r.conn[s.foreground].size
      BY <1>1 DEF Fits
    <3>1. ~\E c \in C : IsStream(s, c)
      BY <1>5
    <3>2. s.owner[t] = NoClient
      BY <1>1, <1>2, <3>1 DEF ServerState, Freed
    <3>3. s.foreground \in Clients
      BY <1>2 DEF ServerState
    <3> QED
      BY <1>1, <3>2, <3>3 DEF Fits, Without
  <2> QED
    BY <1>1, <1>3, <2>1, <2>2 DEF r
<1> QED
  BY <1>4, <1>5

\* remove_client_and_resize_if_needed
LEMMA RemoveCore ==
    ASSUME NEW s, NEW u, Core(s, u), Front(s), NEW c \in Clients
    PROVE  /\ Core(Remove(s, c), u)
           /\ Front(Remove(s, c))
           /\ Fits(s) \/ c = s.foreground => Fits(Remove(s, c))
           /\ Remove(s, c).terminals = s.terminals
           /\ c # s.foreground => Remove(s, c).foreground = s.foreground
           /\ Remove(s, c).handoff = s.handoff
           /\ Remove(s, c).conn = Without(s, {c})
           /\ Remove(s, c).owner = Forget(s, {c}).owner
<1>1. CASE c # s.foreground
  <2>1. {c} \in SUBSET Clients /\ s.foreground \notin {c}
    BY <1>1
  <2>2. Remove(s, c) = RemoveOthers(s, {c})
    BY <1>1 DEF Remove
  <2>3. /\ Core(RemoveOthers(s, {c}), u)
        /\ Front(RemoveOthers(s, {c}))
        /\ Fits(s) => Fits(RemoveOthers(s, {c}))
        /\ RemoveOthers(s, {c}).terminals = s.terminals
        /\ RemoveOthers(s, {c}).foreground = s.foreground
        /\ RemoveOthers(s, {c}).handoff = s.handoff
        /\ RemoveOthers(s, {c}).conn = Without(s, {c})
        /\ RemoveOthers(s, {c}).owner = Forget(s, {c}).owner
    BY <2>1, RemoveOthersCore
  <2> QED
    BY <1>1, <2>2, <2>3
<1>2. CASE c = s.foreground
  <2> DEFINE r == Forget(s, {c})
             q == PromoteLatest(r)
  <2>1. /\ Core(r, u) /\ r.terminals = s.terminals /\ r.handoff = s.handoff
        /\ r.conn = Without(s, {c})
    <3>1. {c} \in SUBSET Clients
      OBVIOUS
    <3> QED
      BY <3>1, ForgetCore
  <2> HIDE DEF r
  <2>2. /\ Core(q, u) /\ Front(q)
        /\ q.terminals = r.terminals /\ q.handoff = r.handoff /\ q.conn = r.conn
        /\ q.owner = r.owner
    BY <2>1, PromoteLatestCore
  <2> HIDE DEF q
  <2>3. /\ Core(ResizeShared(q), u) /\ Front(ResizeShared(q)) /\ Fits(ResizeShared(q))
        /\ ResizeShared(q).terminals = q.terminals
        /\ ResizeShared(q).conn = q.conn
        /\ ResizeShared(q).owner = q.owner
        /\ ResizeShared(q).handoff = q.handoff
    BY <2>2, ResizeSharedCore
  <2>4. Remove(s, c) = ResizeShared(q)
    BY <1>2 DEF Remove, q, r
  <2> QED
    BY <1>2, <2>1, <2>2, <2>3, <2>4 DEF r
<1> QED
  BY <1>1, <1>2

\* What is shown stays shown when clients go.
LEMMA RemoveParts ==
    ASSUME NEW s, NEW u, Core(s, u), Front(s), NEW c \in Clients
    PROVE  /\ Core(Remove(s, c), u) /\ Front(Remove(s, c))
           /\ Fits(s) \/ s.foreground = c => Fits(Remove(s, c))
           /\ Remove(s, c).terminals = s.terminals
           /\ Remove(s, c).conn = Without(s, {c})
BY RemoveCore

LEMMA ShownStays ==
    ASSUME NEW s, NEW r, Shown(s), r.terminals = s.terminals,
           \A c \in Clients : r.conn[c] = s.conn[c] \/ r.conn[c] = Gone
    PROVE  Shown(r)
BY DEF Shown, IsStream, Gone

\* The end of attach_terminal_client, for a terminal without an owner.
LEMMA TakeTerminalCore ==
    ASSUME NEW s, NEW u, Core(s, u), Front(s), NEW c \in Clients, NEW t \in s.terminals,
           IsPending(s, c), s.owner[t] = NoClient
    PROVE  /\ Core(TakeTerminal(s, c, t), u) /\ Front(TakeTerminal(s, c, t))
           /\ TakeTerminal(s, c, t).handoff = s.handoff
<1>1. s \in ServerState /\ Owned(s) /\ Locked(s) /\ Sized(s) /\ Given(s, u) /\ Written(s)
  BY DEF Core
<1>2. c # s.foreground
  BY <1>1 DEF Written
<1> DEFINE q == [s EXCEPT !.conn[c].mode = "attach", !.conn[c].target = t,
                          !.conn[c].pending = FALSE]
           p == Touch(q, c)
           r == [p EXCEPT !.owner[t] = c, !.locks = @ \cup {t}, !.pty[t] = s.conn[c].size]
<1>3. TakeTerminal(s, c, t) = r
  BY <1>2 DEF TakeTerminal
<1>4. t \in Terminals /\ s.conn[c] \in Connection /\ s.conn[c].mode = "app"
  BY <1>1 DEF ServerState, IsPending
<1>5. q \in ServerState
  <2>1. [s.conn[c] EXCEPT !.mode = "attach", !.target = t, !.pending = FALSE] \in Connection
    BY <1>4 DEF Connection
  <2>2. q = [s EXCEPT !.conn = [s.conn EXCEPT ![c] =
               [s.conn[c] EXCEPT !.mode = "attach", !.target = t, !.pending = FALSE]]]
    BY <1>1 DEF ServerState
  <2> QED
    BY <1>1, <2>1, <2>2 DEF ServerState
<1>6. /\ q.terminals = s.terminals /\ q.owner = s.owner /\ q.locks = s.locks
      /\ q.pty = s.pty /\ q.foreground = s.foreground /\ q.effective = s.effective
      /\ q.handoff = s.handoff
      /\ q.conn[c].mode = "attach" /\ q.conn[c].target = t /\ ~q.conn[c].pending
      /\ q.conn[c].size = s.conn[c].size /\ q.conn[c].writer = s.conn[c].writer
      /\ \A d \in Clients : d # c => q.conn[d] = s.conn[d]
  BY <1>1, <1>4 DEF ServerState, Connection
<1> HIDE DEF q
<1>7. /\ p \in ServerState
      /\ p.terminals = q.terminals /\ p.conn = q.conn /\ p.owner = q.owner
      /\ p.locks = q.locks /\ p.pty = q.pty /\ p.foreground = q.foreground
      /\ p.effective = q.effective /\ p.handoff = q.handoff
  BY <1>5, TouchCore
<1> HIDE DEF p
<1>8. s.conn[c].size \in Sizes \cup {MinSize}
  BY <1>4 DEF Connection
<1>9. /\ r \in ServerState
      /\ r.terminals = s.terminals /\ r.conn = q.conn /\ r.locks = s.locks \cup {t}
      /\ r.foreground = s.foreground /\ r.effective = s.effective /\ r.handoff = s.handoff
      /\ r.owner = [s.owner EXCEPT ![t] = c]
      /\ r.pty = [s.pty EXCEPT ![t] = s.conn[c].size]
  <2> DEFINE owner == [s.owner EXCEPT ![t] = c]
             pty == [s.pty EXCEPT ![t] = s.conn[c].size]
             locks == s.locks \cup {t}
  <2>1. /\ owner \in [Terminals -> Clients \cup {NoClient}]
        /\ pty \in [Terminals -> Sizes \cup {MinSize}]
        /\ locks \in SUBSET Terminals
    BY <1>1, <1>4, <1>8 DEF ServerState
  <2>2. r = [p EXCEPT !.owner = owner, !.locks = locks, !.pty = pty]
    BY <1>6, <1>7 DEF ServerState
  <2> HIDE DEF owner, pty, locks, r
  <2>3. /\ r \in ServerState /\ r.owner = owner /\ r.pty = pty /\ r.locks = locks
        /\ r.terminals = p.terminals /\ r.conn = p.conn /\ r.foreground = p.foreground
        /\ r.effective = p.effective /\ r.handoff = p.handoff
    BY <1>7, <2>1, <2>2 DEF ServerState
  <2> QED
    BY <1>6, <1>7, <2>3 DEF owner, pty, locks
<1> HIDE DEF r
<1>10. Owned(r)
  <2> SUFFICES ASSUME NEW v \in Terminals, NEW d \in Clients
               PROVE  r.owner[v] = d <=> r.conn[d].mode = "attach" /\ r.conn[d].target = v
    BY DEF Owned
  <2>1. s.owner[v] = d <=> s.conn[d].mode = "attach" /\ s.conn[d].target = v
    BY <1>1 DEF Owned
  <2>2. r.owner[v] = IF v = t THEN c ELSE s.owner[v]
    BY <1>1, <1>9 DEF ServerState
  <2>3. CASE d = c
    BY <1>4, <1>6, <1>9, <2>1, <2>2, <2>3
  <2>4. CASE d # c
    BY <1>6, <1>9, <2>1, <2>2, <2>4, ConstantsAssumption
  <2> QED
    BY <2>3, <2>4
<1>11. Locked(r)
  BY <1>1, <1>4, <1>9, ConstantsAssumption DEF Locked, ServerState
<1>12. Sized(r)
  <2> SUFFICES ASSUME NEW v \in s.terminals, r.owner[v] # NoClient
               PROVE  r.pty[v] = r.conn[r.owner[v]].size
    BY <1>9 DEF Sized
  <2>1. v \in Terminals
    BY <1>1 DEF ServerState
  <2>2. CASE v = t
    BY <1>1, <1>6, <1>9, <2>1, <2>2 DEF ServerState
  <2>3. CASE v # t
    <3>1. r.owner[v] = s.owner[v] /\ r.pty[v] = s.pty[v]
      BY <1>1, <1>9, <2>1, <2>3 DEF ServerState
    <3>2. s.owner[v] \in Clients /\ s.owner[v] # c
      BY <1>1, <1>4, <2>1, <3>1, ConstantsAssumption DEF ServerState, Owned
    <3> QED
      BY <1>1, <1>6, <1>9, <3>1, <3>2 DEF Sized
  <2> QED
    BY <2>2, <2>3
<1>13. Given(r, u)
  BY <1>1, <1>4, <1>9 DEF Given, ServerState
<1>14. Written(r)
  <2> SUFFICES ASSUME NEW d \in Clients
               PROVE  /\ IsStream(r, d) \/ IsPending(r, d) => r.conn[d].writer # "none"
                      /\ IsPending(r, d) => d # r.foreground
    BY DEF Written
  <2>1. CASE d = c
    BY <1>1, <1>6, <1>9, <2>1 DEF Written, IsStream, IsPending
  <2>2. CASE d # c
    BY <1>1, <1>6, <1>9, <2>2 DEF Written, IsStream, IsPending
  <2> QED
    BY <2>1, <2>2
<1>15. Front(r)
  <2>1. s.foreground # NoClient => r.conn[s.foreground] = s.conn[s.foreground]
    BY <1>1, <1>2, <1>6, <1>9 DEF ServerState
  <2> QED
    BY <1>9, <2>1 DEF Front, IsFull
<1> QED
  BY <1>3, <1>9, <1>10, <1>11, <1>12, <1>13, <1>14, <1>15 DEF Core

---------------------------------------------------------------------------
(* The actions.                                                            *)

\* What is to be shown of an action.
LEMMA Becoming ==
    ASSUME Inv, NEW s, NEW renders \in BOOLEAN, Become(s, renders),
           used' \subseteq Terminals, Core(s, used'), Front(s),
           ~due /\ ~renders => (Watched(s) => Fits(s)) /\ Shown(s)
    PROVE  Inv'
<1>1. server' = s /\ due' = (due \/ renders) /\ due \in BOOLEAN
  BY DEF Become, Inv
<1>2. due' \in BOOLEAN
  BY <1>1
<1>3. Core(server', used') /\ Front(server')
  BY <1>1
<1>4. ~due' => (Watched(server') => Fits(server')) /\ Shown(server')
  BY <1>1
<1> QED
  BY <1>2, <1>3, <1>4 DEF Inv, Core, Front, Owned, Locked, Sized, Given, Written, Watched, Fits,
                          Shown, IsStream, IsPending, IsFull

LEMMA RemoveInv ==
    ASSUME Inv, NEW c \in Clients, NEW renders \in BOOLEAN,
           Become(Remove(server, c), renders), UNCHANGED used
    PROVE  Inv'
<1> DEFINE s == Remove(server, c)
<1>1. Core(server, used) /\ Front(server) /\ used' = used /\ used \subseteq Terminals
  BY DEF Inv
<1>2. /\ Core(s, used) /\ Front(s)
      /\ Fits(server) \/ c = server.foreground => Fits(s)
      /\ s.terminals = server.terminals
      /\ c # server.foreground => s.foreground = server.foreground
      /\ s.conn = Without(server, {c})
  BY <1>1, RemoveCore
<1>3. Become(s, renders)
  OBVIOUS
<1> HIDE DEF s
<1>4. ASSUME ~due PROVE (Watched(s) => Fits(s)) /\ Shown(s)
  <2>1. (Watched(server) => Fits(server)) /\ Shown(server)
    BY <1>4 DEF Inv
  <2>2. \A d \in Clients : s.conn[d] = server.conn[d] \/ s.conn[d] = Gone
    BY <1>2 DEF Without
  <2>3. Shown(s)
    BY <1>2, <2>1, <2>2, ShownStays
  <2>4. CASE c = server.foreground
    BY <1>2, <2>3, <2>4
  <2>5. CASE c # server.foreground
    <3>1. server.foreground \in Clients \cup {NoClient}
      BY <1>1 DEF Core, ServerState
    <3>2. Watched(s) => Watched(server)
      BY <1>2, <2>5, <3>1 DEF Watched, Without
    <3> QED
      BY <1>2, <2>1, <2>3, <3>2
  <2> QED
    BY <2>4, <2>5
<1> QED
  BY <1>1, <1>2, <1>3, <1>4, Becoming

LEMMA ConnectInv ==
    ASSUME Inv, NEW c \in Clients, NEW size \in Sizes, Connect(c, size)
    PROVE  Inv'
<1> DEFINE direct == c \in DirectClients
           new == [mode |-> "app", pending |-> direct, target |-> NoTerminal,
                   size |-> size, writer |-> "open"]
           q == [server EXCEPT !.conn[c] = new]
           s == Touch(q, c)
           r == IF direct THEN s ELSE [s EXCEPT !.foreground = c]
<1>1. /\ Core(server, used) /\ Front(server) /\ used' = used /\ used \subseteq Terminals
      /\ ~Connected(server, c) /\ Become(ResizeShared(Sync(r)), TRUE)
  BY DEF Inv, Connect
<1>2. server \in ServerState /\ Owned(server) /\ Locked(server) /\ Sized(server)
      /\ Given(server, used) /\ Written(server)
  BY <1>1 DEF Core
<1>3. new \in Connection /\ direct \in BOOLEAN
  BY DEF Connection
<1>4. /\ q \in ServerState /\ q.conn = [server.conn EXCEPT ![c] = new]
      /\ q.terminals = server.terminals /\ q.owner = server.owner /\ q.locks = server.locks
      /\ q.pty = server.pty /\ q.foreground = server.foreground
  BY <1>2, <1>3 DEF ServerState
<1> HIDE DEF q
<1>5. /\ s \in ServerState /\ s.conn = q.conn
      /\ s.terminals = q.terminals /\ s.owner = q.owner /\ s.locks = q.locks
      /\ s.pty = q.pty /\ s.foreground = q.foreground
  BY <1>4, TouchCore
<1> HIDE DEF s
<1>6. /\ r \in ServerState /\ r.conn = [server.conn EXCEPT ![c] = new]
      /\ r.terminals = server.terminals /\ r.owner = server.owner /\ r.locks = server.locks
      /\ r.pty = server.pty /\ r.foreground = IF direct THEN server.foreground ELSE c
  BY <1>4, <1>5 DEF ServerState
<1> HIDE DEF r
<1>7. /\ r.conn[c].mode = "app" /\ (r.conn[c].pending <=> direct)
      /\ r.conn[c].writer = "open"
      /\ \A d \in Clients : d # c => r.conn[d] = server.conn[d]
  <2>1. r.conn[c] = new /\ \A d \in Clients : d # c => r.conn[d] = server.conn[d]
    BY <1>2, <1>6 DEF ServerState
  <2>2. new.mode = "app" /\ new.pending = direct /\ new.writer = "open"
    OBVIOUS
  <2> HIDE DEF new, direct
  <2> QED
    BY <2>1, <2>2
<1>8. server.foreground # c
  BY <1>1, ConstantsAssumption DEF Front, IsFull, Connected
<1> HIDE DEF direct, new
<1>9. Owned(r)
  BY <1>1, <1>2, <1>6, <1>7 DEF Owned, Connected
<1>10. Sized(r)
  <2> SUFFICES ASSUME NEW t \in server.terminals, server.owner[t] # NoClient
               PROVE  r.pty[t] = r.conn[server.owner[t]].size
    BY <1>6 DEF Sized
  <2>1. server.owner[t] \in Clients /\ server.conn[server.owner[t]].mode = "attach"
    BY <1>2 DEF ServerState, Owned
  <2>2. server.owner[t] # c
    BY <1>1, <2>1 DEF Connected
  <2> QED
    BY <1>2, <1>6, <1>7, <2>1, <2>2 DEF Sized
<1>11. Locked(r) /\ Given(r, used)
  BY <1>2, <1>6 DEF Locked, Given
<1>12. Written(r)
  <2> SUFFICES ASSUME NEW d \in Clients
               PROVE  /\ IsStream(r, d) \/ IsPending(r, d) => r.conn[d].writer # "none"
                      /\ IsPending(r, d) => d # r.foreground
    BY DEF Written
  <2>1. CASE d = c
    <3>1. r.conn[d].writer # "none"
      BY <1>7, <2>1
    <3>2. IsPending(r, d) => direct
      BY <1>7, <2>1 DEF IsPending
    <3>3. direct => d # r.foreground
      BY <1>6, <1>8, <2>1
    <3> QED
      BY <3>1, <3>2, <3>3
  <2>2. CASE d # c
    BY <1>2, <1>6, <1>7, <2>2 DEF Written, IsStream, IsPending
  <2> QED
    BY <2>1, <2>2
<1>13. r.foreground # NoClient => IsFull(r, r.foreground)
  <2>1. CASE direct
    <3>1. r.foreground = server.foreground
      BY <1>6, <2>1
    <3>2. server.foreground \in Clients \cup {NoClient}
      BY <1>2 DEF ServerState
    <3>3. server.foreground # NoClient =>
              IsFull(server, server.foreground) /\ r.conn[server.foreground] = server.conn[server.foreground]
      BY <1>1, <1>7, <1>8, <3>2 DEF Front
    <3> QED
      BY <3>1, <3>3 DEF IsFull
  <2>2. CASE ~direct
    BY <1>6, <1>7, <2>2 DEF IsFull
  <2> QED
    BY <2>1, <2>2
<1>14. Core(r, used)
  BY <1>6, <1>9, <1>10, <1>11, <1>12 DEF Core
<1>15. Core(Sync(r), used) /\ Front(Sync(r))
  BY <1>13, <1>14, SyncCore
<1>16. Core(ResizeShared(Sync(r)), used) /\ Front(ResizeShared(Sync(r)))
  BY <1>15, ResizeSharedCore
<1> QED
  BY <1>1, <1>16, Becoming

LEMMA AttachInv ==
    ASSUME Inv, NEW c \in Clients, NEW t \in Terminals, NEW takeover \in BOOLEAN,
           AttachTerminal(c, t, takeover)
    PROVE  Inv'
<1> DEFINE owner == server.owner[t]
           refused == Refuses(server, c, t) \/ (owner \notin {NoClient, c} /\ ~takeover)
           s == IF owner \in {NoClient, c} THEN server ELSE Remove(server, owner)
<1>1. /\ Core(server, used) /\ Front(server) /\ used' = used /\ used \subseteq Terminals
      /\ IF refused THEN Become(Remove(server, c), FALSE)
                    ELSE Become(TakeTerminal(s, c, t), TRUE)
  BY DEF Inv, AttachTerminal
<1>2. CASE refused
  <2>1. Become(Remove(server, c), FALSE)
    BY <1>1, <1>2
  <2> QED
    BY <1>1, <2>1, RemoveInv
<1>3. CASE ~refused
  <2>1. Become(TakeTerminal(s, c, t), TRUE)
    BY <1>1, <1>3
  <2>2. IsPending(server, c) /\ t \in server.terminals
    BY <1>3 DEF Refuses
  <2>3. server \in ServerState /\ Owned(server)
    BY <1>1 DEF Core
  <2>4. owner # c /\ owner \in Clients \cup {NoClient}
    BY <2>2, <2>3 DEF Owned, IsPending, ServerState
  <2>5. /\ Core(s, used) /\ Front(s) /\ IsPending(s, c)
        /\ t \in s.terminals /\ s.owner[t] = NoClient
    <3>1. CASE owner = NoClient
      BY <1>1, <2>2, <3>1
    <3>2. CASE owner # NoClient
      <4>1. owner \in Clients /\ s = Remove(server, owner)
        BY <2>4, <3>2
      <4>2. /\ Core(s, used) /\ Front(s) /\ s.terminals = server.terminals
            /\ s.conn = Without(server, {owner})
            /\ s.owner = Forget(server, {owner}).owner
        BY <1>1, <4>1, RemoveCore
      <4> HIDE DEF owner, s
      <4>4. IsStream(server, owner)
        BY <2>3, <4>1 DEF Owned, IsStream, owner
      <4>5. s.owner[t] = NoClient
        BY <1>1, <4>1, <4>2, <4>4, ForgetOwner DEF owner
      <4> QED
        BY <2>2, <2>4, <4>1, <4>2, <4>5 DEF IsPending, Without, owner
    <3> QED
      BY <3>1, <3>2
  <2> HIDE DEF s
  <2>6. Core(TakeTerminal(s, c, t), used) /\ Front(TakeTerminal(s, c, t))
    BY <2>5, TakeTerminalCore
  <2> QED
    BY <1>1, <2>1, <2>6, Becoming
<1> QED
  BY <1>2, <1>3

\* A client whose connection changes, but is neither attached before nor after.
LEMMA ConnCore ==
    ASSUME NEW s, NEW r, NEW u, Core(s, u), NEW c \in Clients, r \in ServerState,
           r.terminals = s.terminals, r.owner = s.owner, r.locks = s.locks, r.pty = s.pty,
           r.foreground = s.foreground,
           \A d \in Clients : d # c => r.conn[d] = s.conn[d],
           s.conn[c].mode # "attach", r.conn[c].mode # "attach",
           IsStream(r, c) \/ IsPending(r, c) => r.conn[c].writer # "none",
           IsPending(r, c) => c # r.foreground
    PROVE  Core(r, u)
<1>1. s \in ServerState /\ Owned(s) /\ Locked(s) /\ Sized(s) /\ Given(s, u) /\ Written(s)
  BY DEF Core
<1>2. \A t \in Terminals : s.owner[t] # c
  BY <1>1 DEF Owned
<1>3. Owned(r)
  BY <1>1, <1>2 DEF Owned
<1>4. Sized(r)
  <2> SUFFICES ASSUME NEW t \in s.terminals, s.owner[t] # NoClient
               PROVE  s.pty[t] = r.conn[s.owner[t]].size
    BY DEF Sized
  <2>1. t \in Terminals /\ s.owner[t] \in Clients
    BY <1>1 DEF ServerState
  <2> QED
    BY <1>1, <1>2, <2>1 DEF Sized
<1>5. Locked(r) /\ Given(r, u)
  BY <1>1 DEF Locked, Given
<1>6. Written(r)
  <2> SUFFICES ASSUME NEW d \in Clients
               PROVE  /\ IsStream(r, d) \/ IsPending(r, d) => r.conn[d].writer # "none"
                      /\ IsPending(r, d) => d # r.foreground
    BY DEF Written
  <2>1. CASE d = c
    BY <2>1
  <2>2. CASE d # c
    BY <1>1, <2>2 DEF Written, IsStream, IsPending
  <2> QED
    BY <2>1, <2>2
<1> QED
  BY <1>3, <1>4, <1>5, <1>6 DEF Core

LEMMA ObserveInv ==
    ASSUME Inv, NEW c \in Clients, NEW t \in Terminals, ObserveTerminal(c, t)
    PROVE  Inv'
<1>1. Core(server, used) /\ Front(server) /\ used' = used /\ used \subseteq Terminals
  BY DEF Inv, ObserveTerminal
<1>2. CASE Refuses(server, c, t)
  <2>1. Become(Remove(server, c), FALSE)
    BY <1>2 DEF ObserveTerminal
  <2> QED
    BY <1>1, <2>1, RemoveInv
<1>3. CASE ~Refuses(server, c, t)
  <2> DEFINE q == [server EXCEPT !.conn[c].mode = "observe", !.conn[c].target = t,
                                 !.conn[c].pending = FALSE]
             s == Touch(q, c)
  <2>1. IsPending(server, c) /\ server \in ServerState /\ Written(server)
    BY <1>1, <1>3 DEF Refuses, Core
  <2>2. c # server.foreground
    BY <2>1 DEF Written
  <2>3. server.conn[c] \in Connection /\ server.conn[c].mode = "app"
    BY <2>1 DEF ServerState, IsPending
  <2>4. q \in ServerState
    <3>1. [server.conn[c] EXCEPT !.mode = "observe", !.target = t, !.pending = FALSE] \in Connection
      BY <2>3 DEF Connection
    <3>2. q = [server EXCEPT !.conn = [server.conn EXCEPT ![c] =
                 [server.conn[c] EXCEPT !.mode = "observe", !.target = t, !.pending = FALSE]]]
      BY <2>1 DEF ServerState
    <3> QED
      BY <2>1, <3>1, <3>2 DEF ServerState
  <2>5. /\ q.terminals = server.terminals /\ q.owner = server.owner /\ q.locks = server.locks
        /\ q.pty = server.pty /\ q.foreground = server.foreground /\ q.effective = server.effective
        /\ q.conn[c].mode = "observe" /\ ~q.conn[c].pending
        /\ q.conn[c].writer = server.conn[c].writer
        /\ \A d \in Clients : d # c => q.conn[d] = server.conn[d]
    BY <2>1, <2>3 DEF ServerState, Connection
  <2>6. Become(s, TRUE)
    <3>1. s.foreground # c
      BY <2>2, <2>4, <2>5, TouchCore
    <3> QED
      BY <1>3, <2>2, <3>1 DEF ObserveTerminal
  <2> HIDE DEF q
  <2>7. /\ s \in ServerState
        /\ s.terminals = q.terminals /\ s.conn = q.conn /\ s.owner = q.owner
        /\ s.locks = q.locks /\ s.pty = q.pty /\ s.foreground = q.foreground
        /\ s.effective = q.effective
    BY <2>4, TouchCore
  <2> HIDE DEF s
  <2>8. /\ s.conn[c].mode = "observe" /\ s.conn[c].writer # "none" /\ ~IsPending(s, c)
        /\ \A d \in Clients : d # c => s.conn[d] = server.conn[d]
    BY <2>1, <2>5, <2>7 DEF Written, IsPending
  <2>9. Core(s, used)
    BY <1>1, <2>3, <2>5, <2>7, <2>8, ConnCore
  <2>10. Front(s)
    <3>1. server.foreground # NoClient => s.conn[server.foreground] = server.conn[server.foreground]
      BY <2>1, <2>2, <2>8 DEF ServerState
    <3> QED
      BY <1>1, <2>5, <2>7, <3>1 DEF Front, IsFull
  <2> QED
    BY <1>1, <2>6, <2>9, <2>10, Becoming
<1> QED
  BY <1>2, <1>3

\* Of a state whose effective size is right, Sync changes nothing.
LEMMA SyncIdle ==
    ASSUME NEW s, NEW u, Core(s, u), Front(s)
    PROVE  Sync(s) = s
<1>1. s \in ServerState
  BY DEF Core
<1>2. Sync(s) = [s EXCEPT !.effective = IF s.foreground = NoClient THEN MinSize
                                        ELSE s.conn[s.foreground].size]
  BY SyncCore DEF Front
<1>3. Sync(s) = [s EXCEPT !.effective = s.effective]
  BY <1>2 DEF Front
<1> QED
  BY <1>1, <1>3 DEF ServerState

LEMMA InputInv ==
    ASSUME Inv, NEW c \in Clients, NEW interacts \in BOOLEAN, NEW detaches \in BOOLEAN,
           Input(c, interacts, detaches)
    PROVE  Inv'
<1> DEFINE changed == interacts /\ Connected(server, c) /\ server.foreground # c
           promoted == IF interacts THEN Promote(server, c) ELSE server
           p == IF changed THEN ResizeShared(promoted) ELSE promoted
           s == Sync(p)
<1>1. /\ Core(server, used) /\ Front(server) /\ used' = used /\ used \subseteq Terminals
      /\ (detaches => interacts)
      /\ ~IsPending(server, c) /\ ~IsStream(server, c)
      /\ IF ~(detaches /\ Connected(s, c)) THEN Become(s, interacts)
         ELSE Become(IF s.conn[c].writer = "closed" THEN Remove(s, c)
                     ELSE [s EXCEPT !.conn[c].writer = "none"], FALSE)
  BY DEF Inv, Input
<1>2. server \in ServerState
  BY <1>1 DEF Core
<1>3. Connected(server, c) => IsFull(server, c)
  <2>1. server.conn[c].mode \in {"gone", "app", "attach", "observe"}
    BY <1>2 DEF ServerState, Connection
  <2> QED
    BY <1>1, <2>1 DEF Connected, IsFull, IsPending, IsStream
<1>4. /\ Core(promoted, used) /\ Front(promoted)
      /\ promoted.terminals = server.terminals /\ promoted.conn = server.conn
      /\ (interacts /\ Connected(server, c) => promoted.foreground = c)
  <2>1. CASE interacts
    <3>1. /\ Core(Promote(server, c), used) /\ Front(Promote(server, c))
          /\ Promote(server, c).terminals = server.terminals
          /\ Promote(server, c).conn = server.conn
          /\ Promote(server, c).foreground = IF Connected(server, c) THEN c ELSE server.foreground
      BY <1>1, <1>3, PromoteCore
    <3> QED
      BY <2>1, <3>1
  <2>2. CASE ~interacts
    BY <1>1, <2>2
  <2> QED
    BY <2>1, <2>2
<1>5. ~interacts => promoted = server /\ p = server
  OBVIOUS
<1> HIDE DEF promoted
<1>6. /\ Core(p, used) /\ Front(p)
      /\ p.terminals = server.terminals /\ p.conn = server.conn
      /\ (interacts /\ Connected(server, c) => p.foreground = c)
  <2>1. CASE changed
    <3>1. /\ Core(ResizeShared(promoted), used) /\ Front(ResizeShared(promoted))
          /\ ResizeShared(promoted).terminals = promoted.terminals
          /\ ResizeShared(promoted).conn = promoted.conn
          /\ ResizeShared(promoted).foreground = promoted.foreground
      BY <1>4, ResizeSharedCore
    <3>2. p = ResizeShared(promoted)
      BY <2>1
    <3> HIDE DEF p, changed
    <3> QED
      BY <1>4, <3>1, <3>2
  <2>2. CASE ~changed
    <3>1. p = promoted
      BY <2>2
    <3> HIDE DEF p, changed
    <3> QED
      BY <1>4, <3>1
  <2> QED
    BY <2>1, <2>2
<1> HIDE DEF p
<1>7. s = p
  BY <1>6, SyncIdle
<1> HIDE DEF s
<1>8. /\ Core(s, used) /\ Front(s)
      /\ s.terminals = server.terminals /\ s.conn = server.conn
      /\ (interacts /\ Connected(server, c) => s.foreground = c)
      /\ (~interacts => s = server)
  BY <1>5, <1>6, <1>7
<1>9. CASE ~(detaches /\ Connected(s, c))
  <2>1. Become(s, interacts)
    BY <1>1, <1>9
  <2>2. ~due /\ ~interacts => (Watched(s) => Fits(s)) /\ Shown(s)
    BY <1>8 DEF Inv
  <2> QED
    BY <1>1, <1>8, <2>1, <2>2, Becoming
<1>10. CASE detaches /\ Connected(s, c)
  <2>1. s.foreground = c /\ IsFull(s, c)
    BY <1>1, <1>3, <1>8, <1>10 DEF Connected, IsFull
  <2>2. CASE s.conn[c].writer = "closed"
    <3> DEFINE r == Remove(s, c)
    <3>1. Become(r, FALSE)
      BY <1>1, <1>10, <2>2
    <3>2. /\ Core(r, used) /\ Front(r) /\ Fits(r) /\ r.terminals = s.terminals
          /\ r.conn = Without(s, {c})
      BY <1>8, <2>1, RemoveParts
    <3> HIDE DEF r
    <3>3. \A d \in Clients : r.conn[d] = server.conn[d] \/ r.conn[d] = Gone
      BY <1>8, <3>2 DEF Without
    <3>4. Shown(server) => Shown(r)
      BY <1>8, <3>2, <3>3, ShownStays
    <3>5. ~due => (Watched(r) => Fits(r)) /\ Shown(r)
      BY <3>2, <3>4 DEF Inv
    <3> QED
      BY <1>1, <3>1, <3>2, <3>5, Becoming
  <2>3. CASE s.conn[c].writer # "closed"
    <3> DEFINE r == [s EXCEPT !.conn[c].writer = "none"]
    <3>1. Become(r, FALSE)
      BY <1>1, <1>10, <2>3
    <3>2. s \in ServerState /\ s.conn[c] \in Connection
      BY <1>8 DEF Core, ServerState
    <3>3. /\ r \in ServerState
          /\ r.terminals = s.terminals /\ r.owner = s.owner /\ r.locks = s.locks
          /\ r.pty = s.pty /\ r.foreground = s.foreground /\ r.effective = s.effective
          /\ \A d \in Clients : d # c => r.conn[d] = s.conn[d]
          /\ r.conn[c] = [s.conn[c] EXCEPT !.writer = "none"]
      <4>1. [s.conn[c] EXCEPT !.writer = "none"] \in Connection
        BY <3>2 DEF Connection
      <4> QED
        BY <3>2, <4>1 DEF ServerState
    <3>4. /\ r.conn[c].mode = s.conn[c].mode /\ r.conn[c].pending = s.conn[c].pending
          /\ r.conn[c].size = s.conn[c].size /\ r.conn[c].writer = "none"
      BY <3>2, <3>3 DEF Connection
    <3> HIDE DEF r
    <3>5. s.conn[c].mode = "app" /\ ~s.conn[c].pending
      BY <2>1 DEF IsFull
    <3>6. ~IsStream(r, c) /\ ~IsPending(r, c) /\ IsFull(r, c)
      BY <3>4, <3>5 DEF IsStream, IsPending, IsFull
    <3>7. Core(r, used)
      <4>1. s.conn[c].mode # "attach" /\ r.conn[c].mode # "attach"
        BY <3>4, <3>5
      <4>2. /\ IsStream(r, c) \/ IsPending(r, c) => r.conn[c].writer # "none"
            /\ IsPending(r, c) => c # r.foreground
        BY <3>6
      <4>3. /\ r \in ServerState
            /\ r.terminals = s.terminals /\ r.owner = s.owner /\ r.locks = s.locks
            /\ r.pty = s.pty /\ r.foreground = s.foreground
            /\ \A d \in Clients : d # c => r.conn[d] = s.conn[d]
        BY <3>3
      <4>4. Core(s, used)
        BY <1>8
      <4> QED
        BY <4>1, <4>2, <4>3, <4>4, ConnCore
    <3>8. Front(r)
      BY <1>8, <2>1, <3>3, <3>4, <3>6 DEF Front
    <3>9. ~due => (Watched(r) => Fits(r)) /\ Shown(r)
      <4>1. ~Watched(r)
        BY <2>1, <3>3, <3>4 DEF Watched
      <4>2. Shown(server) => Shown(r)
        <5> SUFFICES ASSUME Shown(server), NEW d \in Clients, IsStream(r, d)
                     PROVE  r.conn[d].target \in r.terminals
          BY Zenon DEF Shown
        <5>1. d # c /\ r.conn[d] = s.conn[d]
          BY <3>3, <3>6
        <5> HIDE DEF s
        <5> QED
          BY <1>8, <3>3, <5>1 DEF Shown, IsStream
      <4> QED
        BY <4>1, <4>2 DEF Inv
    <3> QED
      BY <1>1, <3>1, <3>7, <3>8, <3>9, Becoming
  <2> QED
    BY <2>2, <2>3
<1> QED
  BY <1>9, <1>10

LEMMA ResizeInv ==
    ASSUME Inv, NEW c \in Clients, NEW size \in Sizes, Resize(c, size)
    PROVE  Inv'
<1> DEFINE s == IF Connected(server, c) THEN [server EXCEPT !.conn[c].size = size] ELSE server
           t == s.conn[c].target
           m == s.conn[c].mode
<1>1. /\ Core(server, used) /\ Front(server) /\ used' = used /\ used \subseteq Terminals
      /\ ~IsPending(server, c)
      /\ Become(CASE m = "attach" -> IF t \in s.terminals THEN [s EXCEPT !.pty[t] = size] ELSE s
                  [] m = "observe" -> s
                  [] OTHER -> ResizeShared(Promote(s, c)), TRUE)
  BY DEF Inv, Resize
<1>2. /\ server \in ServerState /\ server.conn[c] \in Connection
      /\ Owned(server) /\ Locked(server) /\ Sized(server) /\ Given(server, used) /\ Written(server)
  BY <1>1 DEF Core, ServerState
<1>3. /\ s \in ServerState
      /\ s.terminals = server.terminals /\ s.owner = server.owner /\ s.locks = server.locks
      /\ s.pty = server.pty /\ s.foreground = server.foreground
      /\ s.effective = server.effective
      /\ \A d \in Clients : d # c => s.conn[d] = server.conn[d]
      /\ s.conn[c].mode = server.conn[c].mode /\ s.conn[c].target = server.conn[c].target
      /\ s.conn[c].writer = server.conn[c].writer
      /\ (s.conn[c].pending <=> server.conn[c].pending)
      /\ (Connected(server, c) => s.conn[c].size = size)
      /\ (~Connected(server, c) => s = server)
  <2>1. CASE Connected(server, c)
    <3>1. [server.conn[c] EXCEPT !.size = size] \in Connection
      BY <1>2 DEF Connection
    <3>2. s = [server EXCEPT !.conn = [server.conn EXCEPT ![c] =
                                         [server.conn[c] EXCEPT !.size = size]]]
      BY <1>2, <2>1 DEF ServerState
    <3> QED
      BY <1>2, <2>1, <3>1, <3>2 DEF ServerState, Connection
  <2>2. CASE ~Connected(server, c)
    BY <1>2, <2>2
  <2> QED
    BY <2>1, <2>2
<1> HIDE DEF s
<1>4. server.foreground # NoClient /\ server.foreground # c =>
          s.conn[server.foreground] = server.conn[server.foreground]
  BY <1>2, <1>3 DEF ServerState
<1>5. CASE m = "attach"
  <2> DEFINE r == IF t \in s.terminals THEN [s EXCEPT !.pty[t] = size] ELSE s
  <2>1. Become(r, TRUE)
    BY <1>1, <1>5
  <2>2. /\ r \in ServerState /\ r.terminals = s.terminals /\ r.owner = s.owner
        /\ r.locks = s.locks /\ r.conn = s.conn /\ r.foreground = s.foreground
        /\ r.effective = s.effective
        /\ \A v \in s.terminals : r.pty[v] = IF v = t THEN size ELSE s.pty[v]
    BY <1>3 DEF ServerState
  <2> HIDE DEF r
  <2>3. Owned(r)
    <3> SUFFICES ASSUME NEW v \in Terminals, NEW d \in Clients
                 PROVE  r.owner[v] = d <=> r.conn[d].mode = "attach" /\ r.conn[d].target = v
      BY DEF Owned
    <3>1. server.owner[v] = d <=> server.conn[d].mode = "attach" /\ server.conn[d].target = v
      BY <1>2 DEF Owned
    <3> QED
      BY <1>3, <2>2, <3>1
  <2>4. Sized(r)
    <3> SUFFICES ASSUME NEW v \in s.terminals, s.owner[v] # NoClient
                 PROVE  r.pty[v] = s.conn[s.owner[v]].size
      BY <2>2 DEF Sized
    <3>1. v \in Terminals /\ s.owner[v] \in Clients
      BY <1>3 DEF ServerState
    <3>2. CASE s.owner[v] = c
      BY <1>2, <1>3, <1>5, <2>2, <3>1, <3>2 DEF Owned, Connected
    <3>3. CASE s.owner[v] # c
      <4>1. ASSUME v = t PROVE FALSE
        <5>1. server.conn[c].mode = "attach" /\ server.conn[c].target = v
          BY <1>3, <1>5, <4>1
        <5> QED
          BY <1>2, <1>3, <3>1, <3>3, <5>1 DEF Owned
      <4> QED
        BY <1>2, <1>3, <2>2, <3>1, <3>3, <4>1 DEF Sized
    <3> QED
      BY <3>2, <3>3
  <2>5. Locked(r) /\ Given(r, used)
    BY <1>2, <1>3, <2>2 DEF Locked, Given
  <2>6. Written(r)
    <3> SUFFICES ASSUME NEW d \in Clients
                 PROVE  /\ IsStream(r, d) \/ IsPending(r, d) => r.conn[d].writer # "none"
                        /\ IsPending(r, d) => d # r.foreground
      BY DEF Written
    <3>1. CASE d = c
      BY <1>2, <1>3, <2>2, <3>1 DEF Written, IsStream, IsPending
    <3>2. CASE d # c
      BY <1>2, <1>3, <2>2, <3>2 DEF Written, IsStream, IsPending
    <3> QED
      BY <3>1, <3>2
  <2>7. Front(r)
    <3>1. server.foreground # c \/ server.foreground = NoClient
      BY <1>1, <1>3, <1>5 DEF Front, IsFull
    <3> QED
      BY <1>1, <1>3, <1>4, <2>2, <3>1 DEF Front, IsFull
  <2> QED
    BY <1>1, <2>1, <2>2, <2>3, <2>4, <2>5, <2>6, <2>7, Becoming DEF Core
<1>6. m # "attach" => Core(s, used)
  <2>1. /\ IsStream(s, c) \/ IsPending(s, c) => s.conn[c].writer # "none"
        /\ IsPending(s, c) => c # s.foreground
    BY <1>2, <1>3 DEF Written, IsStream, IsPending
  <2> QED
    BY <1>1, <1>3, <2>1, ConnCore
<1>7. CASE m = "observe"
  <2>1. Become(s, TRUE)
    BY <1>1, <1>7
  <2>2. server.foreground # c \/ server.foreground = NoClient
    BY <1>1, <1>3, <1>7 DEF Front, IsFull
  <2>3. Front(s)
    BY <1>1, <1>3, <1>4, <2>2 DEF Front, IsFull
  <2> QED
    BY <1>1, <1>6, <1>7, <2>1, <2>3, Becoming
<1>8. CASE m # "attach" /\ m # "observe"
  <2> DEFINE p == Promote(s, c)
  <2>1. Become(ResizeShared(p), TRUE)
    BY <1>1, <1>8
  <2>2. IF Connected(s, c) THEN IsFull(s, c) ELSE Front(s)
    <3>1. server.conn[c].mode \in {"gone", "app", "attach", "observe"}
      BY <1>2 DEF Connection
    <3> QED
      BY <1>1, <1>3, <1>8, <3>1 DEF Connected, IsFull, IsPending
  <2>3. Core(p, used) /\ Front(p)
    BY <1>6, <1>8, <2>2, PromoteCore
  <2> HIDE DEF p
  <2>4. Core(ResizeShared(p), used) /\ Front(ResizeShared(p))
    BY <2>3, ResizeSharedCore
  <2> QED
    BY <1>1, <2>1, <2>4, Becoming
<1> QED
  BY <1>5, <1>7, <1>8

LEMMA WriterEndsInv ==
    ASSUME Inv, NEW c \in Clients, WriterEnds(c)
    PROVE  Inv'
<1>1. /\ Core(server, used) /\ Front(server) /\ used' = used /\ due' = due
      /\ server.conn[c].writer = "open"
      /\ server' = [server EXCEPT !.conn[c].writer = "closed"]
  BY DEF Inv, WriterEnds
<1>2. server \in ServerState /\ server.conn[c] \in Connection
  BY <1>1 DEF Core, ServerState
<1>3. [server.conn[c] EXCEPT !.writer = "closed"] \in Connection
  BY <1>2 DEF Connection
<1>4. server' = [server EXCEPT !.conn = [server.conn EXCEPT ![c] =
                                           [server.conn[c] EXCEPT !.writer = "closed"]]]
  BY <1>1, <1>2 DEF ServerState
<1>5. /\ server' \in ServerState
      /\ server'.terminals = server.terminals /\ server'.owner = server.owner
      /\ server'.locks = server.locks /\ server'.pty = server.pty
      /\ server'.foreground = server.foreground /\ server'.effective = server.effective
      /\ \A d \in Clients :
             /\ server'.conn[d].mode = server.conn[d].mode
             /\ server'.conn[d].target = server.conn[d].target
             /\ server'.conn[d].size = server.conn[d].size
             /\ server'.conn[d].pending = server.conn[d].pending
             /\ server'.conn[d].writer # "none" <=> server.conn[d].writer # "none"
  <2> DEFINE n == [server.conn[c] EXCEPT !.writer = "closed"]
  <2>1. /\ n \in Connection /\ n.mode = server.conn[c].mode /\ n.target = server.conn[c].target
        /\ n.size = server.conn[c].size /\ n.pending = server.conn[c].pending
        /\ n.writer = "closed"
    BY <1>2, <1>3 DEF Connection
  <2>2. server' = [server EXCEPT !.conn = [server.conn EXCEPT ![c] = n]]
    BY <1>4
  <2> HIDE DEF n
  <2>3. /\ server' \in ServerState
        /\ server'.terminals = server.terminals /\ server'.owner = server.owner
        /\ server'.locks = server.locks /\ server'.pty = server.pty
        /\ server'.foreground = server.foreground /\ server'.effective = server.effective
        /\ server'.conn = [server.conn EXCEPT ![c] = n]
    BY <1>2, <2>1, <2>2 DEF ServerState
  <2>4. server'.conn[c] = n /\ \A d \in Clients : d # c => server'.conn[d] = server.conn[d]
    BY <1>2, <2>3 DEF ServerState
  <2> QED
    BY <1>1, <2>1, <2>3, <2>4
<1>6. \A d \in Clients : /\ IsStream(server, d)' <=> IsStream(server, d)
                         /\ IsPending(server, d)' <=> IsPending(server, d)
                         /\ IsFull(server, d)' <=> IsFull(server, d)
  BY <1>5 DEF IsStream, IsPending, IsFull
<1>7. server.foreground # NoClient => server.foreground \in Clients
  BY <1>2 DEF ServerState
<1>8. Owned(server)' /\ Locked(server)' /\ Given(server, used)'
  BY <1>1, <1>5 DEF Core, Owned, Locked, Given
<1>9. Sized(server)'
  <2> SUFFICES ASSUME NEW t \in server.terminals, server.owner[t] # NoClient
               PROVE  server.pty[t] = server'.conn[server.owner[t]].size
    BY <1>5 DEF Sized
  <2>1. server.owner[t] \in Clients
    BY <1>2 DEF ServerState
  <2> QED
    BY <1>1, <1>5, <2>1 DEF Core, Sized
<1>10. Written(server)'
  BY <1>1, <1>5, <1>6 DEF Core, Written
<1>11. Front(server)'
  BY <1>1, <1>5, <1>6, <1>7 DEF Front
<1>12. /\ Watched(server)' => Watched(server)
       /\ Fits(server) => Fits(server)'
       /\ Shown(server) => Shown(server)'
  BY <1>5, <1>6, <1>7 DEF Watched, Fits, Shown
<1> QED
  BY <1>1, <1>5, <1>8, <1>9, <1>10, <1>11, <1>12 DEF Inv, Core

LEMMA OpenTerminalInv ==
    ASSUME Inv, NEW t \in Terminals, NEW size \in Sizes, OpenTerminal(t, size)
    PROVE  Inv'
<1> DEFINE r == [server EXCEPT !.terminals = @ \cup {t}, !.pty[t] = size]
<1>1. /\ Core(server, used) /\ Front(server) /\ used' = used \cup {t} /\ t \notin used
      /\ used' \subseteq Terminals /\ Become(r, TRUE)
  BY DEF Inv, OpenTerminal
<1>2. /\ server \in ServerState
      /\ Owned(server) /\ Locked(server) /\ Sized(server) /\ Given(server, used) /\ Written(server)
  BY <1>1 DEF Core
<1>3. /\ r \in ServerState /\ r.terminals = server.terminals \cup {t}
      /\ r.conn = server.conn /\ r.owner = server.owner /\ r.locks = server.locks
      /\ r.foreground = server.foreground /\ r.effective = server.effective
      /\ \A v \in Terminals : v # t => r.pty[v] = server.pty[v]
  BY <1>2 DEF ServerState
<1> HIDE DEF r
<1>4. server.owner[t] = NoClient /\ t \notin server.locks /\ t \notin server.terminals
  BY <1>1, <1>2 DEF Given
<1>5. Owned(r) /\ Written(r) /\ Front(r)
  BY <1>1, <1>2, <1>3 DEF Owned, Written, IsStream, IsPending, Front, IsFull
<1>6. Locked(r) /\ Sized(r)
  BY <1>2, <1>3, <1>4 DEF Locked, Sized, ServerState
<1>7. Given(r, used')
  BY <1>1, <1>2, <1>3 DEF Given
<1> QED
  BY <1>1, <1>3, <1>5, <1>6, <1>7, Becoming DEF Core

\* A terminal goes, with its lock or without.
LEMMA GoneCore ==
    ASSUME NEW s, NEW u, Core(s, u), Front(s), NEW t \in s.terminals, NEW r,
           r \in ServerState, r.terminals = s.terminals \ {t},
           r.locks = s.locks \/ r.locks = s.locks \ {t},
           r.conn = s.conn, r.owner = s.owner, r.pty = s.pty,
           r.foreground = s.foreground, r.effective = s.effective
    PROVE  Core(r, u) /\ Front(r)
<1>1. /\ s \in ServerState
      /\ Owned(s) /\ Locked(s) /\ Sized(s) /\ Given(s, u) /\ Written(s)
  BY DEF Core
<1>2. r.locks \subseteq s.locks /\ (\A v \in s.locks : v # t => v \in r.locks)
  OBVIOUS
<1>3. Owned(r) /\ Written(r) /\ Front(r)
  BY <1>1, <1>2 DEF Owned, Written, IsStream, IsPending, Front, IsFull
<1>4. Locked(r) /\ Sized(r) /\ Given(r, u)
  BY <1>1, <1>2 DEF Locked, Sized, Given
<1> QED
  BY <1>2, <1>3, <1>4 DEF Core

LEMMA CloseTerminalInv ==
    ASSUME Inv, NEW t \in Terminals, CloseTerminal(t)
    PROVE  Inv'
<1> DEFINE r == [server EXCEPT !.terminals = @ \ {t},
                               !.locks = IF t \in Popups THEN @ \ {t} ELSE @]
<1>1. /\ Core(server, used) /\ Front(server) /\ used' = used /\ used \subseteq Terminals
      /\ t \in server.terminals /\ Become(r, TRUE)
  BY DEF Inv, CloseTerminal
<1>2. /\ r \in ServerState /\ r.terminals = server.terminals \ {t}
      /\ r.locks = server.locks \/ r.locks = server.locks \ {t}
      /\ r.conn = server.conn /\ r.owner = server.owner /\ r.pty = server.pty
      /\ r.foreground = server.foreground /\ r.effective = server.effective
  BY <1>1 DEF Core, ServerState
<1> HIDE DEF r
<1>3. Core(r, used) /\ Front(r)
  BY <1>1, <1>2, GoneCore
<1> QED
  BY <1>1, <1>3, Becoming

LEMMA TerminalDiesInv ==
    ASSUME Inv, NEW t \in Terminals, TerminalDies(t)
    PROVE  Inv'
<1> DEFINE r == [server EXCEPT !.terminals = @ \ {t}]
           C == {c \in Clients : IsStream(server, c) /\ server.conn[c].target = t}
<1>1. /\ Core(server, used) /\ Front(server) /\ used' = used /\ used \subseteq Terminals
      /\ t \in server.terminals /\ Become(RemoveOthers(r, C), TRUE)
  BY DEF Inv, TerminalDies
<1>2. Core(r, used) /\ Front(r) /\ r.foreground = server.foreground
  <2>1. /\ r \in ServerState /\ r.terminals = server.terminals \ {t}
        /\ r.locks = server.locks /\ r.conn = server.conn /\ r.owner = server.owner
        /\ r.pty = server.pty
        /\ r.foreground = server.foreground /\ r.effective = server.effective
    BY <1>1 DEF Core, ServerState
  <2> HIDE DEF r, C
  <2> QED
    BY <1>1, <2>1, GoneCore
<1>3. server.foreground \notin C /\ C \in SUBSET Clients
  BY <1>1, ConstantsAssumption DEF Front, IsFull, IsStream
<1> HIDE DEF r, C
<1>4. Core(RemoveOthers(r, C), used) /\ Front(RemoveOthers(r, C))
  BY <1>2, <1>3, RemoveOthersCore
<1> QED
  BY <1>1, <1>4, Becoming

LEMMA Rendered ==
    ASSUME NEW s, server' = s, due' = FALSE, UNCHANGED used, used \subseteq Terminals,
           Core(s, used), Front(s), Watched(s) => Fits(s), Shown(s)
    PROVE  Inv'
<1>1. used' = used /\ server' = s /\ due' \in BOOLEAN
  OBVIOUS
<1>2. /\ Core(server', used') /\ Front(server')
      /\ ~due' => (Watched(server') => Fits(server')) /\ Shown(server')
  BY <1>1
<1> QED
  BY <1>1, <1>2 DEF Inv, Core, Front, Owned, Locked, Sized, Given, Written, Watched, Fits,
                    Shown, IsStream, IsPending, IsFull

LEMMA RenderInv ==
    ASSUME Inv, Render
    PROVE  Inv'
<1> DEFINE Target(c) == (IsFull(server, c) \/ IsStream(server, c)) /\ server.conn[c].writer # "none"
           f == server.foreground
           s == IF f # NoClient /\ Target(f) THEN Fit(server, server.conn[f].size) ELSE server
           lost == {c \in Clients : Target(c) /\ IsStream(s, c) /\ s.conn[c].target \notin s.terminals}
<1> HIDE DEF Target, s, lost
<1>1. /\ Core(server, used) /\ Front(server) /\ used' = used /\ used \subseteq Terminals
      /\ due' = FALSE
  <2>1. due' = FALSE /\ UNCHANGED used
    BY Zenon DEF Render
  <2> QED
    BY <2>1 DEF Inv
<1>2. PICK broken \in SUBSET {c \in Clients : Target(c) /\ s.conn[c].writer = "closed"} :
          server' = IF f \in broken THEN Remove(RemoveOthers(s, (lost \cup broken) \ {f}), f)
                                    ELSE RemoveOthers(s, (lost \cup broken) \ {f})
  BY Zenon DEF Render, Target, s, lost
<1> DEFINE C == (lost \cup broken) \ {f}
           others == RemoveOthers(s, C)
<1> HIDE DEF C, others
<1>3. server \in ServerState
  BY <1>1 DEF Core
<1>4. f # NoClient => f \in Clients /\ IsFull(server, f) /\ server.conn[f].size \in Sizes \cup {MinSize}
  BY <1>1, <1>3 DEF Front, ServerState, Connection
<1>5. /\ Core(s, used) /\ Front(s)
      /\ s.terminals = server.terminals /\ s.conn = server.conn /\ s.foreground = f
      /\ Watched(s) => Fits(s)
  <2>1. CASE f # NoClient /\ Target(f)
    <3>1. s = Fit(server, server.conn[f].size)
      BY <2>1 DEF s
    <3>2. /\ s.terminals = server.terminals /\ s.conn = server.conn /\ s.foreground = f
          /\ s.effective = server.effective /\ s.owner = server.owner
      BY <1>3, <3>1, FitRest
    <3>3. /\ Core(Fit(server, server.conn[f].size), used)
          /\ \A t \in server.terminals : server.owner[t] = NoClient =>
                 Fit(server, server.conn[f].size).pty[t] = server.conn[f].size
      <4> DEFINE z == server.conn[f].size
      <4>1. z \in Sizes \cup {MinSize}
        BY <1>4, <2>1
      <4> HIDE DEF z
      <4>2. /\ Core(Fit(server, z), used)
            /\ \A t \in server.terminals : server.owner[t] = NoClient => Fit(server, z).pty[t] = z
        BY <1>1, <4>1, FitCore
      <4> QED
        BY <4>2 DEF z
    <3>4. /\ Core(s, used)
          /\ \A t \in server.terminals : server.owner[t] = NoClient => s.pty[t] = server.conn[f].size
      BY <3>1, <3>3
    <3>5. Front(s) /\ Fits(s)
      BY <1>1, <3>2, <3>4 DEF Front, Fits, IsFull
    <3> QED
      BY <3>2, <3>4, <3>5
  <2>2. CASE ~(f # NoClient /\ Target(f))
    <3>1. s = server
      BY <2>2 DEF s
    <3>2. ~Watched(server)
      BY <1>4, <2>2 DEF Watched, Target
    <3> QED
      BY <1>1, <3>1, <3>2
  <2> QED
    BY <2>1, <2>2
<1>6. \A c \in Clients : IsStream(server, c) => Target(c)
  BY <1>1 DEF Core, Written, Target
<1>7. C \in SUBSET Clients /\ s.foreground \notin C
  BY <1>5 DEF C, lost
<1>8. \A c \in Clients : IsStream(s, c) /\ s.conn[c].target \notin s.terminals => c \in C
  <2> SUFFICES ASSUME NEW c \in Clients, IsStream(s, c), s.conn[c].target \notin s.terminals
               PROVE  c \in C
    BY Zenon
  <2>1. IsStream(server, c)
    BY <1>5 DEF IsStream
  <2>2. c # f
    BY <1>4, <2>1, ConstantsAssumption DEF IsFull, IsStream
  <2> QED
    BY <1>6, <2>1, <2>2 DEF C, lost
<1>9. /\ Core(others, used) /\ Front(others)
      /\ Fits(s) => Fits(others)
      /\ others.terminals = s.terminals
      /\ others.foreground = s.foreground
      /\ others.conn = Without(s, C)
  BY <1>5, <1>7, RemoveOthersCore DEF others
<1>10. Shown(others)
  BY <1>8, <1>9 DEF Shown, IsStream, Gone, Without
<1>11. CASE f \in broken
  <2> DEFINE r == Remove(others, f)
  <2>1. server' = r /\ f \in Clients
    BY <1>2, <1>11, Zenon DEF C, others
  <2>2. /\ Core(r, used) /\ Front(r)
        /\ Fits(others) \/ f = others.foreground => Fits(r)
        /\ r.terminals = others.terminals
        /\ r.conn = Without(others, {f})
    BY <1>9, <2>1, RemoveParts
  <2> HIDE DEF r
  <2>3. Fits(r)
    BY <1>5, <1>9, <2>2
  <2>4. \A c \in Clients : r.conn[c] = others.conn[c] \/ r.conn[c] = Gone
    BY <2>2 DEF Without
  <2>5. Shown(r)
    BY <1>10, <2>2, <2>4, ShownStays
  <2> QED
    BY <1>1, <2>1, <2>2, <2>3, <2>5, Rendered, Zenon
<1>12. CASE f \notin broken
  <2>1. server' = others
    BY <1>2, <1>12, Zenon DEF C, others
  <2>2. Watched(others) => Fits(others)
    <3> SUFFICES ASSUME Watched(others) PROVE Fits(others)
      OBVIOUS
    <3>1. f # NoClient /\ f \in Clients /\ f \notin C
      BY <1>4, <1>5, <1>7, <1>9 DEF Watched
    <3>2. Watched(s)
      BY <1>5, <1>9, <3>1 DEF Watched, Without
    <3> QED
      BY <1>5, <1>9, <3>2
  <2> QED
    BY <1>1, <1>9, <1>10, <2>1, <2>2, Rendered
<1> QED
  BY <1>11, <1>12

LEMMA HandoffInv ==
    ASSUME Inv, StartHandoff \/ RollBack
    PROVE  Inv'
<1>1. Core(server, used) /\ Front(server) /\ used' = used /\ used \subseteq Terminals
  BY DEF Inv, StartHandoff, RollBack
<1>2. ASSUME NEW s, Core(s, used), Front(s), NEW b \in BOOLEAN
      PROVE  LET r == [s EXCEPT !.handoff = b]
             IN  /\ Core(r, used) /\ Front(r) /\ r.conn = s.conn /\ r.pty = s.pty
                 /\ r.terminals = s.terminals /\ r.foreground = s.foreground /\ r.owner = s.owner
  <2> DEFINE r == [s EXCEPT !.handoff = b]
  <2>1. s \in ServerState
    BY <1>2 DEF Core
  <2>2. /\ r \in ServerState
        /\ r.terminals = s.terminals /\ r.conn = s.conn /\ r.owner = s.owner
        /\ r.locks = s.locks /\ r.pty = s.pty /\ r.foreground = s.foreground
        /\ r.effective = s.effective
    BY <2>1 DEF ServerState
  <2>3. \A c \in Clients : IsPending(s, c) => c # r.foreground
    BY <1>2, <2>2 DEF Core, Written
  <2> HIDE DEF r
  <2>4. Core(r, used)
    BY <1>2, <2>2, <2>3, CoreElsewhere
  <2>5. Front(r)
    BY <1>2, <2>2 DEF Front, IsFull
  <2> QED
    BY <2>2, <2>4, <2>5 DEF r
<1>3. CASE StartHandoff
  <2> DEFINE C == {c \in Clients : Connected(server, c)}
             p == Forget(server, C)
             q == [p EXCEPT !.foreground = NoClient]
             r == [Sync(q) EXCEPT !.handoff = TRUE]
  <2>1. Become(r, FALSE)
    BY <1>3 DEF StartHandoff
  <2> HIDE DEF q, r
  <2>2. C \in SUBSET Clients
    OBVIOUS
  <2>3. \A c \in Clients : c \notin C => server.conn[c].mode = "gone"
    BY DEF Connected
  <2> HIDE DEF C
  <2>4. /\ Core(p, used)
        /\ p.conn = Without(server, C)
    BY <1>1, <2>2, ForgetCore
  <2> HIDE DEF p
  <2>5. /\ q \in ServerState /\ q.foreground = NoClient
        /\ q.terminals = p.terminals /\ q.conn = p.conn /\ q.owner = p.owner
        /\ q.locks = p.locks /\ q.pty = p.pty
    BY <2>4 DEF Core, ServerState, q
  <2>6. Core(q, used)
    <3>1. \A c \in Clients : c # q.foreground
      BY <2>5, ConstantsAssumption
    <3> QED
      BY <2>4, <2>5, <3>1, CoreElsewhere
  <2>7. /\ Core(Sync(q), used) /\ Front(Sync(q))
        /\ Sync(q) = [q EXCEPT !.effective = IF q.foreground = NoClient THEN MinSize
                                             ELSE q.conn[q.foreground].size]
    BY <2>5, <2>6, SyncCore
  <2>8. Sync(q).conn = q.conn /\ Sync(q).foreground = NoClient
    BY <2>5, <2>7 DEF ServerState
  <2>9. Core(r, used) /\ Front(r) /\ r.conn = q.conn /\ r.foreground = NoClient
    <3>1. TRUE \in BOOLEAN
      OBVIOUS
    <3> QED
      BY <1>2, <2>7, <2>8, <3>1 DEF r
  <2>10. ~Watched(r) /\ Shown(r)
    BY <2>3, <2>4, <2>5, <2>9 DEF Watched, Shown, IsStream, Gone, Without
  <2> QED
    BY <1>1, <2>1, <2>9, <2>10, Becoming
<1>4. CASE RollBack
  <2> DEFINE r == [server EXCEPT !.handoff = FALSE]
  <2>1. Become(r, FALSE)
    BY <1>4 DEF RollBack
  <2>2. /\ Core(r, used) /\ Front(r) /\ r.conn = server.conn /\ r.pty = server.pty
        /\ r.terminals = server.terminals /\ r.foreground = server.foreground
        /\ r.owner = server.owner
    BY <1>1, <1>2
  <2> HIDE DEF r
  <2>3. ~due => (Watched(r) => Fits(r)) /\ Shown(r)
    BY <2>2 DEF Inv, Watched, Fits, Shown, IsStream
  <2> QED
    BY <1>1, <2>1, <2>2, <2>3, Becoming
<1> QED
  BY <1>3, <1>4

LEMMA InitInv == Init => Inv
<1> SUFFICES ASSUME Init PROVE Inv
  OBVIOUS
<1>1. Gone \in Connection
  BY DEF Gone, Connection
<1>2. server \in ServerState
  BY <1>1 DEF Init, ServerState
<1>3. Owned(server) /\ Locked(server) /\ Sized(server) /\ Given(server, used)
  BY ConstantsAssumption DEF Init, Owned, Locked, Sized, Given, Gone
<1>4. Written(server) /\ Front(server) /\ Fits(server) /\ Shown(server)
  BY DEF Init, Written, Front, Fits, Shown, IsStream, IsPending, Gone
<1> QED
  BY <1>2, <1>3, <1>4 DEF Inv, Core, Init

LEMMA NextInv == Inv /\ [Next]_vars => Inv'
<1> SUFFICES ASSUME Inv, [Next]_vars PROVE Inv'
  OBVIOUS
<1>1. ASSUME NEW c \in Clients, NEW size \in Sizes, Connect(c, size) \/ Resize(c, size) PROVE Inv'
  BY <1>1, ConnectInv, ResizeInv
<1>2. ASSUME NEW c \in Clients, NEW t \in Terminals, NEW takeover \in BOOLEAN,
             AttachTerminal(c, t, takeover) PROVE Inv'
  BY <1>2, AttachInv
<1>3. ASSUME NEW c \in Clients, NEW t \in Terminals, ObserveTerminal(c, t) PROVE Inv'
  BY <1>3, ObserveInv
<1>4. ASSUME NEW c \in Clients, NEW interacts \in BOOLEAN, NEW detaches \in BOOLEAN,
             Input(c, interacts, detaches) PROVE Inv'
  BY <1>4, InputInv
<1>5. ASSUME NEW c \in Clients, Leave(c) PROVE Inv'
  <2>1. Become(Remove(server, c), TRUE) /\ UNCHANGED used
    BY <1>5 DEF Leave
  <2> QED
    BY <2>1, RemoveInv
<1>6. ASSUME NEW c \in Clients, WriterEnds(c) PROVE Inv'
  BY <1>6, WriterEndsInv
<1>7. ASSUME NEW t \in Terminals, NEW size \in Sizes, OpenTerminal(t, size) PROVE Inv'
  BY <1>7, OpenTerminalInv
<1>8. ASSUME NEW t \in Terminals, CloseTerminal(t) \/ TerminalDies(t) PROVE Inv'
  BY <1>8, CloseTerminalInv, TerminalDiesInv
<1>9. CASE Render
  BY <1>9, RenderInv
<1>10. CASE StartHandoff \/ RollBack
  BY <1>10, HandoffInv
<1>11. CASE UNCHANGED vars
  BY <1>11 DEF vars, Inv, Core, Front, Owned, Locked, Sized, Given, Written, Watched, Fits,
               Shown, IsStream, IsPending, IsFull
<1> QED
  BY <1>1, <1>2, <1>3, <1>4, <1>5, <1>6, <1>7, <1>8, <1>9, <1>10, <1>11 DEF Next

---------------------------------------------------------------------------
\* Every reachable state satisfies the inductive invariant: through every
\* refusal, takeover, removal, resize, end of a terminal and handoff, the
\* owner of a terminal is its one attached client, the locks are the owned
\* terminals, their PTYs have their owners' sizes, the foreground client is a
\* full one, and a render leaves the other terminals at its size and nobody
\* with a terminal that is gone.
THEOREM RegistryIsSound == Spec => []IndInv
<1>1. Spec => []Inv
  BY InitInv, NextInv, PTL DEF Spec
<1> QED
  BY <1>1, InvIsIndInv, PTL

\* In particular terminal_attach_owners and the clients' modes agree, and so
\* do the locks: a client that leaves by any way takes its lock with it.
THEOREM OwnershipIsSound == Spec => [](OwnerIsAttached /\ LocksAreOwned /\ AttachedHasItsSize)
<1>1. IndInv => OwnerIsAttached /\ LocksAreOwned /\ AttachedHasItsSize
  BY DEF IndInv
<1> QED
  BY <1>1, RegistryIsSound, PTL

\* And after a render the panes nobody owns fit the foreground client, and a
\* terminal that is gone is shown to nobody.
THEOREM RenderRestores ==
    Spec => [](ForegroundIsFull /\ OthersFitTheForeground /\ NobodyShowsTheGone)
<1>1. IndInv => ForegroundIsFull /\ OthersFitTheForeground /\ NobodyShowsTheGone
  BY DEF IndInv
<1> QED
  BY <1>1, RegistryIsSound, PTL

\* A client that leaves by any way, refusal, takeover or the end of its terminal, takes its
\* lock with it, and only such a client's terminal is locked (direct_attach_resize_locks).
THEOREM LocksFollowOwners == Spec => []LocksAreOwned
<1>1. IndInv => LocksAreOwned
  BY DEF IndInv
<1> QED
  BY <1>1, RegistryIsSound, PTL

\* No resize, promotion or render of the others changes the size an owner gave its terminal.
THEOREM AttachedSizesHold == Spec => []AttachedHasItsSize
<1>1. IndInv => AttachedHasItsSize
  BY DEF IndInv
<1> QED
  BY <1>1, RegistryIsSound, PTL

\* However a terminal went, a render leaves no client attached to or observing it
\* (render_and_stream).
THEOREM NobodyStaysWithTheGone == Spec => []NobodyShowsTheGone
<1>1. IndInv => NobodyShowsTheGone
  BY DEF IndInv
<1> QED
  BY <1>1, RegistryIsSound, PTL

---------------------------------------------------------------------------
(* Somebody is in the foreground.                                          *)

\* A finite set is ranked: of any two members one is behind the other.
Ranked(behind, F) ==
    /\ IsFiniteSet(F)
    /\ \A c, d \in F : c # d => c \in behind[d] \/ d \in behind[c]
    /\ \A c \in F : c \notin behind[c]
    /\ \A c, d, e \in F : d \in behind[c] /\ e \in behind[d] => e \in behind[c]

FullOf(s) == {c \in Clients : IsFull(s, c)}

\* The full clients are ranked by their last activity, and one of them leads.  (That there is
\* one to promote is what the ranks are for: latest_app_client takes the greatest stamp.)
Led(s) == /\ Ranked(s.behind, FullOf(s))
          /\ FullOf(s) # {} => s.foreground # NoClient

\* A ranked set that is not empty has a first: one with the fewest in front.
LEMMA RankedHaveFirst ==
    ASSUME NEW behind, NEW F, Ranked(behind, F), F # {}
    PROVE  \E c \in F : \A d \in F \ {c} : d \in behind[c]
<1> DEFINE before(c) == F \ behind[c]
           T == {before(c) : c \in F}
           R == StrictSubsetOrdering(F)
<1>1. IsWellFoundedOn(R, SUBSET F)
  BY FS_StrictSubsetOrderingWellFounded, FS_FiniteSubsetsOfFinite DEF Ranked
<1>2. T \subseteq SUBSET F /\ T # {}
  OBVIOUS
<1> HIDE DEF T, R
<1>3. PICK X \in T : \A Y \in T : <<Y, X>> \notin R
  BY <1>1, <1>2, WFMin
<1>4. PICK c \in F : X = before(c)
  BY <1>3 DEF T
<1>5. ASSUME NEW d \in F \ {c}, d \notin behind[c] PROVE FALSE
  <2>1. c \in behind[d] /\ c \notin behind[c]
    BY <1>5 DEF Ranked
  <2>2. \A e \in F : e \in behind[c] => e \in behind[d]
    BY <1>5, <2>1 DEF Ranked
  <2>3. before(d) \subseteq before(c) /\ c \in before(c) /\ c \notin before(d)
    BY <2>1, <2>2
  <2>4. before(d) \in T /\ before(c) \in SUBSET F
    BY <1>5 DEF T
  <2> HIDE DEF before
  <2>5. <<before(d), X>> \in R
    BY <1>4, <2>3, <2>4 DEF R, StrictSubsetOrdering
  <2> QED
    BY <1>3, <2>4, <2>5
<1> QED
  BY <1>5

\* latest_app_client finds a client if there is a full one.
LEMMA LatestLeads ==
    ASSUME NEW s, Ranked(s.behind, FullOf(s)), FullOf(s) # {}
    PROVE  Latest(s) \in FullOf(s)
<1>1. PICK c \in FullOf(s) : \A d \in FullOf(s) \ {c} : d \in s.behind[c]
  BY RankedHaveFirst
<1>2. \E d \in Clients : IsLatest(s, d)
  BY <1>1 DEF FullOf, IsLatest
<1> QED
  BY <1>2 DEF Latest, IsLatest, FullOf

\* A subset is ranked the same way.
LEMMA FewerRanked ==
    ASSUME NEW b, NEW F, Ranked(b, F), NEW a, NEW G \in SUBSET F,
           \A c, d \in G : d \in a[c] <=> d \in b[c]
    PROVE  Ranked(a, G)
<1>1. IsFiniteSet(G)
  BY FS_Subset DEF Ranked
<1> QED
  BY <1>1 DEF Ranked

\* A step that makes nobody a full client keeps the ranks.
LEMMA FewerFull ==
    ASSUME NEW s, NEW r, Led(s), FullOf(r) \subseteq FullOf(s),
           \A c, d \in FullOf(r) : d \in r.behind[c] <=> d \in s.behind[c],
           s.foreground # NoClient => r.foreground # NoClient
    PROVE  Led(r)
<1>1. Ranked(r.behind, FullOf(r))
  BY FewerRanked DEF Led
<1> QED
  BY <1>1 DEF Led

\* A new stamp puts a client in front of the others, also one that just came.
LEMMA TouchRanks ==
    ASSUME NEW s \in ServerState, NEW c \in Clients, Ranked(s.behind, FullOf(s) \ {c})
    PROVE  /\ Ranked(Touch(s, c).behind, FullOf(Touch(s, c)))
           /\ FullOf(Touch(s, c)) = FullOf(s)
<1> DEFINE b == Touch(s, c).behind
           F == FullOf(s)
<1>1. /\ Touch(s, c).conn = s.conn
      /\ b = [d \in Clients |-> IF d # c THEN s.behind[d] \ {c}
                                ELSE {e \in Clients \ {c} : IsFull(s, c) /\ IsFull(s, e)}]
  BY DEF Touch, ServerState
<1>2. FullOf(Touch(s, c)) = F
  BY <1>1 DEF FullOf, IsFull
<1>3. /\ \A d \in F \ {c} : \A e \in F : e \in b[d] <=> e # c /\ e \in s.behind[d]
      /\ c \in F => \A e \in F : e \in b[c] <=> e # c
  BY <1>1 DEF FullOf
<1>4. IsFiniteSet(F)
  <2>1. IsFiniteSet((F \ {c}) \cup {c})
    BY FS_AddElement DEF Ranked
  <2>2. F \in SUBSET ((F \ {c}) \cup {c})
    OBVIOUS
  <2> QED
    BY <2>1, <2>2, FS_Subset
<1> HIDE DEF b, F
<1>5. Ranked(s.behind, F \ {c})
  BY DEF F
<1>6. Ranked(b, F)
  <2>1. \A d, e \in F : d # e => d \in b[e] \/ e \in b[d]
    BY <1>3, <1>5 DEF Ranked
  <2>2. \A d \in F : d \notin b[d]
    BY <1>3, <1>5 DEF Ranked
  <2>3. ASSUME NEW d \in F, NEW e \in F, NEW f \in F, e \in b[d], f \in b[e]
        PROVE  f \in b[d]
    <3>1. e # c /\ f # c
      BY <1>3, <2>3
    <3>2. CASE d = c
      BY <1>3, <3>1, <3>2
    <3>3. CASE d # c
      BY <1>3, <1>5, <2>3, <3>1, <3>3 DEF Ranked
    <3> QED
      BY <3>2, <3>3
  <2> QED
    BY <1>4, <2>1, <2>2, <2>3 DEF Ranked
<1> QED
  BY <1>2, <1>6 DEF b, F

\* A step that changes neither the clients nor their order nor the foreground.
LEMMA SameLed ==
    ASSUME NEW s, NEW r, Led(s), r.conn = s.conn, r.behind = s.behind,
           s.foreground # NoClient => r.foreground # NoClient
    PROVE  Led(r)
<1>1. FullOf(r) = FullOf(s)
  BY DEF FullOf, IsFull
<1> QED
  BY <1>1, FewerFull

\* resize_shared_runtime_to_effective_size and sync_foreground_client_state keep a leader.
LEMMA ResizeSharedLed ==
    ASSUME NEW s \in ServerState, Led(s)
    PROVE  Led(ResizeShared(s))
<1>1. CASE s.foreground = NoClient
  BY <1>1 DEF ResizeShared
<1>2. CASE s.foreground # NoClient
  <2> DEFINE r == Fit(s, s.effective)
  <2>1. r.conn = s.conn /\ r.behind = s.behind /\ r.foreground = s.foreground
    BY DEF Fit, ServerState
  <2> HIDE DEF r
  <2>2. Led(r)
    BY <2>1, SameLed
  <2> QED
    BY <1>2, <2>2 DEF ResizeShared, r
<1> QED
  BY <1>1, <1>2

LEMMA SyncState ==
    ASSUME NEW s \in ServerState
    PROVE  Sync(s) \in ServerState
<1> DEFINE f == IF s.foreground # NoClient /\ Connected(s, s.foreground)
                THEN s.foreground ELSE NoClient
           size == IF f = NoClient THEN MinSize ELSE s.conn[f].size
<1>1. f \in Clients \cup {NoClient} /\ Sync(s) = [s EXCEPT !.foreground = f, !.effective = size]
  BY DEF Sync, ServerState
<1> HIDE DEF f
<1>2. size \in Sizes \cup {MinSize}
  BY <1>1 DEF ServerState, Connection
<1> HIDE DEF size
<1> QED
  BY <1>1, <1>2 DEF ServerState

LEMMA SyncLed ==
    ASSUME NEW s \in ServerState, Ranked(s.behind, FullOf(s)),
           FullOf(s) # {} => s.foreground # NoClient /\ Connected(s, s.foreground)
    PROVE  Led(Sync(s))
<1> DEFINE r == Sync(s)
<1>1. /\ r.conn = s.conn /\ r.behind = s.behind
      /\ s.foreground # NoClient /\ Connected(s, s.foreground) => r.foreground = s.foreground
  BY DEF Sync, ServerState
<1> HIDE DEF r
<1>2. FullOf(r) = FullOf(s)
  BY <1>1 DEF FullOf, IsFull
<1> QED
  BY <1>1, <1>2 DEF Led, r

\* promote_latest_remaining_client finds a leader, whoever was in the foreground.
LEMMA PromoteLatestLed ==
    ASSUME NEW s \in ServerState, Ranked(s.behind, FullOf(s))
    PROVE  Led(PromoteLatest(s))
<1> DEFINE r == [s EXCEPT !.foreground = Latest(s)]
<1>1. FullOf(s) # {} => Latest(s) \in FullOf(s)
  BY LatestLeads
<1>2. Latest(s) \in Clients \cup {NoClient}
  BY DEF Latest
<1>3. /\ r \in ServerState /\ r.conn = s.conn /\ r.behind = s.behind
      /\ r.foreground = Latest(s)
  BY <1>2 DEF ServerState
<1> HIDE DEF r
<1>4. FullOf(r) = FullOf(s)
  BY <1>3 DEF FullOf, IsFull
<1>5. FullOf(r) # {} => r.foreground # NoClient /\ Connected(r, r.foreground)
  BY <1>1, <1>3, <1>4, ConstantsAssumption DEF FullOf, IsFull, Connected
<1>6. Led(Sync(r))
  BY <1>3, <1>4, <1>5, SyncLed
<1> QED
  BY <1>6 DEF PromoteLatest, r

\* promote_client_to_foreground makes a full client the leader.
LEMMA PromoteLed ==
    ASSUME NEW s \in ServerState, Led(s), NEW c \in Clients, Connected(s, c) => IsFull(s, c)
    PROVE  Led(Promote(s, c))
<1>1. CASE ~Connected(s, c)
  BY <1>1 DEF Promote
<1>2. CASE Connected(s, c)
  <2> DEFINE p == Touch(s, c)
             r == [p EXCEPT !.foreground = c]
  <2>1. Ranked(s.behind, FullOf(s) \ {c})
    <3>1. FullOf(s) \ {c} \in SUBSET FullOf(s)
      OBVIOUS
    <3> QED
      BY <3>1, FewerRanked DEF Led
  <2>2. Ranked(p.behind, FullOf(p)) /\ p \in ServerState /\ p.conn = s.conn
    BY <2>1, TouchRanks, TouchCore
  <2> HIDE DEF p
  <2>3. /\ r \in ServerState /\ r.conn = s.conn /\ r.behind = p.behind /\ r.foreground = c
    BY <2>2 DEF ServerState
  <2> HIDE DEF r
  <2>4. FullOf(r) = FullOf(p)
    BY <2>2, <2>3 DEF FullOf, IsFull
  <2>5. r.foreground # NoClient /\ Connected(r, r.foreground)
    BY <1>2, <2>3, ConstantsAssumption DEF Connected
  <2>6. Led(Sync(r))
    BY <2>2, <2>3, <2>4, <2>5, SyncLed
  <2> QED
    BY <1>2, <2>6 DEF Promote, p, r
<1> QED
  BY <1>1, <1>2

\* Who is left when clients go is ranked as before.
LEMMA ForgetRanks ==
    ASSUME NEW s \in ServerState, NEW C \in SUBSET Clients, Ranked(s.behind, FullOf(s))
    PROVE  /\ Ranked(Forget(s, C).behind, FullOf(Forget(s, C)))
           /\ FullOf(Forget(s, C)) \subseteq FullOf(s)
           /\ Forget(s, C).foreground = s.foreground
<1> DEFINE r == Forget(s, C)
<1>1. /\ r.conn = [c \in Clients |-> IF c \in C THEN Gone ELSE s.conn[c]]
      /\ r.behind = [c \in Clients |-> IF c \in C THEN {} ELSE s.behind[c] \ C]
      /\ r.foreground = s.foreground
  BY DEF Forget, ServerState
<1> HIDE DEF r
<1>2. FullOf(r) = FullOf(s) \ C
  BY <1>1 DEF FullOf, IsFull, Gone
<1>3. \A c, d \in FullOf(r) : d \in r.behind[c] <=> d \in s.behind[c]
  BY <1>1, <1>2 DEF FullOf
<1>4. Ranked(r.behind, FullOf(r))
  BY <1>2, <1>3, FewerRanked
<1> QED
  BY <1>1, <1>2, <1>4 DEF r

\* remove_client_and_resize_if_needed, for the others and for any client
LEMMA RemoveOthersLed ==
    ASSUME NEW s, NEW u, Core(s, u), Led(s), NEW C \in SUBSET Clients
    PROVE  Led(RemoveOthers(s, C))
<1> DEFINE r == Forget(s, C)
<1>1. Core(r, u)
  BY ForgetCore
<1>2. r \in ServerState /\ s \in ServerState
  BY <1>1 DEF Core
<1>3. Led(r)
  BY <1>2, ForgetRanks DEF Led
<1> HIDE DEF r
<1>4. Led(ResizeShared(r))
  BY <1>2, <1>3, ResizeSharedLed
<1> QED
  BY <1>3, <1>4 DEF RemoveOthers, r

LEMMA RemoveLed ==
    ASSUME NEW s, NEW u, Core(s, u), Led(s), NEW c \in Clients
    PROVE  Led(Remove(s, c))
<1> DEFINE C == {c}
           r == Forget(s, C)
           p == PromoteLatest(r)
<1>1. C \in SUBSET Clients
  OBVIOUS
<1> HIDE DEF C
<1>2. Core(r, u)
  BY <1>1, ForgetCore
<1>3. r \in ServerState /\ s \in ServerState
  BY <1>2 DEF Core
<1>4. Ranked(r.behind, FullOf(r))
  BY <1>1, <1>3, ForgetRanks DEF Led
<1> HIDE DEF r
<1>5. Core(p, u) /\ Led(p)
  BY <1>2, <1>3, <1>4, PromoteLatestCore, PromoteLatestLed
<1>6. p \in ServerState
  BY <1>5 DEF Core
<1> HIDE DEF p
<1>7. Led(ResizeShared(p))
  BY <1>5, <1>6, ResizeSharedLed
<1>8. Led(RemoveOthers(s, C))
  BY <1>1, RemoveOthersLed
<1> QED
  BY <1>7, <1>8 DEF Remove, C, r, p

\* A client that was no full one and is none now leaves the order of the others alone.
LEMMA StreamLed ==
    ASSUME NEW s, Led(s), NEW q \in ServerState, NEW c \in Clients,
           q.behind = s.behind, q.foreground = s.foreground, ~IsFull(s, c), ~IsFull(q, c),
           \A d \in Clients : d # c => q.conn[d] = s.conn[d]
    PROVE  Led(Touch(q, c))
<1>1. FullOf(q) = FullOf(s) /\ c \notin FullOf(s)
  BY DEF FullOf, IsFull
<1>2. Ranked(q.behind, FullOf(q) \ {c})
  <2>1. FullOf(q) \ {c} = FullOf(s)
    BY <1>1
  <2> QED
    BY <2>1 DEF Led
<1>3. /\ Ranked(Touch(q, c).behind, FullOf(Touch(q, c))) /\ FullOf(Touch(q, c)) = FullOf(s)
      /\ Touch(q, c).foreground = s.foreground
  BY <1>1, <1>2, TouchRanks, TouchCore
<1> QED
  BY <1>3 DEF Led

LEMMA TakeTerminalLed ==
    ASSUME NEW s \in ServerState, Led(s), NEW c \in Clients, NEW t \in Terminals,
           IsPending(s, c), c # s.foreground
    PROVE  Led(TakeTerminal(s, c, t))
<1> DEFINE q == [s EXCEPT !.conn[c].mode = "attach", !.conn[c].target = t,
                          !.conn[c].pending = FALSE]
           p == Touch(q, c)
           r == [p EXCEPT !.owner[t] = c, !.locks = @ \cup {t}, !.pty[t] = s.conn[c].size]
<1>1. TakeTerminal(s, c, t) = r
  BY DEF TakeTerminal
<1>2. s.conn[c] \in Connection
  BY DEF ServerState
<1>3. q \in ServerState
  <2>1. [s.conn[c] EXCEPT !.mode = "attach", !.target = t, !.pending = FALSE] \in Connection
    BY <1>2 DEF Connection
  <2>2. q = [s EXCEPT !.conn = [s.conn EXCEPT ![c] =
               [s.conn[c] EXCEPT !.mode = "attach", !.target = t, !.pending = FALSE]]]
    BY DEF ServerState
  <2> QED
    BY <2>1, <2>2 DEF ServerState
<1>4. /\ q.behind = s.behind /\ q.foreground = s.foreground /\ q.conn[c].mode = "attach"
      /\ \A d \in Clients : d # c => q.conn[d] = s.conn[d]
  BY <1>2 DEF ServerState, Connection
<1> HIDE DEF q
<1>5. ~IsFull(s, c) /\ ~IsFull(q, c)
  BY <1>4 DEF IsFull, IsPending
<1>6. Led(p) /\ p \in ServerState
  BY <1>3, <1>4, <1>5, StreamLed, TouchCore
<1> HIDE DEF p
<1>7. r.conn = p.conn /\ r.behind = p.behind /\ r.foreground = p.foreground
  BY <1>6 DEF ServerState
<1> HIDE DEF r
<1> QED
  BY <1>1, <1>6, <1>7, SameLed

\* What is to be shown of an action.
LEMMA BecomingLed ==
    ASSUME NEW s, NEW renders, Become(s, renders), Led(s)
    PROVE  Led(server)'
BY DEF Become, Led, Ranked, FullOf, IsFull

LEMMA ConnectLed ==
    ASSUME Inv, Led(server), NEW c \in Clients, NEW size \in Sizes, Connect(c, size)
    PROVE  Led(server)'
<1> DEFINE direct == c \in DirectClients
           new == [mode |-> "app", pending |-> direct, target |-> NoTerminal,
                   size |-> size, writer |-> "open"]
           q == [server EXCEPT !.conn[c] = new]
           s == Touch(q, c)
           r == IF direct THEN s ELSE [s EXCEPT !.foreground = c]
<1>1. /\ server \in ServerState /\ Front(server)
      /\ ~Connected(server, c) /\ Become(ResizeShared(Sync(r)), TRUE)
  <2>1. server \in ServerState /\ Front(server)
    BY DEF Inv, Core
  <2>2. ~Connected(server, c) /\ Become(ResizeShared(Sync(r)), TRUE)
    BY DEF Connect
  <2> QED
    BY <2>1, <2>2
<1>2. new \in Connection /\ new.mode = "app" /\ (new.pending <=> direct)
  <2>1. new \in Connection /\ direct \in BOOLEAN
    BY DEF Connection
  <2>2. new.mode = "app" /\ new.pending = direct
    OBVIOUS
  <2> HIDE DEF new, direct
  <2> QED
    BY <2>1, <2>2
<1>3. /\ q \in ServerState /\ q.behind = server.behind /\ q.foreground = server.foreground
      /\ q.conn[c] = new /\ \A d \in Clients : d # c => q.conn[d] = server.conn[d]
  BY <1>1, <1>2 DEF ServerState
<1> HIDE DEF q, new
<1>4. /\ FullOf(q) \ {c} = FullOf(server) /\ c \notin FullOf(server)
      /\ direct => FullOf(q) = FullOf(server)
  BY <1>1, <1>2, <1>3 DEF FullOf, IsFull, Connected
<1>5. Ranked(q.behind, FullOf(q) \ {c})
  BY <1>3, <1>4 DEF Led
<1>6. /\ Ranked(s.behind, FullOf(s)) /\ FullOf(s) = FullOf(q)
      /\ s \in ServerState /\ s.conn = q.conn /\ s.foreground = server.foreground
  BY <1>3, <1>5, TouchRanks, TouchCore
<1> HIDE DEF s
<1>7. /\ r \in ServerState /\ r.conn = q.conn /\ r.behind = s.behind
      /\ r.foreground = IF direct THEN server.foreground ELSE c
  BY <1>6 DEF ServerState
<1> HIDE DEF r
<1>8. FullOf(r) = FullOf(q)
  BY <1>6, <1>7 DEF FullOf, IsFull
<1>9. FullOf(r) # {} => r.foreground # NoClient /\ Connected(r, r.foreground)
  <2>1. CASE direct
    <3>1. FullOf(r) # {} => server.foreground # NoClient
      BY <1>4, <1>8, <2>1 DEF Led
    <3>2. server.foreground # NoClient =>
              /\ server.foreground \in Clients /\ server.foreground # c
              /\ Connected(server, server.foreground)
      BY <1>1 DEF Front, IsFull, Connected, ServerState
    <3> QED
      BY <1>3, <1>7, <2>1, <3>1, <3>2 DEF Connected
  <2>2. CASE ~direct
    BY <1>2, <1>3, <1>7, <2>2, ConstantsAssumption DEF Connected
  <2> QED
    BY <2>1, <2>2
<1>10. Led(Sync(r)) /\ Sync(r) \in ServerState
  <2>1. Led(Sync(r))
    BY <1>6, <1>7, <1>8, <1>9, SyncLed
  <2>2. Sync(r) \in ServerState
    BY <1>7, SyncState
  <2> QED
    BY <2>1, <2>2
<1>11. Led(ResizeShared(Sync(r)))
  BY <1>10, ResizeSharedLed
<1> QED
  BY <1>1, <1>11, BecomingLed

LEMMA AttachLed ==
    ASSUME Inv, Led(server), NEW c \in Clients, NEW t \in Terminals, NEW takeover \in BOOLEAN,
           AttachTerminal(c, t, takeover)
    PROVE  Led(server)'
<1> DEFINE owner == server.owner[t]
           refused == Refuses(server, c, t) \/ (owner \notin {NoClient, c} /\ ~takeover)
           s == IF owner \in {NoClient, c} THEN server ELSE Remove(server, owner)
<1>1. /\ Core(server, used) /\ Front(server)
      /\ IF refused THEN Become(Remove(server, c), FALSE)
                    ELSE Become(TakeTerminal(s, c, t), TRUE)
  BY DEF Inv, AttachTerminal
<1>2. CASE refused
  BY <1>1, <1>2, RemoveLed, BecomingLed
<1>3. CASE ~refused
  <2>1. Become(TakeTerminal(s, c, t), TRUE) /\ IsPending(server, c)
    BY <1>1, <1>3 DEF Refuses
  <2>2. Core(s, used) /\ Led(s) /\ IsPending(s, c)
    <3>1. CASE owner \in {NoClient, c}
      BY <1>1, <2>1, <3>1
    <3>2. CASE owner \notin {NoClient, c}
      <4>1. owner \in Clients /\ s = Remove(server, owner)
        BY <1>1, <3>2 DEF Core, ServerState
      <4> HIDE DEF owner, s
      <4>2. Core(s, used) /\ Led(s) /\ s.conn = Without(server, {owner})
        BY <1>1, <4>1, RemoveCore, RemoveLed
      <4> QED
        BY <2>1, <3>2, <4>2 DEF IsPending, Without
    <3> QED
      BY <3>1, <3>2
  <2> HIDE DEF s
  <2>3. s \in ServerState /\ c # s.foreground
    BY <2>2 DEF Core, Written
  <2>4. Led(TakeTerminal(s, c, t))
    BY <2>2, <2>3, TakeTerminalLed
  <2> QED
    BY <2>1, <2>4, BecomingLed
<1> QED
  BY <1>2, <1>3

LEMMA ObserveLed ==
    ASSUME Inv, Led(server), NEW c \in Clients, NEW t \in Terminals, ObserveTerminal(c, t)
    PROVE  Led(server)'
<1>1. Core(server, used)
  BY DEF Inv
<1>2. CASE Refuses(server, c, t)
  <2>1. Become(Remove(server, c), FALSE)
    BY <1>2 DEF ObserveTerminal
  <2> QED
    BY <1>1, <2>1, RemoveLed, BecomingLed
<1>3. CASE ~Refuses(server, c, t)
  <2> DEFINE q == [server EXCEPT !.conn[c].mode = "observe", !.conn[c].target = t,
                                 !.conn[c].pending = FALSE]
             s == Touch(q, c)
  <2>1. /\ IsPending(server, c) /\ server \in ServerState /\ c # server.foreground
        /\ server.conn[c] \in Connection
    BY <1>1, <1>3 DEF Refuses, Core, Written, ServerState
  <2>2. q \in ServerState
    <3>1. [server.conn[c] EXCEPT !.mode = "observe", !.target = t, !.pending = FALSE] \in Connection
      BY <2>1 DEF Connection
    <3>2. q = [server EXCEPT !.conn = [server.conn EXCEPT ![c] =
                 [server.conn[c] EXCEPT !.mode = "observe", !.target = t, !.pending = FALSE]]]
      BY <2>1 DEF ServerState
    <3> QED
      BY <2>1, <3>1, <3>2 DEF ServerState
  <2>3. /\ q.behind = server.behind /\ q.foreground = server.foreground
        /\ q.conn[c].mode = "observe"
        /\ \A d \in Clients : d # c => q.conn[d] = server.conn[d]
    BY <2>1 DEF ServerState, Connection
  <2>4. Become(s, TRUE)
    <3>1. s.foreground # c
      BY <2>1, <2>2, <2>3, TouchCore
    <3> QED
      BY <1>3, <3>1 DEF ObserveTerminal
  <2> HIDE DEF q
  <2>5. ~IsFull(server, c) /\ ~IsFull(q, c)
    BY <2>1, <2>3 DEF IsFull, IsPending
  <2>6. Led(s)
    BY <2>1, <2>2, <2>3, <2>5, StreamLed
  <2> HIDE DEF s
  <2> QED
    BY <2>4, <2>6, BecomingLed
<1> QED
  BY <1>2, <1>3

LEMMA InputLed ==
    ASSUME Inv, Led(server), NEW c \in Clients, NEW interacts \in BOOLEAN,
           NEW detaches \in BOOLEAN, Input(c, interacts, detaches)
    PROVE  Led(server)'
<1> DEFINE changed == interacts /\ Connected(server, c) /\ server.foreground # c
           promoted == IF interacts THEN Promote(server, c) ELSE server
           p == IF changed THEN ResizeShared(promoted) ELSE promoted
           s == Sync(p)
<1>1. Core(server, used) /\ Front(server) /\ server \in ServerState
  BY DEF Inv, Core
<1>2. /\ ~IsPending(server, c) /\ ~IsStream(server, c)
      /\ IF ~(detaches /\ Connected(s, c)) THEN Become(s, interacts)
         ELSE Become(IF s.conn[c].writer = "closed" THEN Remove(s, c)
                     ELSE [s EXCEPT !.conn[c].writer = "none"], FALSE)
  BY DEF Input
<1>3. Connected(server, c) => IsFull(server, c)
  <2>1. server.conn[c].mode \in {"gone", "app", "attach", "observe"}
    BY <1>1 DEF ServerState, Connection
  <2> QED
    BY <1>2, <2>1 DEF Connected, IsFull, IsPending, IsStream
<1>4. Core(promoted, used) /\ Front(promoted) /\ Led(promoted)
  <2>1. Core(Promote(server, c), used) /\ Front(Promote(server, c)) /\ Led(Promote(server, c))
    BY <1>1, <1>3, PromoteCore, PromoteLed
  <2> QED
    BY <1>1, <2>1
<1>5. promoted \in ServerState
  BY <1>4 DEF Core
<1> HIDE DEF promoted, changed
<1>6. Core(p, used) /\ Front(p) /\ Led(p)
  <2>1. /\ Core(ResizeShared(promoted), used) /\ Front(ResizeShared(promoted))
        /\ Led(ResizeShared(promoted))
    BY <1>4, <1>5, ResizeSharedCore, ResizeSharedLed
  <2> QED
    BY <1>4, <2>1
<1> HIDE DEF p
<1>7. Core(s, used) /\ Led(s) /\ s \in ServerState
  BY <1>6, SyncIdle DEF Core
<1> HIDE DEF s
<1>8. Led(Remove(s, c))
  BY <1>7, RemoveLed
<1>9. Led([s EXCEPT !.conn[c].writer = "none"])
  <2> DEFINE r == [s EXCEPT !.conn[c].writer = "none"]
  <2>1. /\ r.behind = s.behind /\ r.foreground = s.foreground
        /\ \A d \in Clients : d # c => r.conn[d] = s.conn[d]
        /\ r.conn[c].mode = s.conn[c].mode /\ r.conn[c].pending = s.conn[c].pending
    BY <1>7 DEF ServerState, Connection
  <2> HIDE DEF r
  <2>2. FullOf(r) = FullOf(s)
    BY <2>1 DEF FullOf, IsFull
  <2>3. Led(r)
    BY <1>7, <2>1, <2>2, FewerFull
  <2> QED
    BY <2>3 DEF r
<1> QED
  BY <1>2, <1>7, <1>8, <1>9, BecomingLed

LEMMA ResizeLed ==
    ASSUME Inv, Led(server), NEW c \in Clients, NEW size \in Sizes, Resize(c, size)
    PROVE  Led(server)'
<1> DEFINE s == IF Connected(server, c) THEN [server EXCEPT !.conn[c].size = size] ELSE server
           t == s.conn[c].target
           m == s.conn[c].mode
           r == IF t \in s.terminals THEN [s EXCEPT !.pty[t] = size] ELSE s
           p == Promote(s, c)
<1>1. /\ server \in ServerState /\ server.conn[c] \in Connection
  BY DEF Inv, Core, ServerState
<1>2. /\ ~IsPending(server, c)
      /\ Become(CASE m = "attach" -> r [] m = "observe" -> s [] OTHER -> ResizeShared(p), TRUE)
  BY DEF Resize
<1>3. /\ s \in ServerState /\ s.behind = server.behind /\ s.foreground = server.foreground
      /\ \A d \in Clients : d # c => s.conn[d] = server.conn[d]
      /\ s.conn[c].mode = server.conn[c].mode
      /\ (s.conn[c].pending <=> server.conn[c].pending)
  <2>1. CASE Connected(server, c)
    <3>1. [server.conn[c] EXCEPT !.size = size] \in Connection
      BY <1>1 DEF Connection
    <3>2. s = [server EXCEPT !.conn = [server.conn EXCEPT ![c] =
                                         [server.conn[c] EXCEPT !.size = size]]]
      BY <1>1, <2>1 DEF ServerState
    <3> QED
      BY <1>1, <3>1, <3>2 DEF ServerState, Connection
  <2>2. CASE ~Connected(server, c)
    BY <1>1, <2>2
  <2> QED
    BY <2>1, <2>2
<1> HIDE DEF s
<1>4. Led(s)
  <2>1. FullOf(s) = FullOf(server)
    BY <1>3 DEF FullOf, IsFull
  <2> QED
    BY <1>3, <2>1, FewerFull
<1>5. Led(r)
  <2>1. r.conn = s.conn /\ r.behind = s.behind /\ r.foreground = s.foreground
    BY <1>3 DEF ServerState
  <2> HIDE DEF r
  <2> QED
    BY <1>4, <2>1, SameLed
<1> HIDE DEF r
<1>6. CASE m = "attach" \/ m = "observe"
  BY <1>2, <1>4, <1>5, <1>6, BecomingLed
<1>7. CASE m # "attach" /\ m # "observe"
  <2>1. Connected(s, c) => IsFull(s, c)
    <3>1. m \in {"gone", "app", "attach", "observe"}
      BY <1>3 DEF ServerState, Connection
    <3> QED
      BY <1>2, <1>3, <1>7, <3>1 DEF Connected, IsFull, IsPending
  <2>2. Led(p)
    BY <1>3, <1>4, <2>1, PromoteLed
  <2>3. p = s \/ p = Sync([Touch(s, c) EXCEPT !.foreground = c])
    BY DEF Promote
  <2>4. p \in ServerState
    <3>1. [Touch(s, c) EXCEPT !.foreground = c] \in ServerState
      <4>1. Touch(s, c) \in ServerState
        BY <1>3, TouchCore
      <4> QED
        BY <4>1 DEF ServerState
    <3> QED
      BY <1>3, <2>3, <3>1, SyncState
  <2> HIDE DEF p
  <2>5. Led(ResizeShared(p))
    BY <2>2, <2>4, ResizeSharedLed
  <2> QED
    BY <1>2, <1>7, <2>5, BecomingLed
<1> QED
  BY <1>6, <1>7

LEMMA RenderLed ==
    ASSUME Inv, Led(server), Render
    PROVE  Led(server)'
<1> DEFINE Target(c) == (IsFull(server, c) \/ IsStream(server, c)) /\ server.conn[c].writer # "none"
           f == server.foreground
           s == IF f # NoClient /\ Target(f) THEN Fit(server, server.conn[f].size) ELSE server
           lost == {c \in Clients : Target(c) /\ IsStream(s, c) /\ s.conn[c].target \notin s.terminals}
<1> HIDE DEF Target, s, lost
<1>1. PICK broken \in SUBSET {c \in Clients : Target(c) /\ s.conn[c].writer = "closed"} :
          server' = IF f \in broken THEN Remove(RemoveOthers(s, (lost \cup broken) \ {f}), f)
                                    ELSE RemoveOthers(s, (lost \cup broken) \ {f})
  BY Zenon DEF Render, Target, s, lost
<1> DEFINE C == (lost \cup broken) \ {f}
           others == RemoveOthers(s, C)
<1>2. Core(server, used) /\ Front(server) /\ server \in ServerState
  BY DEF Inv, Core
<1>3. Core(s, used) /\ Front(s) /\ Led(s) /\ s.foreground = f
  <2>1. CASE f # NoClient /\ Target(f)
    <3> DEFINE z == server.conn[f].size
               r == Fit(server, z)
    <3>1. z \in Sizes \cup {MinSize}
      BY <1>2, <2>1 DEF ServerState, Connection
    <3> HIDE DEF z
    <3>2. Core(r, used)
      BY <1>2, <3>1, FitCore
    <3>3. /\ r.conn = server.conn /\ r.foreground = f /\ r.effective = server.effective
          /\ r.behind = server.behind
      BY <1>2 DEF Fit, ServerState
    <3> HIDE DEF r
    <3>4. Front(r) /\ Led(r)
      BY <1>2, <3>3, SameLed DEF Front, IsFull
    <3> QED
      BY <2>1, <3>2, <3>3, <3>4 DEF s, r, z
  <2>2. CASE ~(f # NoClient /\ Target(f))
    BY <1>2, <2>2 DEF s
  <2> QED
    BY <2>1, <2>2
<1>4. C \in SUBSET Clients /\ s.foreground \notin C
  BY <1>3 DEF lost
<1> HIDE DEF C
<1>5. Core(others, used) /\ Led(others)
  BY <1>3, <1>4, RemoveOthersCore, RemoveOthersLed
<1> HIDE DEF others
<1>6. f \in broken => Led(Remove(others, f))
  <2>1. broken \subseteq Clients
    OBVIOUS
  <2> QED
    BY <1>5, <2>1, RemoveLed
<1>7. (server' = Remove(others, f) /\ f \in broken) \/ server' = others
  BY <1>1, Zenon DEF C, others
<1>8. ASSUME NEW r, server' = r, Led(r) PROVE Led(server)'
  BY <1>8 DEF Led, Ranked, FullOf, IsFull
<1> QED
  BY <1>5, <1>6, <1>7, <1>8

\* Terminals come and go, writers end and a handoff is rolled back: no client joins or leaves.
LEMMA OthersLed ==
    ASSUME Inv, Led(server),
           \/ \E c \in Clients : WriterEnds(c)
           \/ \E t \in Terminals, size \in Sizes : OpenTerminal(t, size)
           \/ \E t \in Terminals : CloseTerminal(t)
           \/ RollBack
    PROVE  Led(server)'
<1>1. server \in ServerState
  BY DEF Inv, Core
<1>2. server'.behind = server.behind /\ server'.foreground = server.foreground
  BY <1>1 DEF ServerState, WriterEnds, OpenTerminal, CloseTerminal, RollBack, Become
<1>3. \A c \in Clients : server'.conn[c].mode = server.conn[c].mode
                         /\ server'.conn[c].pending = server.conn[c].pending
  <2>1. CASE \E c \in Clients : WriterEnds(c)
    BY <1>1, <2>1 DEF ServerState, Connection, WriterEnds
  <2>2. CASE server'.conn = server.conn
    BY <2>2
  <2>3. \/ \E t \in Terminals, size \in Sizes : OpenTerminal(t, size)
        \/ \E t \in Terminals : CloseTerminal(t)
        \/ RollBack
        => server'.conn = server.conn
    BY <1>1 DEF ServerState, OpenTerminal, CloseTerminal, RollBack, Become
  <2> QED
    BY <2>1, <2>2, <2>3
<1>4. FullOf(server)' = FullOf(server)
  BY <1>3 DEF FullOf, IsFull
<1> QED
  BY <1>2, <1>4 DEF Led

LEMMA TerminalDiesLed ==
    ASSUME Inv, Led(server), NEW t \in Terminals, TerminalDies(t)
    PROVE  Led(server)'
<1> DEFINE r == [server EXCEPT !.terminals = @ \ {t}]
           C == {c \in Clients : IsStream(server, c) /\ server.conn[c].target = t}
<1>1. /\ Core(server, used) /\ Front(server) /\ server \in ServerState
      /\ t \in server.terminals /\ Become(RemoveOthers(r, C), TRUE)
  BY DEF Inv, Core, TerminalDies
<1>2. /\ r \in ServerState /\ r.terminals = server.terminals \ {t}
      /\ r.locks = server.locks /\ r.conn = server.conn /\ r.owner = server.owner
      /\ r.pty = server.pty /\ r.behind = server.behind
      /\ r.foreground = server.foreground /\ r.effective = server.effective
  BY <1>1 DEF ServerState
<1> HIDE DEF r
<1>3. Core(r, used) /\ Led(r)
  BY <1>1, <1>2, GoneCore, SameLed
<1>4. C \in SUBSET Clients
  OBVIOUS
<1> HIDE DEF C
<1>5. Led(RemoveOthers(r, C))
  BY <1>3, <1>4, RemoveOthersLed
<1> QED
  BY <1>1, <1>5, BecomingLed

\* disconnect_all_clients_for_handoff leaves nobody, in the foreground or elsewhere.
LEMMA StartHandoffLed ==
    ASSUME Inv, Led(server), StartHandoff
    PROVE  Led(server)'
<1> DEFINE C == {c \in Clients : Connected(server, c)}
           p == Forget(server, C)
           q == [p EXCEPT !.foreground = NoClient]
           r == [Sync(q) EXCEPT !.handoff = TRUE]
<1>1. Become(r, FALSE) /\ Core(server, used)
  BY DEF StartHandoff, Inv
<1> HIDE DEF q, r
<1>2. C \in SUBSET Clients /\ \A c \in Clients : c \notin C => server.conn[c].mode = "gone"
  BY DEF Connected
<1> HIDE DEF C
<1>3. Core(p, used) /\ p.conn = Without(server, C)
  BY <1>1, <1>2, ForgetCore
<1>4. p \in ServerState /\ server \in ServerState
  BY <1>1, <1>3 DEF Core
<1>5. Ranked(p.behind, FullOf(p)) /\ FullOf(p) = {}
  <2>1. Ranked(p.behind, FullOf(p))
    BY <1>2, <1>4, ForgetRanks DEF Led
  <2> HIDE DEF p
  <2>2. \A c \in Clients : p.conn[c].mode = "gone"
    BY <1>2, <1>3 DEF Without, Gone
  <2> QED
    BY <2>1, <2>2 DEF FullOf, IsFull
<1> HIDE DEF p
<1>6. q \in ServerState /\ q.behind = p.behind /\ q.conn = p.conn
  BY <1>4 DEF q, ServerState
<1>7. FullOf(q) = {}
  BY <1>5, <1>6 DEF FullOf, IsFull
<1>8. Led(Sync(q)) /\ Sync(q) \in ServerState
  BY <1>5, <1>6, <1>7, SyncLed, SyncState
<1>9. r.conn = Sync(q).conn /\ r.behind = Sync(q).behind /\ r.foreground = Sync(q).foreground
  BY <1>8 DEF r, ServerState
<1>10. Led(r)
  BY <1>8, <1>9, SameLed
<1> QED
  BY <1>1, <1>10, BecomingLed

LEMMA InitLed == Init => Led(server)
<1>1. Init => FullOf(server) = {}
  BY DEF Init, FullOf, IsFull, Gone
<1> QED
  BY <1>1, FS_EmptySet DEF Led, Ranked

LEMMA NextLed == Inv /\ Led(server) /\ [Next]_vars => Led(server)'
<1> SUFFICES ASSUME Inv, Led(server), [Next]_vars PROVE Led(server)'
  OBVIOUS
<1>1. ASSUME NEW c \in Clients, NEW size \in Sizes, Connect(c, size) \/ Resize(c, size)
      PROVE  Led(server)'
  BY <1>1, ConnectLed, ResizeLed
<1>2. ASSUME NEW c \in Clients, NEW t \in Terminals, NEW takeover \in BOOLEAN,
             AttachTerminal(c, t, takeover)
      PROVE  Led(server)'
  BY <1>2, AttachLed
<1>3. ASSUME NEW c \in Clients, NEW t \in Terminals, ObserveTerminal(c, t) PROVE Led(server)'
  BY <1>3, ObserveLed
<1>4. ASSUME NEW c \in Clients, NEW interacts \in BOOLEAN, NEW detaches \in BOOLEAN,
             Input(c, interacts, detaches)
      PROVE  Led(server)'
  BY <1>4, InputLed
<1>5. ASSUME NEW c \in Clients, Leave(c) PROVE Led(server)'
  <2>1. Become(Remove(server, c), TRUE) /\ Core(server, used)
    BY <1>5 DEF Leave, Inv
  <2> QED
    BY <2>1, RemoveLed, BecomingLed
<1>6. ASSUME NEW t \in Terminals, TerminalDies(t) PROVE Led(server)'
  BY <1>6, TerminalDiesLed
<1>7. CASE Render
  BY <1>7, RenderLed
<1>8. CASE StartHandoff
  BY <1>8, StartHandoffLed
<1>9. CASE \/ \E c \in Clients : WriterEnds(c)
           \/ \E t \in Terminals, size \in Sizes : OpenTerminal(t, size)
           \/ \E t \in Terminals : CloseTerminal(t)
           \/ RollBack
  BY <1>9, OthersLed
<1>10. CASE UNCHANGED vars
  BY <1>10 DEF vars, Led, FullOf, IsFull
<1> QED
  BY <1>1, <1>2, <1>3, <1>4, <1>5, <1>6, <1>7, <1>8, <1>9, <1>10 DEF Next

\* While a full client is connected one is in the foreground, through every departure, takeover,
\* refusal and handoff (promote_latest_remaining_client): the full clients are ranked by their
\* last activity, so there is always one to promote.
THEOREM SomeoneLeads == Spec => []SomeoneIsForeground
<1>1. Inv /\ Led(server) => SomeoneIsForeground
  BY DEF Led, FullOf, SomeoneIsForeground
<1>2. Spec => [](Inv /\ Led(server))
  <2>1. Init => Inv /\ Led(server)
    BY InitInv, InitLed
  <2>2. (Inv /\ Led(server)) /\ [Next]_vars => (Inv /\ Led(server))'
    BY NextInv, NextLed
  <2> QED
    BY <2>1, <2>2, PTL DEF Spec
<1> QED
  BY <1>1, <1>2, PTL
=============================================================================
