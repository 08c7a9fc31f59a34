--------------------------- MODULE AgentWatchProofs ---------------------------
(***************************************************************************)
(* The agent of a terminal, for any reporters, agents and conversations    *)
(* and any number of reports and processes: every handler keeps the        *)
(* terminal's record well formed and its published state arbitrated, and   *)
(* what is suppressed or stale stays so until the conversation begins      *)
(* anew.                                                                   *)
(***************************************************************************)
EXTENDS AgentWatch, SequenceTheorems, TLAPS

-----------------------------------------------------------------------------
(* Types.                                                                  *)

LEMMA HookTypes ==
    /\ NoHook \in Hook /\ NoOwner \in Owner /\ NotSuppressed \in Suppression
    /\ Nobody \notin Reporters /\ Lifecycle \subseteq Reporters
  BY NamesAssumption DEF NoHook, NoOwner, NotSuppressed, Hook, Owner, Suppression, States

LEMMA RecomputeType ==
    ASSUME NEW t \in Terminal
    PROVE  /\ Recompute(t) \in Terminal
           /\ Recompute(t) = [t EXCEPT !.state = Arbitrated(t)]
  <1>1. Arbitrated(t) \in States
    BY DEF Arbitrated, Terminal, Hook, States
  <1> QED BY <1>1 DEF Recompute, Terminal

LEMMA FunctionIsSequence ==
    ASSUME NEW S, NEW q \in Seq(S), NEW f \in [DOMAIN q -> S]
    PROVE  f \in Seq(S)
  <1>1. Len(q) \in Nat /\ DOMAIN q = 1..Len(q)
    BY LenProperties
  <1> QED BY <1>1

LEMMA MarkedTypes ==
    ASSUME NEW o \in Observation, NEW r \in Reporters
    PROVE  /\ [o EXCEPT !.before = @ \cup {r}] \in Observation
           /\ [o EXCEPT !.late = TRUE] \in Observation
  <1>1. o.before \cup {r} \in SUBSET Reporters
    BY DEF Observation
  <1> QED BY <1>1 DEF Observation

LEMMA SuppressType ==
    ASSUME NEW t \in Terminal, NEW r \in Reporters, NEW s \in Sessions \cup {NoSession},
           NEW why \in {"clear", "exit"}
    PROVE  SuppressAs(t, r, s, why) \in Terminal
  <1> DEFINE sup == [t.suppressed EXCEPT ![r] = [why |-> why, session |-> s]]
             news == [i \in DOMAIN t.news |-> [t.news[i] EXCEPT !.before = @ \cup {r}]]
  <1>1. sup \in [Reporters -> Suppression]
    BY DEF Terminal, Suppression
  <1>2. news \in Seq(Observation)
    <2>1. t.news \in Seq(Observation)
      BY DEF Terminal
    <2>2. \A i \in DOMAIN t.news : t.news[i] \in Observation
      BY <2>1, LenProperties, ElementOfSeq
    <2>3. news \in [DOMAIN t.news -> Observation]
      BY <2>2, MarkedTypes
    <2> HIDE DEF news
    <2> QED BY <2>1, <2>3, FunctionIsSequence
  <1>3. SuppressAs(t, r, s, why) = [t EXCEPT !.suppressed = sup, !.news = news]
    BY DEF SuppressAs, Terminal
  <1> QED BY <1>1, <1>2, <1>3 DEF Terminal

-----------------------------------------------------------------------------
(* What the steps of the handlers do to suppressed and stale conversations. *)

\* What r's suppressed and stale conversations are in t they are in u, or more of them.
Keeps(t, u, r) ==
    /\ t.stale[r] \subseteq u.stale[r]
    /\ \/ u.suppressed[r] = t.suppressed[r]
       \/ t.suppressed[r].why = "none"
       \/ t.suppressed[r].session \in u.stale[r] \cup {NoSession}

LEMMA KeptIsRefused ==
    ASSUME NEW t, NEW u, NEW e, Keeps(t, u, e.by), e.session # NoSession, Refused(t, e)
    PROVE  Refused(u, e)
  BY DEF Keeps, Refused

LEMMA KeepsAgain ==
    ASSUME NEW t, NEW u, NEW v, NEW r, Keeps(t, u, r), Keeps(u, v, r)
    PROVE  Keeps(t, v, r)
  BY DEF Keeps

LEMMA WithdrawFacts ==
    ASSUME NEW t \in Terminal, NEW why \in {"clear", "exit"}
    PROVE  LET w == Withdraw(t, why) IN
           /\ w \in Terminal
           /\ w.hook = NoHook /\ w.saved = t.saved /\ w.seqs = t.seqs /\ w.stale = t.stale
           /\ \A r \in Reporters : w.suppressed[r] =
                 IF Live(t) /\ r = t.hook.by THEN [why |-> why, session |-> t.hook.session]
                 ELSE t.suppressed[r]
  <1>1. CASE Live(t)
    <2> DEFINE m == SuppressAs(t, t.hook.by, t.hook.session, why)
    <2>1. t.hook.by \in Reporters /\ t.hook.session \in Sessions \cup {NoSession}
      BY <1>1, HookTypes DEF Live, Terminal, Hook
    <2>2. m \in Terminal
      BY <2>1, SuppressType
    <2>3. /\ m.saved = t.saved /\ m.seqs = t.seqs /\ m.stale = t.stale
          /\ m.suppressed = [t.suppressed EXCEPT ![t.hook.by] =
                                 [why |-> why, session |-> t.hook.session]]
      BY DEF SuppressAs, Terminal
    <2>4. Withdraw(t, why) = [m EXCEPT !.hook = NoHook]
      BY <1>1 DEF Withdraw
    <2> HIDE DEF m
    <2>5. [m EXCEPT !.hook = NoHook] \in Terminal
      BY <2>2, HookTypes DEF Terminal
    <2>6. t.suppressed \in [Reporters -> Suppression]
      BY DEF Terminal
    <2> DEFINE w == [m EXCEPT !.hook = NoHook]
    <2>7. /\ w.hook = NoHook /\ w.saved = m.saved /\ w.seqs = m.seqs /\ w.stale = m.stale
          /\ w.suppressed = m.suppressed
      BY <2>2 DEF Terminal
    <2>8. \A r \in Reporters : m.suppressed[r] =
             IF r = t.hook.by THEN [why |-> why, session |-> t.hook.session]
             ELSE t.suppressed[r]
      BY <2>1, <2>3, <2>6
    <2> HIDE DEF w
    <2>9. Withdraw(t, why) = w /\ w \in Terminal
      BY <2>4, <2>5 DEF w
    <2> QED BY <1>1, <2>3, <2>7, <2>8, <2>9
  <1>2. CASE ~Live(t)
    <2>1. Withdraw(t, why) = [t EXCEPT !.hook = NoHook]
      BY <1>2 DEF Withdraw
    <2> QED BY <1>2, <2>1, HookTypes DEF Terminal
  <1> QED BY <1>1, <1>2

LEMMA WithdrawKeeps ==
    ASSUME NEW t \in Terminal, NEW why \in {"clear", "exit"},
           Live(t) => t.suppressed[t.hook.by].why = "none"
    PROVE  /\ \A r \in Reporters : Keeps(t, Withdraw(t, why), r)
           /\ Live(t) => Refused(Withdraw(t, why), HookOwner(t))
  <1> DEFINE w == Withdraw(t, why)
  <1>1. /\ w.stale = t.stale
        /\ \A r \in Reporters : w.suppressed[r] =
              IF Live(t) /\ r = t.hook.by THEN [why |-> why, session |-> t.hook.session]
              ELSE t.suppressed[r]
    BY WithdrawFacts
  <1>2. Live(t) => t.hook.by \in Reporters
    BY HookTypes DEF Live
  <1> HIDE DEF w
  <1>3. \A r \in Reporters : Keeps(t, w, r)
    BY <1>1 DEF Keeps
  <1>4. Live(t) => Refused(w, HookOwner(t))
    BY <1>1, <1>2 DEF Refused, HookOwner
  <1> QED BY <1>3, <1>4 DEF w

LEMMA UnsuppressFacts ==
    ASSUME NEW t \in Terminal, NEW previous, NEW agent
    PROVE  LET u == Unsuppress(t, previous, agent) IN
           /\ u \in Terminal
           /\ u.hook = t.hook /\ u.saved = t.saved
           /\ \A r \in Reporters :
                 /\ Keeps(t, u, r)
                 /\ t.suppressed[r].why = "none" => u.suppressed[r].why = "none"
                 /\ \/ u.seqs[r] = t.seqs[r]
                    \/ r \in Lifecycle /\ agent # NoAgent /\ AgentOf[r] = agent
  <1>1. CASE agent = NoAgent \/ agent = previous
    <2>1. Unsuppress(t, previous, agent) = t
      BY <1>1 DEF Unsuppress
    <2> QED BY <2>1 DEF Keeps
  <1>2. CASE ~(agent = NoAgent \/ agent = previous)
    <2> DEFINE cleared == {r \in Reporters : AgentOf[r] = agent /\ t.suppressed[r].why # "none"}
               sup == [r \in Reporters |->
                          IF r \in cleared THEN NotSuppressed ELSE t.suppressed[r]]
               old == [r \in Reporters |->
                          IF r \in cleared
                          THEN t.stale[r] \cup ({t.suppressed[r].session} \ {NoSession})
                          ELSE t.stale[r]]
               num == [r \in Reporters |->
                          IF r \in Lifecycle /\ AgentOf[r] = agent THEN 0 ELSE t.seqs[r]]
    <2>1. Unsuppress(t, previous, agent)
             = [t EXCEPT !.suppressed = sup, !.stale = old, !.seqs = num]
      BY <1>2 DEF Unsuppress
    <2>2. /\ t.suppressed \in [Reporters -> Suppression]
          /\ t.stale \in [Reporters -> SUBSET Sessions]
          /\ t.seqs \in [Reporters -> Nat]
      BY DEF Terminal
    <2>3. sup \in [Reporters -> Suppression]
      BY <2>2, HookTypes
    <2>4. old \in [Reporters -> SUBSET Sessions]
      <3>1. \A r \in Reporters : {t.suppressed[r].session} \ {NoSession} \in SUBSET Sessions
        BY <2>2 DEF Suppression
      <3> QED BY <2>2, <3>1
    <2>5. num \in [Reporters -> Nat]
      BY <2>2
    <2>6. \A r \in Reporters : sup[r] = t.suppressed[r] \/ sup[r] = NotSuppressed
      OBVIOUS
    <2>7. \A r \in Reporters : /\ t.stale[r] \subseteq old[r]
                               /\ r \in cleared =>
                                     t.suppressed[r].session \in old[r] \cup {NoSession}
                               /\ r \notin cleared => sup[r] = t.suppressed[r]
      OBVIOUS
    <2>8. \A r \in Reporters : num[r] = t.seqs[r] \/ (r \in Lifecycle /\ AgentOf[r] = agent)
      OBVIOUS
    <2> HIDE DEF sup, old, num
    <2> DEFINE u == [t EXCEPT !.suppressed = sup, !.stale = old, !.seqs = num]
    <2>9. u \in Terminal
      BY <2>3, <2>4, <2>5 DEF Terminal
    <2>10. /\ u.hook = t.hook /\ u.saved = t.saved
           /\ u.suppressed = sup /\ u.stale = old /\ u.seqs = num
      BY DEF Terminal
    <2> HIDE DEF u
    <2>11. \A r \in Reporters : Keeps(t, u, r)
      BY <2>7, <2>10 DEF Keeps
    <2> QED BY <1>2, <2>1, <2>6, <2>8, <2>9, <2>10, <2>11 DEF NotSuppressed, u
  <1> QED BY <1>1, <1>2

LEMMA TakeFacts ==
    ASSUME NEW t \in Terminal, NEW r \in Reporters, NEW state \in States,
           NEW s \in Sessions \cup {NoSession}
    PROVE  LET k == TakeHook(t, r, state, s) IN
           /\ k \in Terminal
           /\ k.hook = [by |-> r, state |-> state, session |-> s]
           /\ k.saved = NoOwner /\ k.seqs = t.seqs
           /\ \A q \in Reporters : Keeps(t, k, q)
           /\ s # NoSession => k.suppressed[r].why = "none"
           /\ s = NoSession => k.suppressed = t.suppressed
  <1> DEFINE news == [i \in DOMAIN t.news |-> [t.news[i] EXCEPT !.late = TRUE]]
             hook == [by |-> r, state |-> state, session |-> s]
             sup == IF s = NoSession THEN t.suppressed
                    ELSE [t.suppressed EXCEPT ![r] = NotSuppressed]
             old == IF s = NoSession \/ t.suppressed[r].session = NoSession THEN t.stale
                    ELSE [t.stale EXCEPT ![r] = @ \cup {t.suppressed[r].session}]
             k == [t EXCEPT !.saved = NoOwner, !.fresh = FALSE, !.hook = hook, !.news = news,
                            !.suppressed = sup, !.stale = old]
  <1>1. /\ t.suppressed \in [Reporters -> Suppression]
        /\ t.stale \in [Reporters -> SUBSET Sessions]
        /\ t.news \in Seq(Observation)
    BY DEF Terminal
  <1>2. news \in Seq(Observation)
    <2>1. \A i \in DOMAIN t.news : t.news[i] \in Observation
      BY <1>1, LenProperties, ElementOfSeq
    <2>2. news \in [DOMAIN t.news -> Observation]
      BY <2>1, MarkedTypes
    <2> HIDE DEF news
    <2> QED BY <1>1, <2>2, FunctionIsSequence
  <1>3. hook \in Hook
    BY DEF Hook
  <1>4. sup \in [Reporters -> Suppression]
    BY <1>1, HookTypes
  <1>5. old \in [Reporters -> SUBSET Sessions]
    BY <1>1 DEF Suppression
  <1>6. TakeHook(t, r, state, s) = k
    <2>1. CASE s = NoSession
      BY <2>1 DEF TakeHook, Terminal
    <2>2. CASE s # NoSession /\ t.suppressed[r].session = NoSession
      BY <2>2 DEF TakeHook, RememberStale, Terminal
    <2>3. CASE s # NoSession /\ t.suppressed[r].session # NoSession
      BY <2>3 DEF TakeHook, RememberStale, Terminal
    <2> QED BY <2>1, <2>2, <2>3
  <1>7. /\ \A q \in Reporters : t.stale[q] \subseteq old[q]
        /\ \A q \in Reporters \ {r} : sup[q] = t.suppressed[q]
        /\ s = NoSession => sup = t.suppressed
        /\ s # NoSession => /\ sup[r] = NotSuppressed
                            /\ t.suppressed[r].session \in old[r] \cup {NoSession}
    BY <1>1
  <1> HIDE DEF news, hook, sup, old
  <1>8. k \in Terminal
    BY <1>2, <1>3, <1>4, <1>5, HookTypes DEF Terminal
  <1>9. /\ k.hook = hook /\ k.saved = NoOwner /\ k.seqs = t.seqs
        /\ k.suppressed = sup /\ k.stale = old
    BY DEF Terminal
  <1> HIDE DEF k
  <1>10. \A q \in Reporters : Keeps(t, k, q)
    BY <1>7, <1>9 DEF Keeps
  <1> QED BY <1>6, <1>7, <1>8, <1>9, <1>10 DEF NotSuppressed, hook

-----------------------------------------------------------------------------
(* The handlers.                                                           *)

\* No reporter is suppressed under its own hook.
Unmuted(t) == Live(t) => t.suppressed[t.hook.by].why = "none"

\* What every handler makes of a terminal t: u is well formed, publishes what it arbitrates,
\* mutes no hook, and its counts go back only with the hook or for a source with stale
\* conversations.
Settled(t, u) ==
    /\ u \in Terminal /\ u.state = Arbitrated(u) /\ Unmuted(u)
    /\ t.hook.by # Nobody /\ u.hook.by = t.hook.by /\ t.stale[t.hook.by] = {}
          => u.seqs[t.hook.by] >= t.seqs[t.hook.by]

LEMMA LiveFacts ==
    ASSUME NEW t \in Terminal
    PROVE  /\ Live(t) => t.hook.by \in Reporters /\ t.hook.by # Nobody
           /\ t.hook.by # Nobody => t.hook.by \in Reporters
           /\ t.hook = NoHook => ~Live(t) /\ t.hook.by = Nobody
  BY HookTypes DEF Live, Terminal, Hook, NoHook

\* The state is arbitrated anew whatever it was.
LEMMA RecomputeFacts ==
    ASSUME NEW t \in Terminal
    PROVE  LET u == Recompute(t) IN
           /\ u \in Terminal /\ u.state = Arbitrated(u)
           /\ u.hook = t.hook /\ u.saved = t.saved /\ u.seqs = t.seqs
           /\ u.suppressed = t.suppressed /\ u.stale = t.stale
           /\ u.detected = t.detected
  <1> DEFINE u == [t EXCEPT !.state = Arbitrated(t)]
  <1>1. Recompute(t) = u /\ Recompute(t) \in Terminal
    BY RecomputeType
  <1>2. /\ u.hook = t.hook /\ u.saved = t.saved /\ u.seqs = t.seqs
        /\ u.suppressed = t.suppressed /\ u.stale = t.stale /\ u.detected = t.detected
        /\ u.blocker = t.blocker /\ u.fresh = t.fresh /\ u.fallback = t.fallback
        /\ u.state = Arbitrated(t)
    BY DEF Terminal
  <1> HIDE DEF u
  <1>3. Arbitrated(u) = Arbitrated(t)
    BY <1>2 DEF Arbitrated, BlockerOverrides, Live
  <1> QED BY <1>1, <1>2, <1>3

LEMMA CountFacts ==
    ASSUME NEW t \in Terminal, NEW r \in Reporters, NEW n \in Nat, Accepts(t, r, n)
    PROVE  LET u == Count(t, r, n) IN
           /\ u \in Terminal
           /\ u.hook = t.hook /\ u.saved = t.saved /\ u.suppressed = t.suppressed
           /\ u.stale = t.stale /\ u.detected = t.detected /\ u.news = t.news
           /\ u.state = t.state /\ Arbitrated(u) = Arbitrated(t)
           /\ \A q \in Reporters : u.seqs[q] >= t.seqs[q]
  <1>0. t.seqs \in [Reporters -> Nat]
    BY DEF Terminal
  <1>1. CASE n = 0
    <2>1. Count(t, r, n) = t
      BY <1>1 DEF Count
    <2> QED BY <1>0, <2>1
  <1>2. CASE n # 0
    <2> DEFINE num == [t.seqs EXCEPT ![r] = n]
               u == [t EXCEPT !.seqs = num]
    <2>1. num \in [Reporters -> Nat] /\ \A q \in Reporters : num[q] >= t.seqs[q]
      BY <1>0, <1>2 DEF Accepts
    <2>2. Count(t, r, n) = u
      BY <1>2 DEF Count
    <2> HIDE DEF num
    <2>3. /\ u.hook = t.hook /\ u.saved = t.saved /\ u.suppressed = t.suppressed
          /\ u.stale = t.stale /\ u.detected = t.detected /\ u.news = t.news
          /\ u.state = t.state /\ u.blocker = t.blocker /\ u.fresh = t.fresh
          /\ u.fallback = t.fallback /\ u.seqs = num
      BY DEF Terminal
    <2>4. u \in Terminal
      BY <2>1 DEF Terminal
    <2> HIDE DEF u
    <2>5. Arbitrated(u) = Arbitrated(t)
      BY <2>3 DEF Arbitrated, BlockerOverrides, Live
    <2> QED BY <2>1, <2>2, <2>3, <2>4, <2>5
  <1> QED BY <1>1, <1>2

LEMMA EndHookFacts ==
    ASSUME NEW t \in Terminal, NEW o \in Observation, Unmuted(t)
    PROVE  LET u == EndHook(t, o) IN
           /\ u \in Terminal /\ u.saved = t.saved
           /\ \A r \in Reporters : Keeps(t, u, r)
           /\ \/ u = t /\ ~(o.exited /\ HookNotNewer(t, o) /\ LabelAgent(t.hook.by) = o.agent)
              \/ /\ u.hook = NoHook /\ t.hook.by # Nobody
                 /\ o.exited /\ LabelAgent(t.hook.by) = o.agent
                 /\ Live(t) => Refused(u, HookOwner(t))
  <1>1. CASE o.exited /\ HookNotNewer(t, o) /\ LabelAgent(t.hook.by) = o.agent
    <2> DEFINE w == Withdraw(t, "exit")
               u == [w EXCEPT !.seqs[t.hook.by] = 0]
    <2>1. t.hook.by \in Reporters /\ t.hook.by # Nobody
      BY <1>1, LiveFacts DEF HookNotNewer
    <2>2. w \in Terminal /\ w.hook = NoHook /\ w.saved = t.saved
      BY WithdrawFacts
    <2>3. /\ \A r \in Reporters : Keeps(t, w, r)
          /\ Live(t) => Refused(w, HookOwner(t))
      BY WithdrawKeeps DEF Unmuted
    <2>4. EndHook(t, o) = u
      BY <1>1 DEF EndHook
    <2> HIDE DEF w
    <2>5. u \in Terminal
      BY <2>1, <2>2 DEF Terminal
    <2>6. /\ u.hook = w.hook /\ u.saved = w.saved
          /\ u.suppressed = w.suppressed /\ u.stale = w.stale
      BY <2>2 DEF Terminal
    <2> HIDE DEF u
    <2>7. \A r \in Reporters : Keeps(t, u, r)
      BY <2>3, <2>6 DEF Keeps
    <2>8. Live(t) => Refused(u, HookOwner(t))
      BY <2>3, <2>6 DEF Refused
    <2> QED BY <1>1, <2>1, <2>2, <2>4, <2>5, <2>6, <2>7, <2>8
  <1>2. CASE ~(o.exited /\ HookNotNewer(t, o) /\ LabelAgent(t.hook.by) = o.agent)
    <2>1. EndHook(t, o) = t
      BY <1>2 DEF EndHook
    <2> QED BY <1>2, <2>1 DEF Keeps
  <1> QED BY <1>1, <1>2

LEMMA EndSavedFacts ==
    ASSUME NEW t \in Terminal, NEW o \in Observation
    PROVE  LET u == EndSaved(t, o) IN
           /\ u \in Terminal /\ u.hook = t.hook /\ u.seqs = t.seqs
           /\ u.suppressed = t.suppressed /\ u.stale = t.stale
           /\ \/ u.saved = NoOwner
              \/ /\ u.saved = t.saved
                 /\ o.exited => t.saved.by = Nobody \/ LabelAgent(t.saved.by) # o.agent
  <1>1. CASE o.exited /\ t.saved.by # Nobody /\ LabelAgent(t.saved.by) = o.agent
    <2>1. EndSaved(t, o) = [t EXCEPT !.saved = NoOwner]
      BY <1>1 DEF EndSaved
    <2>2. [t EXCEPT !.saved = NoOwner] \in Terminal
      BY HookTypes DEF Terminal
    <2> QED BY <2>1, <2>2 DEF Terminal
  <1>2. CASE ~(o.exited /\ t.saved.by # Nobody /\ LabelAgent(t.saved.by) = o.agent)
    <2>1. EndSaved(t, o) = t
      BY <1>2 DEF EndSaved
    <2> QED BY <1>2, <2>1
  <1> QED BY <1>1, <1>2

LEMMA DisplaceFacts ==
    ASSUME NEW t \in Terminal, NEW o \in Observation, NEW previous, Unmuted(t)
    PROVE  LET u == Displace(t, previous, o) IN
           /\ u \in Terminal
           /\ \A r \in Reporters : Keeps(t, u, r)
           /\ \/ u = t
              \/ /\ u.hook = NoHook /\ t.hook.by # Nobody
                 /\ u.saved = IF t.hook.session = NoSession THEN NoOwner ELSE HookOwner(t)
                 /\ HookNotNewer(t, o)
  <1> DEFINE w == Withdraw(t, "clear")
             left == IF t.hook.session = NoSession THEN NoOwner ELSE HookOwner(t)
             u == [w EXCEPT !.saved = left]
  <1>1. Displace(t, previous, o) = t \/ (Displace(t, previous, o) = u /\ HookNotNewer(t, o))
    BY DEF Displace
  <1>2. CASE Displace(t, previous, o) = t
    BY <1>2 DEF Keeps
  <1>3. CASE Displace(t, previous, o) = u /\ HookNotNewer(t, o)
    <2>0. t.hook.by \in Reporters
      BY <1>3, LiveFacts DEF HookNotNewer
    <2>1. left \in Owner
      BY <2>0, HookTypes DEF Terminal, Hook, Owner, HookOwner
    <2>2. w \in Terminal /\ w.hook = NoHook
      BY WithdrawFacts
    <2>3. \A r \in Reporters : Keeps(t, w, r)
      BY WithdrawKeeps DEF Unmuted
    <2> HIDE DEF w, left
    <2>4. u \in Terminal
      BY <2>1, <2>2 DEF Terminal
    <2>5. /\ u.hook = w.hook /\ u.saved = left
          /\ u.suppressed = w.suppressed /\ u.stale = w.stale
      BY <2>2 DEF Terminal
    <2> HIDE DEF u
    <2>6. \A r \in Reporters : Keeps(t, u, r)
      BY <2>3, <2>5 DEF Keeps
    <2> QED BY <1>3, <2>2, <2>4, <2>5, <2>6 DEF left, HookNotNewer
  <1> QED BY <1>1, <1>2, <1>3

\* What an observation does.
LEMMA SetDetectedFacts ==
    ASSUME NEW t \in Terminal, NEW o \in Observation, Unmuted(t)
    PROVE  LET u == SetDetected(t, o) IN
           /\ Settled(t, u)
           /\ \A r \in Reporters : Keeps(t, u, r)
           /\ u.hook \in {t.hook, NoHook}
           /\ \/ u.saved \in {t.saved, NoOwner}
              \/ /\ u.saved = HookOwner(t) /\ u.hook = NoHook
                 /\ t.hook.by # Nobody /\ t.hook.session # NoSession
           /\ o.exited /\ o.agent = LabelAgent(t.hook.by) /\ Live(t) /\ u.hook = NoHook
                 => Refused(u, HookOwner(t)) /\ u.saved # HookOwner(t)
  <1> DEFINE seen == See(t, o)
             told == IF o.exited THEN seen ELSE Unsuppress(seen, t.detected, o.agent)
             ended == EndHook(told, o)
             rid == EndSaved(ended, o)
             gone == Displace(rid, t.detected, o)
  <1>1. /\ seen \in Terminal
        /\ seen.hook = t.hook /\ seen.saved = t.saved /\ seen.seqs = t.seqs
        /\ seen.suppressed = t.suppressed /\ seen.stale = t.stale
    <2>1. /\ o.agent \in Agents \cup {NoAgent} /\ o.state \in States
          /\ (o.blocker /\ o.state = "blocked") \in BOOLEAN /\ (~o.late) \in BOOLEAN
      BY DEF Observation
    <2>2. seen \in Terminal
      BY <2>1 DEF See, Terminal
    <2> QED BY <2>2 DEF See, Terminal
  <1> HIDE DEF seen
  <1>2. /\ told \in Terminal /\ told.hook = t.hook /\ told.saved = t.saved
        /\ \A r \in Reporters : Keeps(seen, told, r)
        /\ \A r \in Reporters : seen.suppressed[r].why = "none" => told.suppressed[r].why = "none"
        /\ \A r \in Reporters :
              \/ told.seqs[r] = t.seqs[r]
              \/ ~o.exited /\ r \in Lifecycle /\ o.agent # NoAgent /\ AgentOf[r] = o.agent
    <2>1. CASE o.exited
      BY <1>1, <2>1 DEF Keeps
    <2>2. CASE ~o.exited
      BY <1>1, <2>2, UnsuppressFacts
    <2> QED BY <2>1, <2>2
  <1> HIDE DEF told
  <1>3. \A r \in Reporters : Keeps(t, told, r)
    BY <1>1, <1>2 DEF Keeps
  <1>4. Unmuted(told)
    BY <1>1, <1>2, LiveFacts DEF Unmuted, Live
  <1>5. /\ ended \in Terminal /\ ended.saved = told.saved
        /\ \A r \in Reporters : Keeps(told, ended, r)
        /\ \/ ended = told
              /\ ~(o.exited /\ HookNotNewer(told, o) /\ LabelAgent(told.hook.by) = o.agent)
           \/ /\ ended.hook = NoHook /\ told.hook.by # Nobody
              /\ o.exited /\ LabelAgent(told.hook.by) = o.agent
              /\ Live(told) => Refused(ended, HookOwner(told))
    BY <1>2, <1>4, EndHookFacts
  <1> HIDE DEF ended
  <1>6. /\ rid \in Terminal /\ rid.hook = ended.hook /\ rid.seqs = ended.seqs
        /\ rid.suppressed = ended.suppressed /\ rid.stale = ended.stale
        /\ \/ rid.saved = NoOwner
           \/ /\ rid.saved = ended.saved
              /\ o.exited => ended.saved.by = Nobody \/ LabelAgent(ended.saved.by) # o.agent
    BY <1>5, EndSavedFacts
  <1> HIDE DEF rid
  <1>7. Unmuted(ended) /\ Unmuted(rid)
    BY <1>4, <1>5, <1>6, LiveFacts DEF Unmuted, Live
  <1>8. /\ gone \in Terminal
        /\ \A r \in Reporters : Keeps(rid, gone, r)
        /\ \/ gone = rid
           \/ /\ gone.hook = NoHook /\ rid.hook.by # Nobody
              /\ gone.saved = IF rid.hook.session = NoSession THEN NoOwner ELSE HookOwner(rid)
              /\ HookNotNewer(rid, o)
    BY <1>6, <1>7, DisplaceFacts
  <1> HIDE DEF gone
  <1>9. \A r \in Reporters : Keeps(t, gone, r)
    <2>1. \A r \in Reporters : Keeps(ended, rid, r)
      BY <1>6 DEF Keeps
    <2> QED BY <1>3, <1>5, <1>8, <2>1, KeepsAgain
  <1>10. Unmuted(gone)
    BY <1>7, <1>8, LiveFacts DEF Unmuted
  <1>11. \/ gone.hook = t.hook /\ gone.saved \in {t.saved, NoOwner}
         \/ gone.hook = NoHook
    BY <1>2, <1>5, <1>6, <1>8
  <1>12. \/ gone.saved \in {t.saved, NoOwner}
         \/ /\ gone.saved = HookOwner(t) /\ gone.hook = NoHook
            /\ t.hook.by # Nobody /\ t.hook.session # NoSession
    <2>1. rid.saved \in {t.saved, NoOwner}
      BY <1>2, <1>5, <1>6
    <2>2. rid.hook \in {t.hook, NoHook}
      BY <1>2, <1>5, <1>6
    <2>3. rid.hook.by # Nobody => rid.hook = t.hook
      BY <2>2 DEF NoHook
    <2> QED BY <1>8, <2>1, <2>3 DEF HookOwner
  <1>13. gone.hook = t.hook /\ t.hook.by # Nobody =>
            gone.seqs[t.hook.by] = told.seqs[t.hook.by] /\ gone = rid /\ rid.hook = t.hook
    <2>1. SUFFICES ASSUME gone.hook = t.hook, t.hook.by # Nobody
                   PROVE  gone.seqs[t.hook.by] = told.seqs[t.hook.by] /\ gone = rid
                          /\ rid.hook = t.hook
      OBVIOUS
    <2>2. gone.hook # NoHook
      BY <2>1 DEF NoHook
    <2>3. gone = rid
      BY <1>8, <2>2
    <2>4. ended = told
      BY <1>5, <1>6, <2>2, <2>3
    <2> QED BY <1>6, <2>1, <2>3, <2>4
  <1>14. ASSUME o.exited, o.agent = LabelAgent(t.hook.by), Live(t), gone.hook = NoHook
         PROVE  Refused(gone, HookOwner(t)) /\ gone.saved # HookOwner(t)
    <2>1. t.hook.by # Nobody /\ told.hook.by # Nobody
      BY <1>2, <1>14, LiveFacts
    <2>2. ended # told
      <3>1. SUFFICES ASSUME ended = told PROVE FALSE
        OBVIOUS
      <3>2. rid.hook = t.hook /\ t.hook # NoHook
        BY <1>2, <1>6, <2>1, <3>1 DEF NoHook
      <3>3. HookNotNewer(rid, o)
        BY <1>8, <1>14, <3>2
      <3>4. HookNotNewer(told, o)
        BY <1>2, <3>2, <3>3 DEF HookNotNewer
      <3> QED BY <1>2, <1>5, <1>14, <2>1, <3>1, <3>4 DEF NoHook
    <2>3. ended.hook = NoHook /\ Refused(ended, HookOwner(told))
      BY <1>2, <1>5, <1>14, <2>2 DEF Live
    <2>4. HookOwner(told) = HookOwner(t) /\ HookOwner(t).by = t.hook.by
      BY <1>2 DEF HookOwner
    <2>5. gone = rid
      BY <1>6, <1>8, <2>3 DEF NoHook
    <2>6. Refused(gone, HookOwner(t))
      BY <1>6, <2>3, <2>4, <2>5 DEF Refused
    <2>7. gone.saved # HookOwner(t)
      BY <1>5, <1>6, <1>14, <2>1, <2>4, <2>5 DEF NoOwner
    <2> QED BY <2>6, <2>7
  <1> DEFINE kept == [t EXCEPT !.detected = o.agent]
  <1>15. /\ kept \in Terminal
         /\ kept.hook = t.hook /\ kept.saved = t.saved /\ kept.seqs = t.seqs
         /\ kept.suppressed = t.suppressed /\ kept.stale = t.stale
    <2>1. o.agent \in Agents \cup {NoAgent}
      BY DEF Observation
    <2> QED BY <2>1 DEF Terminal
  <1> HIDE DEF kept
  <1> DEFINE x == IF IsIgnored(t, o)
                  THEN IF LabelAgent(t.hook.by) = o.agent THEN kept ELSE t
                  ELSE IF PrecedesSuppression(t, o) THEN t ELSE gone
  <1>16. SetDetected(t, o) = Recompute(x)
    BY DEF SetDetected, kept, gone, rid, ended, told, seen
  <1>17. t.seqs \in [Reporters -> Nat]
    BY DEF Terminal
  <1>18. CASE x \in {t, kept}
    <2>1. /\ x \in Terminal
          /\ x.hook = t.hook /\ x.saved = t.saved /\ x.seqs = t.seqs
          /\ x.suppressed = t.suppressed /\ x.stale = t.stale
      BY <1>15, <1>18
    <2>2. Live(t) => t.hook # NoHook
      BY LiveFacts
    <2> HIDE DEF x
    <2> DEFINE u == Recompute(x)
    <2>3. /\ u \in Terminal /\ u.state = Arbitrated(u)
          /\ u.hook = t.hook /\ u.saved = t.saved /\ u.seqs = t.seqs
          /\ u.suppressed = t.suppressed /\ u.stale = t.stale
      BY <2>1, RecomputeFacts
    <2> HIDE DEF u
    <2>4. Settled(t, u)
      BY <1>17, <2>3, LiveFacts DEF Settled, Unmuted, Live
    <2>5. \A r \in Reporters : Keeps(t, u, r)
      BY <2>3 DEF Keeps
    <2> QED BY <1>16, <2>2, <2>3, <2>4, <2>5 DEF u
  <1>19. CASE x = gone /\ ~IsIgnored(t, o)
    <2> HIDE DEF x
    <2> DEFINE u == Recompute(x)
    <2>3. /\ u \in Terminal /\ u.state = Arbitrated(u)
          /\ u.hook = gone.hook /\ u.saved = gone.saved /\ u.seqs = gone.seqs
          /\ u.suppressed = gone.suppressed /\ u.stale = gone.stale
      BY <1>8, <1>19, RecomputeFacts
    <2> HIDE DEF u
    <2>4. Unmuted(u)
      BY <1>10, <2>3 DEF Unmuted, Live
    <2>5. \A r \in Reporters : Keeps(t, u, r)
      BY <1>9, <2>3 DEF Keeps
    <2>6. ASSUME t.hook.by # Nobody, u.hook.by = t.hook.by
          PROVE  u.seqs[t.hook.by] >= t.seqs[t.hook.by]
      <3>1. gone.hook = t.hook
        BY <1>11, <2>3, <2>6 DEF NoHook
      <3>2. u.seqs[t.hook.by] = told.seqs[t.hook.by]
        BY <1>13, <2>3, <2>6, <3>1
      <3>3. t.hook.by \in Reporters
        BY <2>6, LiveFacts
      <3>4. told.seqs[t.hook.by] = t.seqs[t.hook.by]
        <4>1. SUFFICES ASSUME ~o.exited, t.hook.by \in Lifecycle, AgentOf[t.hook.by] = o.agent
                       PROVE  FALSE
          BY <1>2, <3>3
        <4> QED BY <1>19, <2>6, <4>1 DEF IsIgnored, Live, LabelAgent
      <3> QED BY <1>17, <3>2, <3>3, <3>4
    <2>7. Settled(t, u)
      BY <2>3, <2>4, <2>6 DEF Settled
    <2>8. Refused(u, HookOwner(t)) <=> Refused(gone, HookOwner(t))
      BY <2>3 DEF Refused
    <2> QED BY <1>11, <1>12, <1>14, <1>16, <2>3, <2>5, <2>7, <2>8 DEF u
  <1> QED BY <1>18, <1>19

LEMMA WithdrawnUnmuted ==
    ASSUME NEW t, t.hook = NoHook
    PROVE  Unmuted(t)
  BY HookTypes DEF Unmuted, Live, NoHook

\* A report that names a conversation which is not refused.
LEMMA HeardFacts ==
    ASSUME NEW t \in Terminal, NEW r \in Lifecycle, NEW s \in Sessions \cup {NoSession},
           ~IsSuppressed(t, r, s), ~IsStale(t, r, s)
    PROVE  /\ s = NoSession => t.suppressed[r].why = "none"
           /\ ~Refused(t, [by |-> r, session |-> s])
  <1>1. t.suppressed[r].why \in {"none", "clear", "exit"}
    BY HookTypes DEF Terminal, Suppression
  <1> QED BY <1>1 DEF IsSuppressed, IsStale, Refused

\* What a report of a state does.
LEMMA SetHookFacts ==
    ASSUME NEW t \in Terminal, Unmuted(t), t.state = Arbitrated(t),
           NEW r \in Reporters, NEW state \in States,
           NEW s \in Sessions \cup {NoSession}, NEW n \in Nat
    PROVE  LET u == SetHook(t, r, state, s, n) IN
           /\ Settled(t, u)
           /\ \A q \in Reporters : Keeps(t, u, q)
           /\ \/ u = t
              \/ /\ u.saved = NoOwner /\ u.hook # NoHook
                 /\ Live(u) /\ u.hook.session # NoSession =>
                       \/ ~Refused(t, HookOwner(u))
                       \/ HookOwner(u) = HookOwner(t) /\ t.hook.by # Nobody
                       \/ HookOwner(u) = t.saved
  <1> DEFINE held == IF s # NoSession /\ ~Rethreads(t, r, s) /\ HoldsOther(t, r, s, "none")
                     THEN Identity(t).session ELSE s
             takeover == OwnerConflicts(t, r)
             counted == IF Reanchors(t, r, s) THEN [t EXCEPT !.seqs[r] = 0] ELSE t
             kept == Count(counted, r, n)
             base == IF takeover THEN Withdraw(kept, "clear") ELSE kept
             taken == TakeHook(base, r, state, held)
             u == SetHook(t, r, state, s, n)
  <1>0. t.seqs \in [Reporters -> Nat]
    BY DEF Terminal
  <1>1. CASE u = t
    <2>1. Settled(t, t)
      BY <1>0, LiveFacts DEF Settled
    <2> QED BY <1>1, <2>1 DEF Keeps
  <1>2. CASE u # t
    <2>1. /\ ~IsSuppressed(t, r, s) /\ ~IsStale(t, r, s)
          /\ takeover => s # NoSession
          /\ Accepts(counted, r, n)
          /\ u = Recompute(taken)
      BY <1>2 DEF SetHook
    <2>2. /\ held \in Sessions \cup {NoSession}
          /\ s = NoSession => held = NoSession
          /\ s # NoSession => held # NoSession
          /\ \/ held = s
             \/ Identity(t).by = r /\ held = Identity(t).session
      <3>1. Identity(t).by = r => Identity(t).session \in Sessions
        <4>1. t.hook.session \in Sessions \cup {NoSession} /\ t.saved \in Owner
          BY DEF Terminal, Hook
        <4>2. t.saved.by = r => t.saved.session \in Sessions
          BY <4>1, HookTypes DEF Owner, NoOwner
        <4> QED BY <4>1, <4>2 DEF Identity, HookOwner
      <3> QED BY <3>1, NamesAssumption DEF HoldsOther
    <2> HIDE DEF held
    <2>3. /\ counted \in Terminal /\ counted.hook = t.hook /\ counted.saved = t.saved
          /\ counted.suppressed = t.suppressed /\ counted.stale = t.stale
          /\ counted = t \/ Reanchors(t, r, s)
      <3>1. [t EXCEPT !.seqs[r] = 0] \in Terminal
        BY DEF Terminal
      <3> QED BY <3>1 DEF Terminal
    <2> HIDE DEF counted
    <2>4. /\ kept \in Terminal /\ kept.hook = t.hook /\ kept.saved = t.saved
          /\ kept.suppressed = t.suppressed /\ kept.stale = t.stale
          /\ \A q \in Reporters : kept.seqs[q] >= counted.seqs[q]
      BY <2>1, <2>3, CountFacts
    <2> HIDE DEF kept
    <2>5. Live(kept) => kept.suppressed[kept.hook.by].why = "none"
      BY <2>4 DEF Unmuted, Live
    <2>6. /\ base \in Terminal /\ base.seqs = kept.seqs
          /\ \A q \in Reporters : Keeps(kept, base, q)
          /\ s = NoSession => base.suppressed = t.suppressed
      <3>1. CASE takeover
        BY <2>1, <2>4, <2>5, <3>1, WithdrawFacts, WithdrawKeeps
      <3>2. CASE ~takeover
        BY <2>4, <3>2 DEF Keeps
      <3> QED BY <3>1, <3>2
    <2> HIDE DEF base, takeover
    <2>7. /\ taken \in Terminal
          /\ taken.hook = [by |-> r, state |-> state, session |-> held]
          /\ taken.saved = NoOwner /\ taken.seqs = base.seqs
          /\ \A q \in Reporters : Keeps(base, taken, q)
          /\ held # NoSession => taken.suppressed[r].why = "none"
          /\ held = NoSession => taken.suppressed = base.suppressed
      BY <2>2, <2>6, TakeFacts
    <2> HIDE DEF taken
    <2>8. /\ u \in Terminal /\ u.state = Arbitrated(u)
          /\ u.hook = taken.hook /\ u.saved = taken.saved /\ u.seqs = taken.seqs
          /\ u.suppressed = taken.suppressed /\ u.stale = taken.stale
      BY <2>1, <2>7, RecomputeFacts
    <2> HIDE DEF u
    <2>9. \A q \in Reporters : Keeps(t, u, q)
      <3>1. \A q \in Reporters : Keeps(t, kept, q) /\ Keeps(taken, u, q)
        BY <2>4, <2>8 DEF Keeps
      <3> QED BY <2>6, <2>7, <3>1, KeepsAgain
    <2>10. Unmuted(u)
      <3>1. u.hook.by = r
        BY <2>7, <2>8
      <3>2. CASE r \in Lifecycle /\ s = NoSession
        <4>1. t.suppressed[r].why = "none"
          BY <2>1, <3>2, HeardFacts
        <4>2. u.suppressed = t.suppressed
          BY <2>2, <2>6, <2>7, <2>8, <3>2
        <4> QED BY <3>1, <4>1, <4>2 DEF Unmuted
      <3>3. CASE s # NoSession
        BY <2>2, <2>7, <2>8, <3>1, <3>3 DEF Unmuted
      <3>4. CASE r \notin Lifecycle
        BY <3>1, <3>4 DEF Unmuted, Live
      <3> QED BY <3>2, <3>3, <3>4
    <2>11. ASSUME t.hook.by # Nobody, u.hook.by = t.hook.by, t.stale[t.hook.by] = {}
           PROVE  u.seqs[t.hook.by] >= t.seqs[t.hook.by]
      <3>1. t.hook.by = r
        BY <2>7, <2>8, <2>11
      <3>2. ~Reanchors(t, r, s)
        BY <2>11, <3>1 DEF Reanchors, Unmuted, Live
      <3>3. counted = t
        BY <2>3, <3>2
      <3> QED BY <2>4, <2>6, <2>7, <2>8, <3>1, <3>3
    <2>12. Settled(t, u)
      BY <2>8, <2>10, <2>11 DEF Settled
    <2>13. ASSUME Live(u), u.hook.session # NoSession
           PROVE  \/ ~Refused(t, HookOwner(u))
                  \/ HookOwner(u) = HookOwner(t) /\ t.hook.by # Nobody
                  \/ HookOwner(u) = t.saved
      <3>1. HookOwner(u) = [by |-> r, session |-> held] /\ r \in Lifecycle
        BY <2>7, <2>8, <2>13 DEF HookOwner, Live
      <3>2. CASE held = s
        BY <2>1, <3>1, <3>2, HeardFacts
      <3>3. CASE Identity(t).by = r /\ held = Identity(t).session
        <4>1. CASE t.hook.by # Nobody /\ t.hook.session # NoSession
          BY <3>1, <3>3, <4>1 DEF Identity, HookOwner
        <4>2. CASE ~(t.hook.by # Nobody /\ t.hook.session # NoSession)
          <5>1. t.saved.by = r /\ t.saved.session = held
            BY <3>3, <4>2 DEF Identity
          <5>2. t.saved \in Owner /\ r # Nobody
            BY HookTypes DEF Terminal
          <5>3. t.saved \in [by : Reporters, session : Sessions]
            BY <5>1, <5>2 DEF Owner, NoOwner
          <5> QED BY <3>1, <5>1, <5>3
        <4> QED BY <4>1, <4>2
      <3> QED BY <2>2, <3>2, <3>3
    <2>14. u.saved = NoOwner /\ u.hook # NoHook
      BY <2>7, <2>8, HookTypes DEF NoHook
    <2> QED BY <2>9, <2>12, <2>13, <2>14 DEF u
  <1> QED BY <1>1, <1>2

\* What the report of a conversation does.
LEMMA SetSessionFacts ==
    ASSUME NEW t \in Terminal, Unmuted(t), t.state = Arbitrated(t),
           NEW r \in Reporters, NEW s \in Sessions, NEW n \in Nat, NEW start
    PROVE  LET u == SetSession(t, r, s, n, start) IN
           /\ Settled(t, u)
           /\ \A e \in Owner : e # u.saved /\ e # NoOwner /\ Refused(t, e) => Refused(u, e)
           /\ u.hook \in {t.hook, NoHook}
           /\ u.saved \in {t.saved, [by |-> r, session |-> s]}
           /\ Live(t) /\ t.hook.session # NoSession /\ u.hook = NoHook
                 => Refused(u, HookOwner(t)) /\ u.saved # HookOwner(t)
  <1> DEFINE takeover == OwnerConflicts(t, r)
             replaces == Live(t) /\ t.hook.by = r /\ t.hook.session \notin {NoSession, s}
             kept == Count(t, r, n)
             lighter == [kept EXCEPT !.stale[r] = @ \ {s}]
             forgot == IF Allows(r, start) \/ takeover THEN lighter ELSE kept
             shifted == [RememberStale(forgot, r, t.hook.session) EXCEPT !.hook = NoHook]
             left == IF replaces THEN shifted
                     ELSE IF takeover THEN Withdraw(forgot, "clear") ELSE forgot
             named == [left EXCEPT !.saved = [by |-> r, session |-> s]]
             u == SetSession(t, r, s, n, start)
  <1>0. t.seqs \in [Reporters -> Nat]
    BY DEF Terminal
  <1>l. Live(t) => t.hook # NoHook
    BY LiveFacts
  <1>1. CASE u = t
    <2>1. Settled(t, t)
      BY <1>0, LiveFacts DEF Settled
    <2> QED BY <1>1, <1>l, <2>1
  <1>2. CASE Accepts(t, r, n)
    <2>1. /\ kept \in Terminal /\ kept.hook = t.hook /\ kept.saved = t.saved
          /\ kept.suppressed = t.suppressed /\ kept.stale = t.stale
          /\ kept.state = t.state /\ Arbitrated(kept) = Arbitrated(t)
          /\ \A q \in Reporters : kept.seqs[q] >= t.seqs[q]
      BY <1>2, CountFacts
    <2>u. u = kept \/ u = Recompute(named)
      BY <1>2 DEF SetSession
    <2> HIDE DEF kept
    <2>2. CASE u = kept
      <3>1. Settled(t, kept)
        BY <2>1, LiveFacts DEF Settled, Unmuted, Live
      <3>2. \A e \in Owner : Refused(t, e) => Refused(kept, e)
        BY <2>1 DEF Refused
      <3> QED BY <1>l, <2>1, <2>2, <3>1, <3>2
    <2>3. CASE u = Recompute(named)
      <3>1. /\ forgot \in Terminal /\ forgot.hook = t.hook /\ forgot.saved = t.saved
            /\ forgot.suppressed = t.suppressed /\ forgot.seqs = kept.seqs
            /\ \A q \in Reporters :
                  t.stale[q] \ (IF q = r THEN {s} ELSE {}) \subseteq forgot.stale[q]
        <4>1. kept.stale \in [Reporters -> SUBSET Sessions]
          BY <2>1 DEF Terminal
        <4> DEFINE stale == [kept.stale EXCEPT ![r] = @ \ {s}]
        <4>2. stale \in [Reporters -> SUBSET Sessions]
          BY <4>1
        <4>3. \A q \in Reporters : kept.stale[q] \ (IF q = r THEN {s} ELSE {}) \subseteq stale[q]
          BY <4>1
        <4>4. lighter = [kept EXCEPT !.stale = stale]
          BY <2>1 DEF Terminal
        <4> HIDE DEF stale
        <4>5. /\ lighter \in Terminal /\ lighter.hook = kept.hook /\ lighter.saved = kept.saved
              /\ lighter.suppressed = kept.suppressed /\ lighter.seqs = kept.seqs
              /\ lighter.stale = stale
          BY <2>1, <4>2, <4>4 DEF Terminal
        <4> HIDE DEF lighter
        <4>6. CASE forgot = lighter
          BY <2>1, <4>3, <4>5, <4>6
        <4>7. CASE forgot = kept
          BY <2>1, <4>7
        <4> QED BY <4>6, <4>7
      <3> HIDE DEF forgot
      <3>2. Unmuted(forgot)
        BY <3>1 DEF Unmuted, Live
      <3>3. /\ left \in Terminal /\ left.seqs = kept.seqs
            /\ \A q \in Reporters : Keeps(forgot, left, q)
            /\ \/ left = forgot /\ left.hook = t.hook
               \/ /\ left.hook = NoHook
                  /\ Live(t) /\ t.hook.session # NoSession =>
                        Refused(left, HookOwner(t)) /\ HookOwner(t) # [by |-> r, session |-> s]
        <4>1. CASE replaces
          <5>1. t.hook.session \in Sessions
            BY <4>1 DEF Terminal, Hook
          <5>2. /\ forgot.stale \in [Reporters -> SUBSET Sessions]
            BY <3>1 DEF Terminal
          <5> DEFINE stale == [forgot.stale EXCEPT ![r] = @ \cup {t.hook.session}]
          <5>3. /\ stale \in [Reporters -> SUBSET Sessions] /\ t.hook.session \in stale[r]
                /\ \A q \in Reporters : forgot.stale[q] \subseteq stale[q]
            BY <5>1, <5>2
          <5>4. shifted = [forgot EXCEPT !.stale = stale, !.hook = NoHook]
            BY <3>1, <4>1 DEF RememberStale, Terminal
          <5> HIDE DEF stale
          <5>5. /\ shifted \in Terminal /\ shifted.hook = NoHook /\ shifted.seqs = forgot.seqs
                /\ shifted.suppressed = forgot.suppressed /\ shifted.stale = stale
            BY <3>1, <5>3, <5>4, HookTypes DEF Terminal
          <5> HIDE DEF shifted
          <5>6. left = shifted
            BY <4>1
          <5>7. \A q \in Reporters : Keeps(forgot, shifted, q)
            BY <5>3, <5>5 DEF Keeps
          <5>8. Refused(shifted, HookOwner(t)) /\ HookOwner(t) # [by |-> r, session |-> s]
            BY <4>1, <5>3, <5>5 DEF Refused, HookOwner
          <5> QED BY <3>1, <5>5, <5>6, <5>7, <5>8
        <4>2. CASE ~replaces /\ takeover
          <5>1. left = Withdraw(forgot, "clear")
            BY <4>2
          <5> HIDE DEF left
          <5>2. /\ left \in Terminal /\ left.hook = NoHook /\ left.seqs = forgot.seqs
                /\ \A q \in Reporters : Keeps(forgot, left, q)
                /\ Live(forgot) => Refused(left, HookOwner(forgot))
            <6>1. Live(forgot) => forgot.suppressed[forgot.hook.by].why = "none"
              BY <3>2 DEF Unmuted
            <6>2. left \in Terminal /\ left.hook = NoHook /\ left.seqs = forgot.seqs
              BY <3>1, <5>1, WithdrawFacts
            <6>3. /\ \A q \in Reporters : Keeps(forgot, left, q)
                  /\ Live(forgot) => Refused(left, HookOwner(forgot))
              BY <3>1, <5>1, <6>1, WithdrawKeeps
            <6> QED BY <6>2, <6>3
          <5>3. HookOwner(forgot) = HookOwner(t) /\ (Live(forgot) <=> Live(t))
            BY <3>1 DEF HookOwner, Live
          <5>4. Live(t) /\ t.hook.session # NoSession => HookOwner(t) # [by |-> r, session |-> s]
            BY <4>2, LiveFacts DEF OwnerConflicts, Identity, HookOwner
          <5> QED BY <3>1, <5>2, <5>3, <5>4
        <4>3. CASE ~replaces /\ ~takeover
          BY <3>1, <4>3 DEF Keeps
        <4> QED BY <4>1, <4>2, <4>3
      <3> HIDE DEF left
      <3>4. /\ named \in Terminal /\ named.hook = left.hook
            /\ named.saved = [by |-> r, session |-> s] /\ named.seqs = left.seqs
            /\ named.suppressed = left.suppressed /\ named.stale = left.stale
        <4>1. [by |-> r, session |-> s] \in Owner
          BY DEF Owner
        <4> QED BY <3>3, <4>1 DEF Terminal
      <3> HIDE DEF named
      <3>5. /\ u \in Terminal /\ u.state = Arbitrated(u)
            /\ u.hook = left.hook /\ u.saved = [by |-> r, session |-> s] /\ u.seqs = left.seqs
            /\ u.suppressed = left.suppressed /\ u.stale = left.stale
        BY <2>3, <3>4, RecomputeFacts
      <3> HIDE DEF u
      <3>6. Unmuted(u)
        <4>1. CASE u.hook = NoHook
          BY <4>1, WithdrawnUnmuted
        <4>2. CASE left = forgot
          BY <3>2, <3>5, <4>2 DEF Unmuted, Live
        <4> QED BY <3>3, <3>5, <4>1, <4>2
      <3>7. Settled(t, u)
        BY <2>1, <3>3, <3>5, <3>6, LiveFacts DEF Settled
      <3>8. ASSUME NEW e \in Owner, e # u.saved, e # NoOwner, Refused(t, e)
            PROVE  Refused(u, e)
        <4>1. e.by \in Reporters /\ e.session \in Sessions /\ e # [by |-> r, session |-> s]
          BY <3>5, <3>8 DEF Owner
        <4>2. e.by = r => e.session # s
          BY <3>8, <4>1 DEF Owner
        <4>3. Refused(forgot, e)
          BY <3>1, <3>8, <4>1, <4>2 DEF Refused
        <4>4. Refused(left, e)
          BY <3>3, <4>1, <4>3, NamesAssumption, KeptIsRefused
        <4> QED BY <3>5, <4>4 DEF Refused
      <3>9. Live(t) /\ t.hook.session # NoSession /\ u.hook = NoHook
                 => Refused(u, HookOwner(t)) /\ u.saved # HookOwner(t)
        BY <1>l, <3>3, <3>5 DEF Refused
      <3>10. u.hook \in {t.hook, NoHook} /\ u.saved = [by |-> r, session |-> s]
        BY <3>3, <3>5
      <3> QED BY <3>7, <3>8, <3>9, <3>10 DEF u
    <2> QED BY <2>2, <2>3, <2>u
  <1> QED BY <1>1, <1>2 DEF SetSession

\* What a hook's request to drop its authority does.
LEMMA ClearHookFacts ==
    ASSUME NEW t \in Terminal, Unmuted(t), t.state = Arbitrated(t),
           NEW r \in Reporters, NEW n \in Nat
    PROVE  LET u == ClearHook(t, r, n) IN
           /\ Settled(t, u)
           /\ \A q \in Reporters : Keeps(t, u, q)
           /\ u.hook \in {t.hook, NoHook} /\ u.saved \in {t.saved, NoOwner}
  <1> DEFINE kept == Count(t, r, n)
             w == Withdraw(kept, "clear")
             v == [w EXCEPT !.saved = NoOwner]
             u == ClearHook(t, r, n)
  <1>0. t.seqs \in [Reporters -> Nat] /\ r # Nobody
    BY HookTypes DEF Terminal
  <1>1. CASE ~Accepts(t, r, n)
    <2>1. u = t
      BY <1>0, <1>1 DEF ClearHook
    <2>2. Settled(t, t)
      BY <1>0, LiveFacts DEF Settled
    <2> QED BY <2>1, <2>2 DEF Keeps
  <1>2. CASE Accepts(t, r, n)
    <2>1. /\ kept \in Terminal /\ kept.hook = t.hook /\ kept.saved = t.saved
          /\ kept.suppressed = t.suppressed /\ kept.stale = t.stale
          /\ kept.state = t.state /\ Arbitrated(kept) = Arbitrated(t)
          /\ \A q \in Reporters : kept.seqs[q] >= t.seqs[q]
      BY <1>2, CountFacts
    <2>2. u = kept \/ (u = Recompute(v) /\ t.hook.by # Nobody)
      BY <1>0, <1>2 DEF ClearHook
    <2> HIDE DEF kept
    <2>3. CASE u = kept
      <3>1. Settled(t, kept)
        BY <2>1, LiveFacts DEF Settled, Unmuted, Live
      <3> QED BY <2>1, <2>3, <3>1 DEF Keeps
    <2>4. CASE u = Recompute(v) /\ t.hook.by # Nobody
      <3>1. Live(kept) => kept.suppressed[kept.hook.by].why = "none"
        BY <2>1 DEF Unmuted, Live
      <3>2. w \in Terminal /\ w.hook = NoHook
        BY <2>1, WithdrawFacts
      <3>3. \A q \in Reporters : Keeps(kept, w, q)
        BY <2>1, <3>1, WithdrawKeeps
      <3> HIDE DEF w
      <3>4. v \in Terminal
        BY <3>2, HookTypes DEF Terminal
      <3>5. /\ v.hook = NoHook /\ v.saved = NoOwner
            /\ v.suppressed = w.suppressed /\ v.stale = w.stale
        BY <3>2 DEF Terminal
      <3> HIDE DEF v
      <3>6. /\ u \in Terminal /\ u.state = Arbitrated(u) /\ u.hook = NoHook /\ u.saved = NoOwner
            /\ u.suppressed = w.suppressed /\ u.stale = w.stale
        BY <2>4, <3>4, <3>5, RecomputeFacts
      <3> HIDE DEF u
      <3>7. Settled(t, u)
        BY <3>6, WithdrawnUnmuted DEF Settled, NoHook
      <3>8. \A q \in Reporters : Keeps(t, u, q)
        BY <2>1, <3>3, <3>6 DEF Keeps
      <3> QED BY <3>6, <3>7, <3>8 DEF u
    <2> QED BY <2>2, <2>3, <2>4
  <1> QED BY <1>1, <1>2

\* What a release does: only where no hook is held may it displace what was suppressed.
LEMMA ReleaseFacts ==
    ASSUME NEW t \in Terminal, Unmuted(t), t.state = Arbitrated(t),
           NEW r \in Reporters, NEW n \in Nat
    PROVE  LET u == Release(t, r, n) IN
           /\ Settled(t, u)
           /\ \A q \in Reporters : q # r \/ t.hook.by # Nobody \/ u = t => Keeps(t, u, q)
           /\ u.hook \in {t.hook, NoHook} /\ u.saved \in {t.saved, NoOwner}
           /\ Live(t) /\ u.hook = NoHook => Refused(u, HookOwner(t)) /\ u.saved # HookOwner(t)
  <1> DEFINE kept == Count(t, r, n)
             quiet == IF r \in Lifecycle THEN SuppressAs(kept, r, t.hook.session, "clear") ELSE kept
             left == IF quiet.saved.by \in {Nobody, r} THEN NoOwner ELSE quiet.saved
             v == [quiet EXCEPT
                     !.detected = NoAgent, !.fallback = "unknown", !.blocker = FALSE,
                     !.fresh = FALSE, !.hook = NoHook, !.saved = left]
             u == Release(t, r, n)
  <1>0. t.seqs \in [Reporters -> Nat] /\ r # Nobody
    BY HookTypes DEF Terminal
  <1>l. Live(t) => t.hook # NoHook
    BY LiveFacts
  <1>1. CASE ~Accepts(t, r, n)
    <2>1. u = t
      BY <1>1 DEF Release
    <2>2. Settled(t, t)
      BY <1>0, LiveFacts DEF Settled
    <2> QED BY <1>l, <2>1, <2>2 DEF Keeps
  <1>2. CASE Accepts(t, r, n)
    <2>1. /\ kept \in Terminal /\ kept.hook = t.hook /\ kept.saved = t.saved
          /\ kept.suppressed = t.suppressed /\ kept.stale = t.stale
          /\ kept.state = t.state /\ Arbitrated(kept) = Arbitrated(t)
          /\ \A q \in Reporters : kept.seqs[q] >= t.seqs[q]
      BY <1>2, CountFacts
    <2>q. /\ quiet \in Terminal /\ quiet.saved = kept.saved /\ quiet.stale = kept.stale
          /\ \A q \in Reporters : quiet.suppressed[q] =
                IF q = r /\ r \in Lifecycle THEN [why |-> "clear", session |-> t.hook.session]
                ELSE kept.suppressed[q]
      <3>1. CASE r \in Lifecycle
        <4> HIDE DEF kept
        <4>1. t.hook.session \in Sessions \cup {NoSession}
          BY DEF Terminal, Hook
        <4>2. SuppressAs(kept, r, t.hook.session, "clear") \in Terminal
          BY <2>1, <4>1, SuppressType
        <4>3. /\ quiet.saved = kept.saved /\ quiet.stale = kept.stale
              /\ quiet.suppressed = [kept.suppressed EXCEPT ![r] =
                                        [why |-> "clear", session |-> t.hook.session]]
          BY <2>1, <3>1 DEF SuppressAs, Terminal
        <4>4. kept.suppressed \in [Reporters -> Suppression]
          BY <2>1 DEF Terminal
        <4> QED BY <3>1, <4>2, <4>3, <4>4
      <3>2. CASE r \notin Lifecycle
        BY <2>1, <3>2
      <3> QED BY <3>1, <3>2
    <2>2. u = kept \/ (u = Recompute(v) /\ t.hook.by \in {Nobody, r})
      BY <1>2 DEF Release
    <2> HIDE DEF kept, quiet
    <2>3. CASE u = kept
      <3>1. Settled(t, kept)
        BY <2>1, LiveFacts DEF Settled, Unmuted, Live
      <3> QED BY <1>l, <2>1, <2>3, <3>1 DEF Keeps
    <2>4. CASE u = Recompute(v) /\ t.hook.by \in {Nobody, r}
      <3>1. left \in Owner /\ left \in {t.saved, NoOwner} /\ left.by # r
        BY <1>0, <2>1, <2>q, HookTypes DEF Terminal, Owner, NoOwner
      <3> HIDE DEF left
      <3>2. v \in Terminal
        BY <2>q, <3>1, HookTypes DEF Terminal, States
      <3>3. /\ v.hook = NoHook /\ v.saved = left
            /\ v.suppressed = quiet.suppressed /\ v.stale = quiet.stale
        BY <2>q DEF Terminal
      <3> HIDE DEF v
      <3>4. /\ u \in Terminal /\ u.state = Arbitrated(u) /\ u.hook = NoHook /\ u.saved = left
            /\ u.suppressed = quiet.suppressed /\ u.stale = t.stale
        BY <2>1, <2>q, <2>4, <3>2, <3>3, RecomputeFacts
      <3> HIDE DEF u
      <3>5. Settled(t, u)
        BY <3>4, WithdrawnUnmuted DEF Settled, NoHook
      <3>6. \A q \in Reporters : q # r \/ t.hook.by # Nobody => Keeps(t, u, q)
        BY <2>1, <2>q, <2>4, <3>4 DEF Keeps, Unmuted, Live
      <3>7. Live(t) => Refused(u, HookOwner(t)) /\ u.saved # HookOwner(t)
        <4>1. Live(t) => t.hook.by = r /\ r \in Lifecycle
          BY <2>4, LiveFacts DEF Live
        <4> QED BY <2>q, <3>1, <3>4, <4>1 DEF Refused, HookOwner
      <3> QED BY <3>1, <3>4, <3>5, <3>6, <3>7 DEF u, Keeps
    <2> QED BY <2>2, <2>3, <2>4
  <1> QED BY <1>1, <1>2

-----------------------------------------------------------------------------
(* The specification.                                                      *)

IInv == TypeOK /\ PublishedIsArbitrated /\ EndedAreRefused

\* The counts of a step.
Ordered == SameHook /\ term.stale[term.hook.by] = {} => InOrder

LEMMA NewTerminalType ==
    /\ NewTerminal \in Terminal /\ NewTerminal.state = Arbitrated(NewTerminal)
    /\ NewTerminal.hook = NoHook /\ NewTerminal.saved = NoOwner
  <1>1. NewTerminal \in Terminal
    <2>1. [r \in Reporters |-> NotSuppressed] \in [Reporters -> Suppression]
      BY HookTypes
    <2>2. <<>> \in Seq(Observation)
      OBVIOUS
    <2> QED BY <2>1, <2>2, HookTypes DEF NewTerminal, Terminal, States
  <1>2. Arbitrated(NewTerminal) = "unknown"
    BY DEF NewTerminal, Arbitrated, BlockerOverrides, NoHook
  <1> QED BY <1>1, <1>2 DEF NewTerminal

\* Only what waits in the queue changes.
LEMMA NewsFacts ==
    ASSUME NEW t \in Terminal, NEW q \in Seq(Observation)
    PROVE  LET u == [t EXCEPT !.news = q] IN
           /\ u \in Terminal
           /\ u.hook = t.hook /\ u.saved = t.saved /\ u.seqs = t.seqs
           /\ u.suppressed = t.suppressed /\ u.stale = t.stale /\ u.state = t.state
           /\ Arbitrated(u) = Arbitrated(t)
  <1> DEFINE u == [t EXCEPT !.news = q]
  <1>1. u \in Terminal
    BY DEF Terminal
  <1>2. /\ u.hook = t.hook /\ u.saved = t.saved /\ u.seqs = t.seqs
        /\ u.suppressed = t.suppressed /\ u.stale = t.stale /\ u.state = t.state
        /\ u.blocker = t.blocker /\ u.fresh = t.fresh /\ u.detected = t.detected
        /\ u.fallback = t.fallback
    BY DEF Terminal
  <1> HIDE DEF u
  <1>3. Arbitrated(u) = Arbitrated(t)
    BY <1>2 DEF Arbitrated, BlockerOverrides, Live
  <1> QED BY <1>1, <1>2, <1>3 DEF u

\* The server's variables after a handler.
LEMMA SettleFacts ==
    ASSUME TypeOK, EndedAreRefused, NEW u, NEW ended \in SUBSET Owner, NEW kept \in SUBSET over,
           Settled(term, u), Settle(u, ended, kept),
           \A e \in kept : e # u.saved => Refused(u, e),
           \A e \in ended : /\ e.by \in Lifecycle /\ e.session # NoSession /\ Refused(u, e)
                            /\ e # u.saved /\ ~Live(u),
           Live(u) => HookOwner(u) \notin kept
    PROVE  /\ term' \in Terminal /\ over' \subseteq Owner
           /\ PublishedIsArbitrated' /\ EndedAreRefused' /\ Ordered
  <1>1. term' = u /\ over' = (kept \cup ended) \ (IF u.saved = term.saved THEN {} ELSE {u.saved})
    BY DEF Settle
  <1>2. term' \in Terminal /\ PublishedIsArbitrated' /\ Ordered
    BY <1>1 DEF Settled, PublishedIsArbitrated, Ordered, SameHook, InOrder
  <1>3. over' \subseteq Owner
    BY <1>1 DEF TypeOK
  <1>4. term'.saved \notin over'
    BY <1>1 DEF EndedAreRefused
  <1>5. \A e \in over' : e.by \in Lifecycle /\ e.session # NoSession /\ Refused(u, e)
    <2> SUFFICES ASSUME NEW e \in over'
                 PROVE  e.by \in Lifecycle /\ e.session # NoSession /\ Refused(u, e)
      OBVIOUS
    <2>1. CASE e \in ended
      BY <2>1
    <2>2. CASE e \in kept
      BY <1>1, <1>4, <2>2 DEF EndedAreRefused
    <2> QED BY <1>1, <2>1, <2>2
  <1>6. Live(u) => HookOwner(u) \notin over' /\ u.suppressed[u.hook.by].why = "none"
    BY <1>1 DEF Settled, Unmuted
  <1>7. EndedAreRefused'
    BY <1>1, <1>4, <1>5, <1>6 DEF EndedAreRefused, Refused, Live, HookOwner
  <1> QED BY <1>2, <1>3, <1>7

LEMMA Initially == Init => IInv
<1> SUFFICES ASSUME Init PROVE IInv
  OBVIOUS
<1>1. term = NewTerminal /\ watch = NewWatch /\ proc = Shell /\ procs = 0 /\ mail = {}
      /\ sent = 0 /\ launched \in BOOLEAN /\ over = {}
  BY WatchAssumption DEF Init
<1>2. watch \in Watch /\ proc \in Process
  BY <1>1, WatchAssumption DEF NewWatch, Watch, Shell, Process
<1>3. TypeOK
  BY <1>1, <1>2, NewTerminalType, WatchAssumption DEF TypeOK, Shell
<1>4. ~Live(term)
  BY <1>1, NewTerminalType, HookTypes DEF Live, NoHook
<1> QED BY <1>1, <1>3, <1>4, NewTerminalType DEF IInv, PublishedIsArbitrated, EndedAreRefused

\* The agents and the detector change neither the hook nor what is suppressed.
LEMMA QuietFacts ==
    ASSUME IInv, over' \subseteq over, term' \in Terminal,
           /\ term'.hook = term.hook /\ term'.saved = term.saved /\ term'.seqs = term.seqs
           /\ term'.suppressed = term.suppressed /\ term'.stale = term.stale
           /\ term'.state = term.state /\ Arbitrated(term') = Arbitrated(term)
    PROVE  PublishedIsArbitrated' /\ EndedAreRefused' /\ Ordered
<1>1. PublishedIsArbitrated'
  BY DEF IInv, PublishedIsArbitrated, Arbitrated, BlockerOverrides, Live
<1>2. EndedAreRefused'
  BY DEF IInv, EndedAreRefused, Refused, Live, HookOwner
<1>3. Ordered
  <2>1. term.hook.by # Nobody => term.seqs[term.hook.by] \in Nat
    BY LiveFacts DEF IInv, TypeOK, Terminal
  <2> QED BY <2>1 DEF Ordered, SameHook, InOrder
<1> QED BY <1>1, <1>2, <1>3

LEMMA AgentSteps ==
    ASSUME IInv, \/ \E r \in Reporters, s \in Sessions : StartAgent(r, s)
                 \/ Exit \/ Send \/ Quit
                 \/ \E s \in Sessions : Switch(s)
    PROVE  IInv' /\ Ordered
<1>1. term' = term /\ watch' = watch /\ launched' = launched
  BY DEF StartAgent, Exit, Send, Quit, Switch
<1>2. over' \subseteq over
  BY DEF StartAgent, Exit, Send, Quit, Switch, Begun
<1>3. PublishedIsArbitrated' /\ EndedAreRefused' /\ Ordered
  BY <1>1, <1>2, QuietFacts DEF IInv, TypeOK
<1> DEFINE Mailed == /\ mail' \subseteq Report /\ sent' \in 0..MaxSent
                     /\ \A m \in mail' : m.kind = "session" => m.session # NoSession
           Typed == /\ proc' \in Process /\ procs' \in 0..MaxProcs
                    /\ proc'.by # Nobody => proc'.session # NoSession
                    /\ Mailed
<1>4. ASSUME NEW kind \in {"state", "session", "release", "clear"},
             NEW s \in Sessions \cup {NoSession}, NEW st \in States,
             NEW start \in Starts, Post(Posted(kind, s, st, start)),
             kind = "session" => s # NoSession
      PROVE  Mailed
  <2>1. sent + 1 \in 1..MaxSent /\ proc.by \in Reporters
    BY <1>4, WatchAssumption, HookTypes DEF Post, IInv, TypeOK, Process
  <2>2. Posted(kind, s, st, start) \in Report
    BY <1>4, <2>1 DEF Post, Posted, Report
  <2>3. sent' = sent + 1 /\ mail' = mail \cup {Posted(kind, s, st, start)}
    BY <1>4 DEF Post
  <2>4. \A m \in mail' : m.kind = "session" => m.session # NoSession
    BY <1>4, <2>3 DEF Posted, IInv, TypeOK
  <2> QED BY <2>1, <2>2, <2>3, <2>4 DEF IInv, TypeOK
<1>5. /\ proc \in Process /\ procs \in 0..MaxProcs /\ mail \subseteq Report /\ sent \in 0..MaxSent
      /\ proc.by # Nobody => proc.session # NoSession
      /\ \A m \in mail : m.kind = "session" => m.session # NoSession
      /\ proc.session \in Sessions \cup {NoSession} /\ "unknown" \in States /\ "none" \in Starts
      /\ "replace" \in Starts
  BY DEF IInv, TypeOK, Process, States, Starts
<1>6. ASSUME NEW r \in Reporters, NEW s \in Sessions, StartAgent(r, s) PROVE Typed
  BY <1>5, <1>6, WatchAssumption, NamesAssumption DEF StartAgent, Process
<1>7. ASSUME Exit PROVE Typed
  BY <1>5, <1>7, WatchAssumption DEF Exit, Shell, Process
<1>8. ASSUME Send PROVE Typed
  <2>1. ASSUME NEW st \in Reported, NEW s \in {proc.session, NoSession},
               Post(Posted("state", s, st, "none"))
        PROVE  Mailed
    BY <1>4, <1>5, <2>1, WatchAssumption
  <2>2. ASSUME NEW start \in Starts, Post(Posted("session", proc.session, "unknown", start))
        PROVE  Mailed
    <3>1. proc.session # NoSession
      BY <1>5, <2>2 DEF Post
    <3> QED BY <1>4, <1>5, <2>2, <3>1
  <2>3. ASSUME Post(Posted("clear", proc.session, "unknown", "none"))
        PROVE  Mailed
    BY <1>4, <1>5, <2>3
  <2> QED BY <1>5, <1>8, <2>1, <2>2, <2>3 DEF Send
<1>9. ASSUME Quit PROVE Typed
  <2>1. Mailed
    BY <1>4, <1>5, <1>9 DEF Quit
  <2>2. proc' \in Process /\ procs' = procs /\ (proc'.by # Nobody => proc'.session # NoSession)
    BY <1>5, <1>9 DEF Quit, Process
  <2> QED BY <1>5, <2>1, <2>2
<1>10. ASSUME NEW s \in Sessions, Switch(s) PROVE Typed
  <2>1. Mailed
    BY <1>4, <1>5, <1>10, NamesAssumption DEF Switch
  <2>2. proc' \in Process /\ procs' = procs /\ (proc'.by # Nobody => proc'.session # NoSession)
    BY <1>5, <1>10, NamesAssumption DEF Switch, Process
  <2> QED BY <1>5, <2>1, <2>2
<1>11. Typed
  BY <1>6, <1>7, <1>8, <1>9, <1>10
<1> QED BY <1>1, <1>2, <1>3, <1>11 DEF IInv, TypeOK

LEMMA WatchUpdate ==
    ASSUME NEW w \in Watch, NEW agent \in Agents \cup {NoAgent}, NEW shown \in BOOLEAN
    PROVE  [w EXCEPT !.tracked = agent, !.shown = shown] \in Watch
  BY DEF Watch

LEMMA DetectorSteps ==
    ASSUME IInv, Probe \/ Read \/ Reset \/ HoldoffEnds
    PROVE  IInv' /\ Ordered
<1>1. UNCHANGED <<proc, procs, mail, sent, launched, over>>
  BY DEF Probe, ProbeAgent, ProbeNothing, ProbeMiss, ProbeExit, ProbeGone, Read, Reset, HoldoffEnds
<1>2. /\ watch \in Watch /\ proc \in Process /\ term \in Terminal
      /\ LabelAgent(proc.by) \in Agents \cup {NoAgent}
  BY NamesAssumption DEF IInv, TypeOK, Process, LabelAgent
<1>3. Found \in Agents \cup {NoAgent} /\ watch.tracked \in Agents \cup {NoAgent}
  BY <1>2 DEF Found, Running, Watch
<1>4. Probed \in Watch /\ Stable \in Watch /\ NewWatch \in Watch
  <2>1. Probed \in Watch
    BY <1>2 DEF Probed, Running, Watch, Process
  <2>2. Stable \in Watch
    BY <2>1 DEF Stable, Watch
  <2> QED BY <2>1, <2>2, WatchAssumption DEF NewWatch, Watch
<1>5. watch' \in Watch
  <2>1. CASE ProbeAgent
    <3>1. (Stable.shown \/ Found # watch.tracked) \in BOOLEAN
      BY <1>4 DEF Watch
    <3>2. watch' = [Stable EXCEPT !.tracked = Found, !.shown = @ \/ Found # watch.tracked]
      BY <2>1 DEF ProbeAgent
    <3> QED BY <1>3, <1>4, <3>1, <3>2, WatchUpdate
  <2>2. CASE ProbeNothing \/ ProbeMiss
    BY <1>4, <2>2 DEF ProbeNothing, ProbeMiss
  <2>3. CASE ProbeExit
    BY <1>4, <2>3 DEF ProbeExit, Watch
  <2>4. CASE ProbeGone
    <3>1. (Paused /\ Stable.shown) \in BOOLEAN
      BY <1>4 DEF Watch, Paused, Live
    <3>2. watch' = [Stable EXCEPT !.tracked = NoAgent, !.shown = Paused /\ @]
      BY <2>4 DEF ProbeGone
    <3> QED BY <1>4, <3>1, <3>2, WatchUpdate
  <2>5. CASE Read
    BY <1>2, <2>5 DEF Read, Watch
  <2>6. CASE Reset
    BY <1>2, <1>4, <2>6 DEF Reset, Watch
  <2>7. CASE HoldoffEnds
    BY <1>2, <2>7 DEF HoldoffEnds, Watch
  <2> QED BY <2>1, <2>2, <2>3, <2>4, <2>5, <2>6, <2>7 DEF Probe
<1>6. term' = term \/ \E o \in Observation : Publish(o)
  <2>1. ASSUME NEW agent \in Agents \cup {NoAgent}, NEW st \in States, NEW blocker \in BOOLEAN,
               NEW exited \in BOOLEAN
        PROVE  Seen(agent, st, blocker, exited) \in Observation
    BY DEF Seen, Observation
  <2>2. {"idle", "unknown"} \subseteq States
    BY DEF States
  <2>3. CASE ProbeAgent
    BY <1>3, <2>1, <2>2, <2>3 DEF ProbeAgent
  <2>4. CASE ProbeExit
    BY <1>3, <2>1, <2>2, <2>4 DEF ProbeExit
  <2>5. CASE ProbeGone
    BY <1>3, <2>1, <2>2, <2>5 DEF ProbeGone
  <2>6. CASE Read
    <3>1. \A st \in Shown : st \in States /\ (st = "blocked") \in BOOLEAN
      BY WatchAssumption
    <3>2. ASSUME NEW st \in Shown, Publish(Seen(watch.tracked, st, st = "blocked", FALSE))
          PROVE  \E o \in Observation : Publish(o)
      BY <1>3, <2>1, <3>1, <3>2
    <3>3. ASSUME Publish(Seen(NoAgent, "unknown", FALSE, FALSE))
          PROVE  \E o \in Observation : Publish(o)
      BY <2>1, <2>2, <3>3
    <3> QED BY <2>6, <3>2, <3>3 DEF Read
  <2> QED BY <2>3, <2>4, <2>5, <2>6 DEF Probe, ProbeNothing, ProbeMiss, Reset, HoldoffEnds
<1>7. \/ term' = term
      \/ \E q \in Seq(Observation) : term' = [term EXCEPT !.news = q]
  <2>1. ASSUME NEW o \in Observation, Publish(o)
        PROVE  \E q \in Seq(Observation) : term' = [term EXCEPT !.news = q]
    <3>1. Append(term.news, o) \in Seq(Observation)
      BY <1>2 DEF Terminal
    <3>2. term' = [term EXCEPT !.news = Append(term.news, o)]
      BY <2>1 DEF Publish
    <3> QED BY <3>1, <3>2
  <2> QED BY <1>6, <2>1
<1>8. /\ term' \in Terminal
      /\ term'.hook = term.hook /\ term'.saved = term.saved /\ term'.seqs = term.seqs
      /\ term'.suppressed = term.suppressed /\ term'.stale = term.stale
      /\ term'.state = term.state /\ Arbitrated(term') = Arbitrated(term)
  <2>1. CASE term' = term
    BY <1>2, <2>1
  <2>2. CASE \E q \in Seq(Observation) : term' = [term EXCEPT !.news = q]
    <3>1. PICK q \in Seq(Observation) : term' = [term EXCEPT !.news = q]
      BY <2>2
    <3> DEFINE u == [term EXCEPT !.news = q]
    <3>2. /\ u \in Terminal
          /\ u.hook = term.hook /\ u.saved = term.saved /\ u.seqs = term.seqs
          /\ u.suppressed = term.suppressed /\ u.stale = term.stale /\ u.state = term.state
          /\ Arbitrated(u) = Arbitrated(term)
      BY <1>2, NewsFacts
    <3>3. term' = u
      BY <3>1
    <3> HIDE DEF u
    <3> QED BY <3>2, <3>3
  <2> QED BY <1>7, <2>1, <2>2
<1>9. PublishedIsArbitrated' /\ EndedAreRefused' /\ Ordered
  BY <1>1, <1>8, QuietFacts
<1> QED BY <1>1, <1>5, <1>8, <1>9 DEF IInv, TypeOK

LEMMA SyncedType ==
    ASSUME IInv, NEW u
    PROVE  Synced(u) \in Watch
<1>1. watch \in Watch
  BY DEF IInv, TypeOK
<1>2. (watch.reset \/ (Live(u) /\ ~Live(term))) \in BOOLEAN
  BY DEF Live
<1> QED BY <1>1, <1>2 DEF Synced, Watch

\* The server takes an observation.
LEMMA NewsSteps ==
    ASSUME IInv, HandleNews
    PROVE  IInv' /\ Ordered
<1> DEFINE o == Head(term.news)
           q == Tail(term.news)
           t == [term EXCEPT !.news = q]
           u == SetDetected(t, o)
           ended == IF o.exited /\ o.agent = LabelAgent(t.hook.by) THEN Ended(t, u) ELSE {}
<1>1. Settle(u, ended, over) /\ watch' = Synced(u) /\ UNCHANGED <<proc, procs, mail, sent, launched>>
  BY DEF HandleNews
<1>2. term \in Terminal /\ o \in Observation /\ q \in Seq(Observation)
  BY HeadTailProperties DEF HandleNews, IInv, TypeOK, Terminal
<1> HIDE DEF o, q
<1>3. /\ t \in Terminal
      /\ t.hook = term.hook /\ t.saved = term.saved /\ t.seqs = term.seqs
      /\ t.suppressed = term.suppressed /\ t.stale = term.stale
  BY <1>2, NewsFacts
<1> HIDE DEF t
<1>4. Unmuted(t)
  BY <1>3 DEF IInv, EndedAreRefused, Unmuted, Live
<1>5. /\ Settled(t, u)
      /\ \A r \in Reporters : Keeps(t, u, r)
      /\ u.hook \in {t.hook, NoHook}
      /\ \/ u.saved \in {t.saved, NoOwner}
         \/ /\ u.saved = HookOwner(t) /\ u.hook = NoHook
            /\ t.hook.by # Nobody /\ t.hook.session # NoSession
      /\ o.exited /\ o.agent = LabelAgent(t.hook.by) /\ Live(t) /\ u.hook = NoHook
            => Refused(u, HookOwner(t)) /\ u.saved # HookOwner(t)
  BY <1>2, <1>3, <1>4, SetDetectedFacts
<1> HIDE DEF u
<1>6. Settled(term, u)
  BY <1>3, <1>5 DEF Settled
<1>7. ended \in SUBSET Owner
  <2>1. t.hook.session \in Sessions \cup {NoSession}
    BY <1>3 DEF Terminal, Hook
  <2>2. Live(t) /\ t.hook.session # NoSession => HookOwner(t) \in Owner
    BY <1>3, <2>1, LiveFacts DEF HookOwner, Owner
  <2> QED BY <2>2 DEF Ended
<1>8. \A e \in ended : /\ e.by \in Lifecycle /\ e.session # NoSession /\ Refused(u, e)
                       /\ e # u.saved /\ ~Live(u)
  BY <1>5, HookTypes DEF Ended, HookOwner, Live, NoHook
<1>9. \A e \in over : Refused(u, e)
  <2> SUFFICES ASSUME NEW e \in over PROVE Refused(u, e)
    OBVIOUS
  <2>1. Refused(t, e) /\ e.session # NoSession /\ e.by \in Reporters
    BY <1>3, HookTypes DEF IInv, EndedAreRefused, Refused
  <2> QED BY <1>5, <2>1, KeptIsRefused
<1>10. Live(u) => HookOwner(u) \notin over
  BY <1>3, <1>5, HookTypes DEF IInv, EndedAreRefused, Live, NoHook, HookOwner
<1> HIDE DEF ended
<1>11. /\ term' \in Terminal /\ over' \subseteq Owner
       /\ PublishedIsArbitrated' /\ EndedAreRefused' /\ Ordered
  BY <1>1, <1>6, <1>7, <1>8, <1>9, <1>10, SettleFacts DEF IInv
<1>12. watch' \in Watch
  BY <1>1, SyncedType
<1> QED BY <1>1, <1>11, <1>12 DEF IInv, TypeOK

\* What the handling of a report gives, for the terminal u it leaves.
Handling(m, u, kept) ==
    /\ Settled(term, u)
    /\ \A e \in kept : e # u.saved => Refused(u, e)
    /\ Live(u) => HookOwner(u) \notin kept
    /\ m.kind \in {"release", "session"} /\ Live(term) /\ term.hook.session # NoSession
          /\ u.hook = NoHook => Refused(u, HookOwner(term)) /\ u.saved # HookOwner(term)

LEMMA UnchangedHandled ==
    ASSUME IInv, NEW m, NEW kept \in SUBSET over
    PROVE  Handling(m, term, kept)
<1>1. Settled(term, term)
  <2>1. term.hook.by # Nobody => term.seqs[term.hook.by] \in Nat
    BY LiveFacts DEF IInv, TypeOK, Terminal
  <2> QED BY <2>1 DEF IInv, TypeOK, PublishedIsArbitrated, EndedAreRefused, Settled, Unmuted
<1>2. Live(term) => term.hook # NoHook
  BY LiveFacts DEF IInv, TypeOK
<1> QED BY <1>1, <1>2 DEF Handling, IInv, EndedAreRefused

LEMMA OverFacts ==
    ASSUME IInv, NEW e \in over
    PROVE  /\ e \in Owner /\ e # NoOwner /\ e.by \in Lifecycle /\ e.by \in Reporters
           /\ e.session # NoSession /\ Refused(term, e) /\ e # term.saved
  BY HookTypes DEF IInv, TypeOK, EndedAreRefused, NoOwner

LEMMA HandledFacts ==
    ASSUME IInv, NEW m \in mail
    PROVE  LET u == Handled(m)
               blind == m.kind = "release" /\ term.hook.by = Nobody /\ u # term
           IN Handling(m, u, IF blind THEN {e \in over : e.by # m.by} ELSE over)
<1> DEFINE u == Handled(m)
           blind == m.kind = "release" /\ term.hook.by = Nobody /\ u # term
           kept == IF blind THEN {e \in over : e.by # m.by} ELSE over
<1> SUFFICES Handling(m, u, kept)
  OBVIOUS
<1>0. mail \subseteq Report /\ MaxSent \in Nat
  BY WatchAssumption DEF IInv, TypeOK
<1>1. /\ term \in Terminal /\ term.state = Arbitrated(term) /\ Unmuted(term)
      /\ m.by \in Reporters /\ m.session \in Sessions \cup {NoSession} /\ m.state \in States
      /\ m.n \in Nat /\ m.kind \in {"state", "session", "release", "clear"}
  <2>1. term \in Terminal /\ term.state = Arbitrated(term) /\ Unmuted(term)
    BY DEF IInv, TypeOK, PublishedIsArbitrated, EndedAreRefused, Unmuted
  <2>2. m \in Report
    BY <1>0
  <2>3. /\ m.by \in Reporters /\ m.session \in Sessions \cup {NoSession} /\ m.state \in States
        /\ m.n \in Nat /\ m.kind \in Kinds
    BY <1>0, <2>2 DEF Report
  <2> QED BY <2>1, <2>3, WatchAssumption
<1>2. kept \in SUBSET over
  OBVIOUS
<1>3. CASE u = term
  BY <1>2, <1>3, UnchangedHandled
<1>k. ASSUME \A q \in Reporters : Keeps(term, u, q), ~blind
      PROVE  \A e \in kept : Refused(u, e)
  BY <1>k, OverFacts, KeptIsRefused
<1>h. ASSUME u.hook \in {term.hook, NoHook}
      PROVE  Live(u) => HookOwner(u) \notin kept
  BY <1>2, <1>h, HookTypes DEF IInv, EndedAreRefused, Live, NoHook, HookOwner
<1>s. ASSUME NEW start, m.session \in Sessions,
             u = SetSession(term, m.by, m.session, m.n, start), ~blind
      PROVE  Handling(m, u, kept)
  <2>1. /\ Settled(term, u)
        /\ \A e \in Owner : e # u.saved /\ e # NoOwner /\ Refused(term, e) => Refused(u, e)
        /\ u.hook \in {term.hook, NoHook}
        /\ Live(term) /\ term.hook.session # NoSession /\ u.hook = NoHook
              => Refused(u, HookOwner(term)) /\ u.saved # HookOwner(term)
    <3> HIDE DEF u
    <3> QED BY <1>1, <1>s, SetSessionFacts
  <2> HIDE DEF u
  <2>2. \A e \in kept : e # u.saved => Refused(u, e)
    BY <2>1, OverFacts
  <2> QED BY <1>h, <2>1, <2>2 DEF Handling
<1>4. CASE m.kind = "state" /\ m.by \in Native
  <2>1. CASE m.session = NoSession
    BY <1>3, <1>4, <2>1 DEF Handled
  <2>2. CASE m.session # NoSession
    <3>1. u = SetSession(term, m.by, m.session, m.n, "none")
      BY <1>4, <2>2 DEF Handled
    <3> HIDE DEF u
    <3> QED BY <1>1, <1>s, <1>4, <2>2, <3>1
  <2> QED BY <2>1, <2>2
<1>5. CASE m.kind = "state" /\ m.by \notin Native
  <2>1. u = SetHook(term, m.by, m.state, m.session, m.n)
    BY <1>5 DEF Handled
  <2> HIDE DEF u
  <2>2. /\ Settled(term, u)
        /\ \A q \in Reporters : Keeps(term, u, q)
        /\ \/ u = term
           \/ /\ u.saved = NoOwner /\ u.hook # NoHook
              /\ Live(u) /\ u.hook.session # NoSession =>
                    \/ ~Refused(term, HookOwner(u))
                    \/ HookOwner(u) = HookOwner(term) /\ term.hook.by # Nobody
                    \/ HookOwner(u) = term.saved
    BY <1>1, <2>1, SetHookFacts
  <2>3. Live(u) => HookOwner(u) \notin over
    <3>1. ASSUME Live(u), HookOwner(u) = HookOwner(term) PROVE HookOwner(u) \notin over
      <4>1. Live(term)
        BY <3>1 DEF Live, HookOwner
      <4> QED BY <3>1, <4>1 DEF IInv, EndedAreRefused
    <3>2. HookOwner(u).session = u.hook.session
      BY DEF HookOwner
    <3>3. CASE u = term
      BY <3>3 DEF IInv, EndedAreRefused
    <3> QED BY <2>2, <3>1, <3>2, <3>3, OverFacts
  <2> QED BY <1>5, <1>k, <2>2, <2>3 DEF Handling
<1>6. CASE m.kind = "session"
  <2>1. u = SetSession(term, m.by, m.session, m.n, m.start)
    BY <1>6 DEF Handled
  <2>2. m.session \in Sessions
    BY <1>6 DEF IInv, TypeOK, Report
  <2> HIDE DEF u
  <2> QED BY <1>s, <1>6, <2>1, <2>2
<1>7. CASE m.kind = "clear"
  <2>1. u = ClearHook(term, m.by, m.n)
    BY <1>7 DEF Handled
  <2> HIDE DEF u
  <2>2. /\ Settled(term, u)
        /\ \A q \in Reporters : Keeps(term, u, q)
        /\ u.hook \in {term.hook, NoHook}
    BY <1>1, <2>1, ClearHookFacts
  <2> QED BY <1>7, <1>h, <1>k, <2>2 DEF Handling
<1>8. CASE m.kind = "release" /\ u # term
  <2>1. u = Release(term, m.by, m.n)
    BY <1>8 DEF Handled
  <2> HIDE DEF u
  <2>2. /\ Settled(term, u)
        /\ \A q \in Reporters : q # m.by \/ term.hook.by # Nobody \/ u = term => Keeps(term, u, q)
        /\ u.hook \in {term.hook, NoHook}
        /\ Live(term) /\ u.hook = NoHook => Refused(u, HookOwner(term)) /\ u.saved # HookOwner(term)
    BY <1>1, <2>1, ReleaseFacts
  <2>3. \A e \in kept : Refused(u, e)
    BY <1>8, <2>2, OverFacts, KeptIsRefused
  <2> QED BY <1>h, <2>2, <2>3 DEF Handling
<1> QED BY <1>1, <1>3, <1>4, <1>5, <1>6, <1>7, <1>8

LEMMA DeliverySteps ==
    ASSUME IInv, NEW m \in mail, Deliver(m)
    PROVE  IInv' /\ Ordered
<1> DEFINE u == Handled(m)
           ended == IF m.kind \in {"release", "session"} THEN Ended(term, u) ELSE {}
           blind == m.kind = "release" /\ term.hook.by = Nobody /\ u # term
           kept == IF blind THEN {e \in over : e.by # m.by} ELSE over
<1>1. /\ Settle(u, ended, kept) /\ mail' \subseteq mail /\ UNCHANGED <<proc, procs, sent, launched>>
      /\ \/ watch' = Synced(u)
         \/ watch' = [Synced(u) EXCEPT !.reset = TRUE, !.holdoff = AgentOf[m.by]]
  BY DEF Deliver
<1>2. Handling(m, u, kept)
  BY HandledFacts
<1>3. kept \in SUBSET over /\ m.by \in Reporters
  BY DEF IInv, TypeOK, Report
<1> HIDE DEF u, kept
<1>4. ended \in SUBSET Owner
  <2>1. term.hook.session \in Sessions \cup {NoSession} /\ term \in Terminal
    BY DEF IInv, TypeOK, Terminal, Hook
  <2>2. Live(term) /\ term.hook.session # NoSession => HookOwner(term) \in Owner
    BY <2>1, LiveFacts DEF HookOwner, Owner
  <2> QED BY <2>2 DEF Ended
<1>5. \A e \in ended : /\ e.by \in Lifecycle /\ e.session # NoSession /\ Refused(u, e)
                       /\ e # u.saved /\ ~Live(u)
  BY <1>2, HookTypes DEF Handling, Ended, HookOwner, Live, NoHook
<1> HIDE DEF ended
<1>6. /\ term' \in Terminal /\ over' \subseteq Owner
      /\ PublishedIsArbitrated' /\ EndedAreRefused' /\ Ordered
  BY <1>1, <1>2, <1>3, <1>4, <1>5, SettleFacts DEF IInv, Handling
<1>7. watch' \in Watch
  <2>1. Synced(u) \in Watch /\ AgentOf[m.by] \in Agents \cup {NoAgent}
    BY <1>3, SyncedType, NamesAssumption
  <2> QED BY <1>1, <2>1 DEF Watch
<1> QED BY <1>1, <1>6, <1>7 DEF IInv, TypeOK

LEMMA DeathSteps ==
    ASSUME IInv, PaneDies
    PROVE  IInv' /\ Ordered
<1>1. /\ term' = ForgetAgent(DeathOf(term)) /\ watch' = NewWatch /\ over' = {} /\ launched' = FALSE
      /\ UNCHANGED <<proc, procs, mail, sent>>
  BY DEF PaneDies
<1>2. term \in Terminal /\ Unmuted(term)
  BY DEF IInv, TypeOK, EndedAreRefused, Unmuted
<1>3. DeathOf(term) \in Terminal
  <2> DEFINE agent == IF term.hook.by # Nobody /\ AgentOf[term.hook.by] # NoAgent
                      THEN AgentOf[term.hook.by] ELSE term.detected
  <2>1. agent \in Agents \cup {NoAgent}
    BY <1>2, LiveFacts, NamesAssumption DEF Terminal
  <2>2. DeathOf(term) \in {term, SetDetected(term, Seen(agent, "idle", FALSE, TRUE))}
    BY DEF DeathOf
  <2>3. Seen(agent, "idle", FALSE, TRUE) \in Observation
    BY <2>1 DEF Seen, Observation, States
  <2> HIDE DEF agent
  <2>4. SetDetected(term, Seen(agent, "idle", FALSE, TRUE)) \in Terminal
    BY <1>2, <2>3, SetDetectedFacts DEF Settled
  <2> QED BY <1>2, <2>2, <2>4
<1>4. /\ term' \in Terminal /\ term'.state = Arbitrated(term')
      /\ term'.hook = NoHook
  <2> DEFINE d == DeathOf(term)
             w == [NewTerminal EXCEPT !.seqs = d.seqs]
  <2>1. d.seqs \in [Reporters -> Nat] /\ d.news \in Seq(Observation)
    BY <1>3 DEF Terminal
  <2>2. ForgetAgent(d) = [w EXCEPT !.news = d.news]
    BY DEF ForgetAgent
  <2> HIDE DEF d
  <2>3. w \in Terminal
    BY <2>1, NewTerminalType DEF Terminal
  <2>4. w.hook = NoHook /\ w.state = Arbitrated(w)
    <3>1. /\ w.hook = NewTerminal.hook /\ w.state = NewTerminal.state
          /\ w.blocker = NewTerminal.blocker /\ w.fresh = NewTerminal.fresh
          /\ w.detected = NewTerminal.detected /\ w.fallback = NewTerminal.fallback
      BY NewTerminalType DEF Terminal
    <3> HIDE DEF w
    <3> QED BY <3>1, NewTerminalType DEF Arbitrated, BlockerOverrides, Live
  <2> HIDE DEF w
  <2> QED BY <1>1, <2>1, <2>2, <2>3, <2>4, NewsFacts DEF d
<1>5. ~Live(term')
  BY <1>4, LiveFacts
<1>6. PublishedIsArbitrated' /\ EndedAreRefused'
  BY <1>1, <1>4, <1>5
     DEF PublishedIsArbitrated, EndedAreRefused, Live, Arbitrated, BlockerOverrides
<1>7. Ordered
  BY <1>4, LiveFacts DEF Ordered, SameHook
<1>8. watch' \in Watch
  BY <1>1, WatchAssumption DEF NewWatch, Watch
<1> QED BY <1>1, <1>4, <1>6, <1>7, <1>8 DEF IInv, TypeOK

LEMMA StepKeeps ==
    ASSUME IInv, [Next]_vars
    PROVE  IInv' /\ Ordered
<1>1. CASE UNCHANGED vars
  <2>1. IInv'
    BY <1>1 DEF vars, IInv, TypeOK, PublishedIsArbitrated, EndedAreRefused, Arbitrated,
                BlockerOverrides, Live, HookOwner, Refused
  <2>2. Ordered
    <3>1. term.hook.by # Nobody => term.seqs[term.hook.by] \in Nat
      BY LiveFacts DEF IInv, TypeOK, Terminal
    <3> QED BY <1>1, <3>1 DEF vars, Ordered, SameHook, InOrder
  <2> QED BY <2>1, <2>2
<1>2. CASE Next
  BY <1>2, AgentSteps, DetectorSteps, NewsSteps, DeathSteps, DeliverySteps DEF Next
<1> QED BY <1>1, <1>2

-----------------------------------------------------------------------------
(* The theorems.                                                           *)

LEMMA Invariant == Spec => []IInv
<1>1. IInv /\ [Next]_vars => IInv'
  BY StepKeeps
<1> QED BY <1>1, Initially, PTL DEF Spec

\* A pane publishes what arbitration gives for the hook, the screen and the agent it has, after
\* every report and every observation, in whatever order they come.
THEOREM StatesAreArbitrated == Spec => []PublishedIsArbitrated
<1>1. IInv => PublishedIsArbitrated
  BY DEF IInv
<1> QED BY <1>1, Invariant, PTL

\* A conversation that ended is refused as long as it has not begun again ...
THEOREM EndedStayRefused == Spec => []EndedAreRefused
<1>1. IInv => EndedAreRefused
  BY DEF IInv
<1> QED BY <1>1, Invariant, PTL

\* ... and never becomes authoritative.
THEOREM EndedStayEnded == Spec => []EndedSessionsStayEnded
<1>1. EndedAreRefused => EndedSessionsStayEnded
  BY DEF EndedAreRefused, EndedSessionsStayEnded
<1> QED BY <1>1, EndedStayRefused, PTL

\* Reports of a source without stale conversations are taken in their order.
THEOREM OrderAtFirst == Spec => ReportsInOrderAtFirst
<1>1. IInv /\ [Next]_vars => [SameHook /\ term.stale[term.hook.by] = {} => InOrder]_vars
  BY StepKeeps DEF Ordered
<1> QED BY <1>1, Invariant, PTL DEF Spec, ReportsInOrderAtFirst
=============================================================================
