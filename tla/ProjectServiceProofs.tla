------------------------ MODULE ProjectServiceProofs ------------------------
(***************************************************************************)
(* Theorems about ProjectService, for any number of sessions, names and    *)
(* configurations.  What an operator of the catalog does to one session is *)
(* a lemma of its own; the proof about the service then only has to say    *)
(* which worker the writer still listens to.                               *)
(***************************************************************************)
EXTENDS ProjectService, TLAPS

\* What holds of one session: the language of its finished title and the name its topic has.
RowInv(r, l) ==
    /\ r.status = "done" /\ r.custom = 0 => r.title.language = l
    /\ r.custom # 0 /\ r.topic # None => r.topic = Shown(r)

\* What a step may do to the topic of a locked session.
Stays(r, q) ==
    /\ r.locked /\ q.locked /\ Shown(r) = Shown(q) /\ r.refresh = q.refresh => r.topic = q.topic

Quiet(r, q) == r.title = q.title /\ (r.topic = None => q.topic = None)

----------------------------------------------------------------------------
(* The operators of the catalog, one session at a time.                    *)

\* The name shown is a name (COALESCE over custom, generated and native title).
LEMMA ShownType == ASSUME NEW r \in Row PROVE Shown(r) \in Title
  BY ServiceAssumption DEF Shown, Row, Title, UserTitle

\* A user's name is none that is generated, and each is another one.
LEMMA UserTitles == ASSUME NEW n \in Nat, NEW m \in Nat, n # m
                    PROVE  UserTitle(n) # UserTitle(m) /\ UserTitle(n) \notin Generated
  BY DEF UserTitle, Generated

\* Requeueing claimed titles touches nothing but their status (reset_running_titles).
LEMMA ResetRunningRow ==
  ASSUME NEW r \in Row, NEW l
  PROVE  /\ ResetRunning(r) \in Row /\ ResetRunning(r).status # "running"
         /\ RowInv(r, l) => RowInv(ResetRunning(r), l)
         /\ Stays(r, ResetRunning(r)) /\ Quiet(r, ResetRunning(r))
  BY ServiceAssumption DEF ResetRunning, Row, Statuses, RowInv, Stays, Quiet, Shown

\* A change of language requeues every title that is not the user's (set_title_language).
LEMMA SetLanguageRow ==
  ASSUME NEW r \in Row, NEW l
  PROVE  /\ SetLanguage(r, l) \in Row
         /\ r.status # "running" => SetLanguage(r, l).status # "running"
         /\ RowInv(r, language) => RowInv(SetLanguage(r, l), l)
         /\ Stays(r, SetLanguage(r, l)) /\ Quiet(r, SetLanguage(r, l))
  BY ServiceAssumption DEF SetLanguage, Translate, Requeue, Row, Statuses, RowInv, Stays, Quiet, Shown

\* A claim touches nothing but the status (claim_title_batch).
LEMMA ClaimRow ==
  ASSUME NEW r \in Row, NEW l
  PROVE  /\ Claim(r) \in Row
         /\ RowInv(r, l) => RowInv(Claim(r), l)
         /\ Stays(r, Claim(r)) /\ Quiet(r, Claim(r))
  BY ServiceAssumption DEF Claim, Row, Statuses, RowInv, Stays, Quiet, Shown

\* A scan never finishes a title and never makes one run (upsert_session).
LEMMA UpsertRow ==
  ASSUME NEW r \in Row, NEW l, NEW v \in Versions, NEW found \in BOOLEAN
  PROVE  /\ Upsert(r, v, found) \in Row
         /\ r.status # "running" => Upsert(r, v, found).status # "running"
         /\ Upsert(r, v, found).custom = r.custom
         /\ RowInv(r, l) => RowInv(Upsert(r, v, found), l)
         /\ Stays(r, Upsert(r, v, found)) /\ Quiet(r, Upsert(r, v, found))
  BY ServiceAssumption DEF Upsert, Requeue, Row, Versions, Statuses, RowInv, Stays, Quiet, Shown

\* The user's name takes the topic along (rename_session).
LEMMA RenameRow ==
  ASSUME NEW r \in Row, NEW l, r.custom < MaxRenames
  PROVE  /\ Rename(r) \in Row /\ Rename(r).status = "done" /\ Rename(r).custom # 0
         /\ RowInv(Rename(r), l)
         /\ Stays(r, Rename(r)) /\ Quiet(r, Rename(r))
<1> DEFINE named == [r EXCEPT !.custom = @ + 1, !.status = "done"]
           name == UserTitle(r.custom + 1)
<1>1. r.custom \in Nat /\ r.custom + 1 \in 1..MaxRenames
  BY ServiceAssumption DEF Row
<1>2. name \in Title
  BY <1>1 DEF Title
<1>3. /\ named \in Row /\ named.custom = r.custom + 1 /\ named.status = "done"
      /\ named.topic = r.topic /\ named.title = r.title /\ named.refresh = r.refresh
      /\ named.locked = r.locked
  <2>1. r.custom + 1 \in 0..MaxRenames
    BY <1>1, ServiceAssumption
  <2>2. /\ named.custom = r.custom + 1 /\ named.status = "done"
        /\ named.topic = r.topic /\ named.title = r.title /\ named.refresh = r.refresh
        /\ named.locked = r.locked
    BY DEF Row
  <2>3. named \in Row
    BY <2>1, ZenonT(30) DEF Row, Statuses
  <2> QED
    BY <2>2, <2>3
<1> HIDE DEF named
<1>4. /\ Rename(r) \in Row /\ Rename(r).custom = r.custom + 1 /\ Rename(r).status = "done"
      /\ Rename(r).topic = (IF r.topic = None THEN None ELSE name)
      /\ Rename(r).title = r.title /\ Rename(r).refresh = r.refresh
  BY <1>2, <1>3 DEF Rename, KeepTopic, named, Row
<1>5. Shown(Rename(r)) = name
  BY <1>1, <1>4 DEF Shown
<1>6. Shown(r) # name
  <2>1. r.title # name
    BY <1>1, UserTitles DEF Row
  <2>2. UserTitle(r.custom) # name
    BY <1>1, UserTitles
  <2> QED
    BY <2>1, <2>2 DEF Shown
<1> QED
  BY <1>1, <1>4, <1>5, <1>6 DEF RowInv, Stays, Quiet

\* Classification respects the lock and the name (apply_semantic_batch).
LEMMA ClassifyRow ==
  ASSUME NEW r \in Row, NEW l, NEW title \in Title
  PROVE  /\ Classify(r, title) \in Row
         /\ Classify(r, title).status = r.status /\ Classify(r, title).custom = r.custom
         /\ Classify(r, title).title = r.title
         /\ RowInv(r, l) => RowInv(Classify(r, title), l)
         /\ Stays(r, Classify(r, title))
  BY ServiceAssumption DEF Classify, Row, RowInv, Stays, Shown

\* A result is stored unless the user has named the session, and a finished one is in the
\* language of the catalog (apply_title_batch).
LEMMA ApplyTitleRow ==
  ASSUME NEW r \in Row, NEW u \in Update, u.status = "done" => u.checked
  PROVE  /\ ApplyTitle(r, u) \in Row /\ ApplyTitle(r, u).custom = r.custom
         /\ r.status # "running" => ApplyTitle(r, u).status # "running"
         /\ Accepts(u) /\ r.custom = 0 => ApplyTitle(r, u).status # "running"
         /\ RowInv(r, language) => RowInv(ApplyTitle(r, u), language)
         /\ Stays(r, ApplyTitle(r, u))
         /\ r.topic = None => ApplyTitle(r, u).topic = None
<1> DEFINE t == Store(r, u)
<1>1. /\ t \in Row /\ t.custom = r.custom /\ t.topic = r.topic /\ t.locked = r.locked
      /\ t.refresh = r.refresh
      /\ r.custom # 0 => t = r
      /\ r.custom = 0 => t.status = u.status
      /\ r.custom = 0 /\ u.status = "done" => t.title = u.title
  <2>1. CASE r.custom # 0
    BY <2>1 DEF Store
  <2>2. CASE r.custom = 0
    <3> DEFINE kept == IF u.status = "failed" /\ r.title # Native THEN r.title ELSE u.title
    <3>1. /\ u.status \in Statuses /\ u.at \in -1..MaxVersion /\ TRUE \in BOOLEAN
          /\ kept \in Generated
      BY ServiceAssumption DEF Update, Statuses, Versions, Row
    <3>2. u.status = "done" => kept = u.title
      OBVIOUS
    <3> HIDE DEF kept
    <3>3. t = [r EXCEPT !.status = u.status, !.at = u.at, !.printed = TRUE, !.title = kept]
      BY <2>2 DEF Store, t, kept
    <3>4. /\ t.custom = r.custom /\ t.topic = r.topic /\ t.locked = r.locked
          /\ t.refresh = r.refresh /\ t.status = u.status /\ t.title = kept
      BY <3>3 DEF Row
    <3>5. t \in Row
      BY <3>1, <3>3 DEF Row
    <3> QED
      BY <2>2, <3>2, <3>4, <3>5
  <2> QED
    BY <2>1, <2>2
<1> HIDE DEF t
<1>2. u.status \in {"done", "failed", "provisional"} /\ u.checked \in BOOLEAN
  BY DEF Update
<1> DEFINE q == Translated(t, u)
<1>3. /\ q \in Row /\ q.custom = t.custom /\ q.status = t.status /\ q.title = t.title
      /\ q.locked = t.locked
      /\ q.topic = IF t.refresh /\ u.status = "done" /\ t.topic # None THEN Shown(t) ELSE t.topic
      /\ q.refresh = (t.refresh /\ u.status # "done")
  BY <1>1, ShownType, ServiceAssumption DEF Translated, KeepTopic, Row
<1>4. Shown(q) = Shown(t)
  BY <1>3 DEF Shown
<1> HIDE DEF q
<1>5. ApplyTitle(r, u) = IF Accepts(u) THEN q ELSE r
  BY DEF ApplyTitle, q, t
<1>6. CASE ~Accepts(u)
  BY <1>5, <1>6 DEF Stays
<1>7. CASE Accepts(u)
  <2>1. u.status = "done" => u.title.language = language
    BY <1>7 DEF Accepts
  <2>2. RowInv(r, language) => RowInv(q, language)
    BY <1>1, <1>3, <1>4, <2>1 DEF RowInv
  <2>3. Stays(r, q)
    BY <1>1, <1>3 DEF Stays
  <2>4. r.status # "running" => q.status # "running"
    BY <1>1, <1>2, <1>3
  <2>5. r.custom = 0 => q.status # "running"
    BY <1>1, <1>2, <1>3
  <2>6. r.topic = None => q.topic = None
    BY <1>1, <1>3
  <2> QED
    BY <1>1, <1>3, <1>5, <1>7, <2>2, <2>3, <2>4, <2>5, <2>6
<1> QED
  BY <1>6, <1>7

----------------------------------------------------------------------------
(***************************************************************************)
(* The inductive invariant.  RunningIsInHand alone is not inductive: that  *)
(* a result ends a claim needs the result to be in the catalog's language, *)
(* which a live worker has read since the last configuration, and no claim *)
(* to be left when a generation starts.                                    *)
(***************************************************************************)

RowsOK == \A s \in Sessions : RowInv(row[s], language)

\* A configuration under way has cancelled the token.
TokenSound ==
    app.pc \in {"barrier", "start"} =>
        cancelled /\ app.wanted \in Configs /\ generation < MaxGeneration

NobodyAhead == \A g \in Generations : g > generation => titler[g] = None /\ sorter[g] = None

NothingRuns == \A s \in Sessions : row[s].status # "running"
StartIsClean == app.pc = "start" => NothingRuns

OffIsEmpty ==
    /\ TitlesAreOff => NothingRuns /\ \A g \in Generations : titler[g] # None => Cancelled(g)
    /\ TopicsAreOff => \A g \in Generations : sorter[g] # None => Cancelled(g)

\* A title worker, which is live or cancelled, when the catalog's language is l.
Sound(w, live, l) ==
    /\ w.pc # "answer" => w.batch = {}
    /\ \A u \in w.updates : u.status = "done" => u.checked
    /\ live =>
        /\ w.pc \in {"language", "pending"} => w.updates = {}
        /\ w.pc # "language" => w.language = l
        /\ \A u \in w.updates : u.title.language = w.language
TitlersSound ==
    \A g \in Generations : titler[g] # None => Sound(titler[g], ~Cancelled(g), language)

IInv ==
    /\ TypeOK /\ RowsOK /\ TokenSound /\ NobodyAhead /\ StartIsClean /\ OffIsEmpty
    /\ TitlersSound /\ RunningIsInHand

\* What one step does to every session.
StepOK ==
    \A s \in Sessions :
        /\ Stays(row[s], row'[s])
        /\ TitlesAreOff => row'[s].title = row[s].title
        /\ TopicsAreOff => (row[s].topic = None => row'[s].topic = None)

----------------------------------------------------------------------------

\* A worker the writer listens to is of the generation in force.
LEMMA LiveIsCurrent ==
  ASSUME IInv, NEW g \in Generations, titler[g] # None \/ sorter[g] # None, ~Cancelled(g)
  PROVE  g = generation /\ ~cancelled /\ generation > 0
<1>1. g = generation /\ ~cancelled
  BY DEF IInv, TypeOK, NobodyAhead, Cancelled, Generations
<1>2. g > 0
  BY ServiceAssumption DEF Generations
<1> QED
  BY <1>1, <1>2

\* A step that leaves the title workers, the language and the token alone, and neither makes a
\* title run nor takes a user's name away, keeps the invariant.
LEMMA RowStep ==
  ASSUME IInv, UNCHANGED <<language, control, titler>>,
         transcript' \in [Sessions -> Versions],
         row' \in [Sessions -> Row],
         sorter' \in [Generations -> Sorter \cup {None}],
         \A g \in Generations : sorter[g] = None => sorter'[g] = None,
         \A s \in Sessions : RowInv(row'[s], language),
         \A s \in Sessions : row'[s].status = "running" =>
             row[s].status = "running" /\ (row'[s].custom = 0 => row[s].custom = 0)
  PROVE  IInv'
<1>1. TypeOK' /\ RowsOK' /\ TokenSound' /\ TitlersSound'
  BY DEF IInv, TypeOK, RowsOK, TokenSound, TitlersSound, control, Cancelled
<1>2. NobodyAhead'
  BY DEF IInv, NobodyAhead, control
<1>3. NothingRuns => NothingRuns'
  BY DEF NothingRuns
<1>4. StartIsClean' /\ OffIsEmpty'
  BY <1>3 DEF IInv, StartIsClean, OffIsEmpty, TitlesAreOff, TopicsAreOff, control, Cancelled
<1>5. RunningIsInHand'
  BY DEF IInv, RunningIsInHand, InHand, control
<1> QED
  BY <1>1, <1>2, <1>4, <1>5 DEF IInv

\* A step of the title worker g keeps the invariant when the worker is sound after it, makes
\* titles run only while it is live, and has those that run in hand.
LEMMA TitlerKeeps ==
  ASSUME IInv, UNCHANGED <<language, transcript, control, sorter>>,
         NEW g \in Generations, titler[g] # None,
         NEW w \in Titler \cup {None}, titler' = [titler EXCEPT ![g] = w],
         w # None => Sound(w, ~Cancelled(g), language),
         row' \in [Sessions -> Row],
         \A s \in Sessions : RowInv(row'[s], language),
         ~Cancelled(g) \/ NothingRuns' \/ ~NothingRuns,
         RunningIsInHand'
  PROVE  IInv'
<1>1. TypeOK' /\ RowsOK' /\ TokenSound'
  BY DEF IInv, TypeOK, RowsOK, TokenSound, control
<1>2. NobodyAhead'
  BY DEF IInv, TypeOK, NobodyAhead, control
<1>3. (~Cancelled(g))' <=> ~Cancelled(g)
  BY DEF Cancelled, control
<1>4. TitlersSound'
  BY DEF IInv, TypeOK, TitlersSound, control, Cancelled
<1>5. StartIsClean'
  BY LiveIsCurrent DEF IInv, StartIsClean, TokenSound, control
<1>6. OffIsEmpty'
  BY LiveIsCurrent DEF IInv, TypeOK, OffIsEmpty, TitlesAreOff, TopicsAreOff, control, Cancelled
<1> QED
  BY <1>1, <1>2, <1>4, <1>5, <1>6 DEF IInv

----------------------------------------------------------------------------
(* Where it starts, and the steps of the App.                              *)

\* An opened catalog is sound: what was running is pending again (from_catalog).
LEMMA InitIInv == ASSUME Init PROVE IInv
<1>1. \A s \in Sessions : Fresh(s) \in Row
  BY ServiceAssumption DEF Fresh, Written, Row, Native, Generated, Statuses, Versions
<1>2. TypeOK
  <2>1. row \in [Sessions -> Row]
    BY <1>1 DEF Init
  <2>2. transcript \in [Sessions -> Versions]
    BY ServiceAssumption DEF Init, Written, Versions
  <2>3. generation \in 0..MaxGeneration /\ cancelled \in BOOLEAN
    <3>1. MaxGeneration \in Nat
      BY ServiceAssumption
    <3>2. generation \in 0..MaxGeneration
      BY <3>1 DEF Init
    <3>3. cancelled \in BOOLEAN
      BY Zenon DEF Init
    <3> QED
      BY <3>2, <3>3
  <2>5. app \in [pc : {"opened", "idle", "barrier", "start"},
                 config : Configs \cup {None}, wanted : Configs \cup {None}]
    BY DEF Init
  <2>4. /\ titler \in [Generations -> Titler \cup {None}]
        /\ sorter \in [Generations -> Sorter \cup {None}]
    BY DEF Init
  <2> QED
    BY <2>1, <2>2, <2>3, <2>4, <2>5 DEF Init, TypeOK
<1>3. RowsOK
  BY DEF Init, RowsOK, RowInv, Fresh
<1>4. /\ TokenSound /\ NobodyAhead /\ StartIsClean /\ OffIsEmpty /\ TitlersSound
      /\ RunningIsInHand
  BY DEF Init, TokenSound, NobodyAhead, StartIsClean, OffIsEmpty, TitlesAreOff, TopicsAreOff,
         TitlersSound, RunningIsInHand, Fresh
<1> QED
  BY <1>2, <1>3, <1>4 DEF IInv

\* A step that leaves the catalog alone does nothing to any session.
LEMMA SameRows == ASSUME UNCHANGED row PROVE StepOK
  BY DEF StepOK, Stays

\* Cancelling the token ends what every worker may still do (ReloadConfig).
LEMMA ReloadKeeps == ASSUME IInv, NEW c \in Configs, ReloadConfig(c) PROVE IInv' /\ StepOK
<1> USE DEF ReloadConfig, catalog
<1>1. TypeOK'
  BY DEF IInv, TypeOK
<1>2. RowsOK' /\ NobodyAhead' /\ StartIsClean' /\ OffIsEmpty' /\ RunningIsInHand'
  BY DEF IInv, RowsOK, NobodyAhead, StartIsClean, OffIsEmpty, TitlesAreOff, TopicsAreOff,
         RunningIsInHand, InHand, TypeOK
<1>3. TokenSound'
  BY DEF IInv, TokenSound, TypeOK
<1>4. TitlersSound'
  BY DEF IInv, TitlersSound, Sound, Cancelled
<1> QED
  BY <1>1, <1>2, <1>3, <1>4, SameRows DEF IInv

\* The barrier leaves nothing running and nothing finished in another language.
LEMMA ConfigureKeeps == ASSUME IInv, ConfigureSummaries PROVE IInv' /\ StepOK
<1> USE DEF ConfigureSummaries
<1> DEFINE l == app.wanted.language
<1>0. l \in Languages /\ cancelled
  BY ServiceAssumption DEF IInv, TokenSound
<1>1. \A s \in Sessions :
         /\ row'[s] \in Row /\ row'[s].status # "running" /\ RowInv(row'[s], l)
         /\ Stays(row[s], row'[s]) /\ Quiet(row[s], row'[s])
  <2> SUFFICES ASSUME NEW s \in Sessions
               PROVE  /\ row'[s] \in Row /\ row'[s].status # "running" /\ RowInv(row'[s], l)
                      /\ Stays(row[s], row'[s]) /\ Quiet(row[s], row'[s])
    OBVIOUS
  <2> DEFINE r == ResetRunning(row[s])
  <2>1. row[s] \in Row /\ RowInv(row[s], language)
    BY DEF IInv, TypeOK, RowsOK
  <2>2. /\ r \in Row /\ r.status # "running" /\ RowInv(r, language)
        /\ Quiet(row[s], r)
        /\ r.locked = row[s].locked /\ r.refresh = row[s].refresh /\ r.topic = row[s].topic
        /\ Shown(r) = Shown(row[s])
    BY <2>1, ResetRunningRow DEF ResetRunning, Row, Shown
  <2> HIDE DEF r
  <2>3. row'[s] = SetLanguage(r, l)
    BY DEF r
  <2>4. /\ SetLanguage(r, l) \in Row /\ SetLanguage(r, l).status # "running"
        /\ RowInv(SetLanguage(r, l), l)
        /\ Stays(r, SetLanguage(r, l)) /\ Quiet(r, SetLanguage(r, l))
    BY <2>2, SetLanguageRow
  <2> QED
    BY <2>2, <2>3, <2>4 DEF Stays, Quiet
<1>2. TypeOK'
  <2>1. row' \in [Sessions -> Row]
    BY <1>1
  <2> QED
    BY <1>0, <2>1 DEF IInv, TypeOK
<1>3. RowsOK'
  BY <1>1 DEF RowsOK
<1>4. TokenSound' /\ NobodyAhead'
  BY DEF IInv, TypeOK, TokenSound, NobodyAhead
<1>5. StartIsClean' /\ RunningIsInHand'
  BY <1>1 DEF StartIsClean, NothingRuns, RunningIsInHand
<1>6. OffIsEmpty'
  BY <1>0 DEF OffIsEmpty, TitlesAreOff, TopicsAreOff
<1>7. TitlersSound'
  BY <1>0 DEF IInv, TitlersSound, Sound, Cancelled
<1>8. StepOK
  BY <1>1 DEF StepOK, Quiet
<1> QED
  BY <1>2, <1>3, <1>4, <1>5, <1>6, <1>7, <1>8 DEF IInv

\* A barrier that fails leaves the token cancelled.
LEMMA ConfigureFailsKeeps == ASSUME IInv, ConfigureFails PROVE IInv' /\ StepOK
<1> USE DEF ConfigureFails
<1>0. cancelled
  BY DEF IInv, TokenSound
<1>1. \A s \in Sessions :
         /\ row'[s] \in Row /\ RowInv(row'[s], language)
         /\ Stays(row[s], row'[s]) /\ Quiet(row[s], row'[s])
  <2> SUFFICES ASSUME NEW s \in Sessions
               PROVE  /\ row'[s] \in Row /\ RowInv(row'[s], language)
                      /\ Stays(row[s], row'[s]) /\ Quiet(row[s], row'[s])
    OBVIOUS
  <2>1. row[s] \in Row /\ RowInv(row[s], language)
    BY DEF IInv, TypeOK, RowsOK
  <2>2. CASE UNCHANGED row
    BY <2>1, <2>2 DEF Stays, Quiet
  <2>3. CASE row'[s] = ResetRunning(row[s])
    BY <2>1, <2>3, ResetRunningRow
  <2> QED
    BY <2>2, <2>3
<1>2. TypeOK'
  <2>1. row' \in [Sessions -> Row]
    BY <1>1 DEF IInv, TypeOK
  <2> QED
    BY <1>0, <2>1 DEF IInv, TypeOK
<1>3. RowsOK'
  BY <1>1 DEF RowsOK
<1>4. TokenSound' /\ NobodyAhead' /\ StartIsClean'
  BY DEF IInv, TypeOK, TokenSound, NobodyAhead, StartIsClean
<1>5. RunningIsInHand'
  BY <1>0 DEF RunningIsInHand, InHand
<1>6. OffIsEmpty'
  BY <1>0 DEF OffIsEmpty, TitlesAreOff, TopicsAreOff
<1>7. TitlersSound'
  BY <1>0 DEF IInv, TitlersSound, Sound, Cancelled
<1>8. StepOK
  BY <1>1 DEF StepOK, Quiet
<1> QED
  BY <1>2, <1>3, <1>4, <1>5, <1>6, <1>7, <1>8 DEF IInv

\* A generation starts with nothing running, and its title worker knows no language yet.
LEMMA StartKeeps == ASSUME IInv, StartWorkers PROVE IInv' /\ StepOK
<1> USE DEF StartWorkers, catalog
<1> DEFINE g0 == generation + 1
           w == IF app.wanted.titles = "off" THEN None ELSE FirstTitler(app.wanted)
<1>0. /\ generation \in Nat /\ g0 \in Generations /\ app.wanted \in Configs
      /\ app.wanted.titles \in Titling
      /\ NothingRuns
  BY ServiceAssumption DEF IInv, TypeOK, TokenSound, Generations, StartIsClean
<1>1. w \in Titler \cup {None} /\ (w # None => Sound(w, TRUE, language))
  BY <1>0, ServiceAssumption DEF FirstTitler, Titler, Sound
<1> HIDE DEF w
<1>2. /\ titler' = [titler EXCEPT ![g0] = w]
      /\ sorter' = [sorter EXCEPT ![g0] = IF app.wanted.topics THEN {} ELSE None]
      /\ generation' = g0 /\ cancelled' = FALSE /\ row' = row /\ language' = language
      /\ transcript' = transcript
      /\ app' = [pc |-> "idle", config |-> app.wanted, wanted |-> None]
  BY DEF w
<1>3. TypeOK'
  <2>1. titler' \in [Generations -> Titler \cup {None}]
    BY <1>1, <1>2 DEF IInv, TypeOK
  <2>2. sorter' \in [Generations -> Sorter \cup {None}]
    BY <1>2 DEF IInv, TypeOK, Sorter
  <2>3. generation' \in 0..MaxGeneration /\ cancelled' \in BOOLEAN
    <3>1. g0 \in 1..MaxGeneration
      BY <1>0 DEF Generations
    <3>2. generation' \in 0..MaxGeneration
      BY <1>2, <3>1, ServiceAssumption
    <3>3. cancelled' \in BOOLEAN
      BY <1>2, Zenon
    <3> QED
      BY <3>2, <3>3
  <2>4. app' \in [pc : {"opened", "idle", "barrier", "start"},
                  config : Configs \cup {None}, wanted : Configs \cup {None}]
    BY <1>0, <1>2
  <2> QED
    BY <1>2, <2>1, <2>2, <2>3, <2>4 DEF IInv, TypeOK
<1>4. RowsOK' /\ TokenSound' /\ StartIsClean'
  BY <1>2 DEF IInv, RowsOK, TokenSound, StartIsClean
<1>5. NobodyAhead'
  BY <1>0, <1>2 DEF IInv, TypeOK, NobodyAhead, Generations
<1>6. RunningIsInHand'
  BY <1>0, <1>2 DEF NothingRuns, RunningIsInHand
<1>7. \A g \in Generations : g # g0 /\ titler[g] # None => g < g0
  BY <1>0 DEF IInv, NobodyAhead, Generations
<1>8. TitlersSound'
  <2> SUFFICES ASSUME NEW g \in Generations, titler'[g] # None
               PROVE  Sound(titler'[g], ~Cancelled(g)', language)
    BY <1>2 DEF TitlersSound
  <2>1. CASE g = g0
    BY <1>0, <1>1, <1>2, <2>1 DEF IInv, TypeOK, Sound, Generations
  <2>2. CASE g # g0
    <3>1. titler'[g] = titler[g] /\ Cancelled(g)'
      BY <1>2, <1>7, <2>2 DEF IInv, TypeOK, Cancelled
    <3> QED
      BY <3>1 DEF IInv, TitlersSound, Sound
  <2> QED
    BY <2>1, <2>2
<1>9. OffIsEmpty'
  <2>1. ASSUME TitlesAreOff'
        PROVE  NothingRuns' /\ \A g \in Generations : titler'[g] # None => Cancelled(g)'
    <3>1. w = None
      BY <1>2, <2>1 DEF TitlesAreOff, w
    <3> QED
      BY <1>0, <1>2, <1>7, <3>1 DEF IInv, TypeOK, Cancelled, NothingRuns
  <2>2. ASSUME TopicsAreOff'
        PROVE  \A g \in Generations : sorter'[g] # None => Cancelled(g)'
    <3>1. ~app.wanted.topics
      BY <1>2, <2>2 DEF TopicsAreOff
    <3>2. \A g \in Generations : g # g0 /\ sorter[g] # None => g < g0
      BY <1>0 DEF IInv, NobodyAhead, Generations
    <3> QED
      BY <1>0, <1>2, <3>1, <3>2 DEF IInv, TypeOK, Cancelled
  <2> QED
    BY <2>1, <2>2 DEF OffIsEmpty
<1> QED
  BY <1>2, <1>3, <1>4, <1>5, <1>6, <1>8, <1>9, SameRows DEF IInv

\* A thread that cannot be spawned leaves the token of its generation cancelled.
LEMMA StartFailsKeeps == ASSUME IInv, StartFails PROVE IInv' /\ StepOK
<1> USE DEF StartFails, catalog
<1>1. TypeOK'
  <2>1. generation + 1 \in 0..MaxGeneration
    BY ServiceAssumption DEF IInv, TypeOK, TokenSound
  <2>2. app' \in [pc : {"opened", "idle", "barrier", "start"},
                  config : Configs \cup {None}, wanted : Configs \cup {None}]
    BY DEF IInv, TypeOK
  <2> QED
    BY <2>1, <2>2 DEF IInv, TypeOK
<1>2. RowsOK' /\ TokenSound' /\ StartIsClean' /\ RunningIsInHand' /\ OffIsEmpty'
  BY DEF IInv, RowsOK, TokenSound, StartIsClean, RunningIsInHand, InHand, OffIsEmpty,
         TitlesAreOff, TopicsAreOff
<1>3. NobodyAhead'
  BY DEF IInv, TypeOK, NobodyAhead, Generations
<1>4. TitlersSound'
  BY DEF IInv, TitlersSound, Sound, Cancelled
<1> QED
  BY <1>1, <1>2, <1>3, <1>4, SameRows DEF IInv

\* Opening the catalog again requeues what the dead server had claimed.
LEMMA RestartKeeps == ASSUME IInv, Restart PROVE IInv' /\ StepOK
<1> USE DEF Restart
<1>1. \A s \in Sessions :
         /\ row'[s] \in Row /\ row'[s].status # "running" /\ RowInv(row'[s], language)
         /\ Stays(row[s], row'[s]) /\ Quiet(row[s], row'[s])
  BY ResetRunningRow DEF IInv, TypeOK, RowsOK
<1>2. TypeOK'
  <2>1. row' \in [Sessions -> Row]
    BY <1>1
  <2>2. generation' \in 0..MaxGeneration
    BY ServiceAssumption
  <2>3. app' \in [pc : {"opened", "idle", "barrier", "start"},
                  config : Configs \cup {None}, wanted : Configs \cup {None}]
    OBVIOUS
  <2>4. /\ titler' \in [Generations -> Titler \cup {None}]
        /\ sorter' \in [Generations -> Sorter \cup {None}]
    OBVIOUS
  <2> QED
    BY <2>1, <2>2, <2>3, <2>4 DEF IInv, TypeOK
<1>3. RowsOK'
  BY <1>1 DEF RowsOK
<1>4. TokenSound' /\ NobodyAhead' /\ StartIsClean' /\ OffIsEmpty' /\ TitlersSound'
  BY DEF TokenSound, NobodyAhead, StartIsClean, OffIsEmpty, TitlesAreOff, TopicsAreOff,
         TitlersSound
<1>5. RunningIsInHand'
  BY <1>1 DEF RunningIsInHand
<1>6. StepOK
  BY <1>1 DEF StepOK, Quiet
<1> QED
  BY <1>2, <1>3, <1>4, <1>5, <1>6 DEF IInv

----------------------------------------------------------------------------
(* The user, the agents and the topic workers.                             *)

\* A user's name makes no title run and takes the topic along.
LEMMA RenameKeeps == ASSUME IInv, NEW s \in Owned, RenameSession(s) PROVE IInv' /\ StepOK
<1> USE DEF RenameSession, control
<1>1. s \in Sessions /\ row[s] \in Row
  BY ServiceAssumption DEF IInv, TypeOK
<1>2. /\ Rename(row[s]) \in Row /\ Rename(row[s]).status = "done"
      /\ RowInv(Rename(row[s]), language)
      /\ Stays(row[s], Rename(row[s])) /\ Quiet(row[s], Rename(row[s]))
  BY <1>1, RenameRow
<1>3. row' \in [Sessions -> Row]
  BY <1>2 DEF IInv, TypeOK
<1>4. \A x \in Sessions :
         /\ RowInv(row'[x], language) /\ Stays(row[x], row'[x]) /\ Quiet(row[x], row'[x])
         /\ row'[x].status = "running" => row'[x] = row[x]
  BY <1>2 DEF IInv, TypeOK, RowsOK, Stays, Quiet
<1>5. transcript' \in [Sessions -> Versions] /\ sorter' \in [Generations -> Sorter \cup {None}]
  BY DEF IInv, TypeOK
<1> QED
  BY <1>3, <1>4, <1>5, RowStep DEF StepOK, Quiet

\* Locking a session changes nothing else of it.
LEMMA LockKeeps == ASSUME IInv, NEW s \in Owned, LockSession(s) PROVE IInv' /\ StepOK
<1> USE DEF LockSession, control
<1> DEFINE r == [row[s] EXCEPT !.locked = ~@]
<1>1. s \in Sessions /\ row[s] \in Row
  BY ServiceAssumption DEF IInv, TypeOK
<1>2. r \in Row
  BY <1>1 DEF Row
<1>3. /\ r.status = row[s].status /\ r.custom = row[s].custom /\ r.title = row[s].title
      /\ r.topic = row[s].topic
  BY <1>1 DEF Row
<1>7. r.locked # row[s].locked
  BY <1>1 DEF Row
<1> HIDE DEF r
<1>8. row' = [row EXCEPT ![s] = r]
  BY DEF r
<1>4. row' \in [Sessions -> Row]
  BY <1>2, <1>8 DEF IInv, TypeOK
<1>5. \A x \in Sessions :
         /\ RowInv(row'[x], language) /\ Quiet(row[x], row'[x])
         /\ Stays(row[x], row'[x])
         /\ row'[x].status = row[x].status /\ row'[x].custom = row[x].custom
  <2> TAKE x \in Sessions
  <2>1. CASE x = s
    BY <1>1, <1>3, <1>7, <1>8, <2>1 DEF IInv, TypeOK, RowsOK, RowInv, Shown, Quiet, Stays
  <2>2. CASE x # s
    BY <1>8, <2>2 DEF IInv, TypeOK, RowsOK, Quiet, Stays
  <2> QED
    BY <2>1, <2>2
<1>6. transcript' \in [Sessions -> Versions] /\ sorter' \in [Generations -> Sorter \cup {None}]
  BY DEF IInv, TypeOK
<1> QED
  BY <1>4, <1>5, <1>6, RowStep DEF StepOK, Quiet

\* What an agent writes is not in the catalog yet.
LEMMA WriteKeeps == ASSUME IInv, NEW s \in Active, AgentWrites(s) PROVE IInv' /\ StepOK
<1> USE DEF AgentWrites, control, catalog
<1>1. transcript' \in [Sessions -> Versions]
  BY ServiceAssumption DEF IInv, TypeOK, Versions
<1>2. /\ row' \in [Sessions -> Row] /\ sorter' \in [Generations -> Sorter \cup {None}]
      /\ \A x \in Sessions : RowInv(row'[x], language)
  BY DEF IInv, TypeOK, RowsOK
<1> QED
  BY <1>1, <1>2, RowStep, SameRows

\* A scan requeues a title at most.
LEMMA ScanKeeps ==
  ASSUME IInv, NEW s \in Sessions, NEW found \in BOOLEAN, Scan(s, found) PROVE IInv' /\ StepOK
<1> USE DEF Scan, control
<1> DEFINE r == Upsert(row[s], transcript[s], found)
<1>1. row[s] \in Row /\ transcript[s] \in Versions /\ RowInv(row[s], language)
  BY DEF IInv, TypeOK, RowsOK
<1>2. /\ r \in Row /\ (row[s].status # "running" => r.status # "running")
      /\ r.custom = row[s].custom
      /\ RowInv(r, language) /\ Stays(row[s], r) /\ Quiet(row[s], r)
  BY <1>1, UpsertRow
<1> HIDE DEF r
<1>3. row' = [row EXCEPT ![s] = r]
  BY DEF r
<1>4. row' \in [Sessions -> Row]
  BY <1>2, <1>3 DEF IInv, TypeOK
<1>5. \A x \in Sessions :
         /\ RowInv(row'[x], language) /\ Quiet(row[x], row'[x]) /\ Stays(row[x], row'[x])
         /\ row'[x].custom = row[x].custom
         /\ row[x].status # "running" => row'[x].status # "running"
  BY <1>2, <1>3 DEF IInv, TypeOK, RowsOK, Quiet, Stays
<1>6. transcript' \in [Sessions -> Versions] /\ sorter' \in [Generations -> Sorter \cup {None}]
  BY DEF IInv, TypeOK
<1> QED
  BY <1>4, <1>5, <1>6, RowStep DEF StepOK, Quiet

\* A topic worker that ends, reads or gives up touches no session.
LEMMA SorterAloneKeeps ==
  ASSUME IInv, NEW g \in Generations,
         \/ SorterEnds(g) \/ ReadUnsorted(g)
         \/ \E batch \in SUBSET sorter[g] : sorter[g] # None /\ SorterGivesUp(g, batch)
  PROVE  IInv' /\ StepOK
<1> USE DEF SorterEnds, ReadUnsorted, SorterGivesUp, control, catalog
<1>1. UNCHANGED <<language, control, titler, transcript, row>>
  OBVIOUS
<1>2. sorter' \in [Generations -> Sorter \cup {None}]
  <2>1. CASE SorterEnds(g)
    BY <2>1 DEF IInv, TypeOK
  <2>2. CASE ReadUnsorted(g)
    <3>1. {<<s, Shown(row[s])>> : s \in {t \in Sessions : AwaitsTopic(t, row[t])}} \in Sorter
      BY ShownType DEF IInv, TypeOK, Sorter
    <3> QED
      BY <2>2, <3>1 DEF IInv, TypeOK
  <2>3. CASE \E batch \in SUBSET sorter[g] : sorter[g] # None /\ SorterGivesUp(g, batch)
    <3> PICK batch \in SUBSET sorter[g] : sorter[g] # None /\ SorterGivesUp(g, batch)
      BY <2>3
    <3>1. sorter[g] \ batch \in Sorter
      BY DEF IInv, TypeOK, Sorter
    <3> QED
      BY <3>1 DEF IInv, TypeOK
  <2> QED
    BY <2>1, <2>2, <2>3
<1>3. \A x \in Generations : sorter[x] = None => sorter'[x] = None
  BY DEF IInv, TypeOK
<1>4. row' \in [Sessions -> Row] /\ transcript' \in [Sessions -> Versions]
  BY <1>1 DEF IInv, TypeOK
<1>5. \A s \in Sessions : RowInv(row'[s], language)
  BY <1>1 DEF IInv, RowsOK
<1> QED
  BY <1>1, <1>2, <1>3, <1>4, <1>5, RowStep, SameRows

\* The answers of a topic worker whose token the writer accepts.
LEMMA TopicsKeep ==
  ASSUME IInv, NEW g \in Generations, sorter[g] # None,
         NEW batch \in SUBSET sorter[g], ApplyTopics(g, batch)
  PROVE  IInv' /\ StepOK
<1> USE DEF ApplyTopics, control
<1>1. sorter[g] \in Sorter
  BY DEF IInv, TypeOK
<1>2. \A s \in Sessions :
         /\ row'[s] \in Row /\ row'[s].status = row[s].status
         /\ row'[s].custom = row[s].custom /\ row'[s].title = row[s].title
         /\ RowInv(row'[s], language) /\ Stays(row[s], row'[s])
  <2> TAKE s \in Sessions
  <2>1. row[s] \in Row /\ RowInv(row[s], language)
    BY DEF IInv, TypeOK, RowsOK
  <2>2. CASE \E q \in batch : q[1] = s
    <3> DEFINE q == CHOOSE x \in batch : x[1] = s
    <3>1. q \in Sessions \X Title
      BY <1>1, <2>2 DEF Sorter
    <3>2. q[2] \in Title
      BY <3>1
    <3>3. row'[s] = Classify(row[s], q[2])
      BY <2>2
    <3> HIDE DEF q
    <3> QED
      BY <2>1, <3>2, <3>3, ClassifyRow
  <2>3. CASE ~(\E q \in batch : q[1] = s)
    BY <2>1, <2>3 DEF Stays
  <2> QED
    BY <2>2, <2>3
<1>3. row' \in [Sessions -> Row]
  BY <1>2
<1>4. sorter' \in [Generations -> Sorter \cup {None}] /\ transcript' \in [Sessions -> Versions]
  BY <1>1 DEF IInv, TypeOK, Sorter
<1>5. \A x \in Generations : sorter[x] = None => sorter'[x] = None
  BY DEF IInv, TypeOK
<1>6. IInv'
  BY <1>2, <1>3, <1>4, <1>5, RowStep
<1>7. ~TopicsAreOff
  BY DEF IInv, OffIsEmpty, Refused
<1> QED
  BY <1>2, <1>6, <1>7 DEF StepOK

----------------------------------------------------------------------------
(* The title workers.                                                      *)

\* A worker that ends was refused, or saw its token.
LEMMA TitlerEndsKeeps == ASSUME IInv, NEW g \in Generations, TitlerEnds(g) PROVE IInv' /\ StepOK
<1> USE DEF TitlerEnds, TitlerStops, catalog
<1>1. Cancelled(g) /\ titler[g] # None /\ titler' = [titler EXCEPT ![g] = None]
  BY DEF Refused
<1>2. RunningIsInHand'
  BY <1>1 DEF IInv, TypeOK, RunningIsInHand, InHand, Cancelled, control
<1>3. row' \in [Sessions -> Row] /\ \A s \in Sessions : RowInv(row'[s], language)
  BY DEF IInv, TypeOK, RowsOK
<1>4. NothingRuns' \/ ~NothingRuns
  BY DEF NothingRuns
<1> QED
  BY <1>1, <1>2, <1>3, <1>4, TitlerKeeps, SameRows DEF control

\* A worker that reads or checks has nothing in hand, or keeps it.
LEMMA TitlerReadsKeeps ==
  ASSUME IInv, NEW g \in Generations, ReadLanguage(g) \/ ReadPending(g) \/ CheckLanguage(g)
  PROVE  IInv' /\ StepOK
<1>0. /\ titler[g] # None /\ ~Cancelled(g)
      /\ UNCHANGED <<language, row, transcript, control, sorter>>
  BY DEF ReadLanguage, ReadPending, CheckLanguage, catalog
<1>1. /\ titler[g] # None /\ titler[g] \in Titler /\ ~Cancelled(g)
      /\ Sound(titler[g], TRUE, language)
  BY <1>0 DEF IInv, TypeOK, TitlersSound, Sound
<1>2. PICK w \in Titler : titler' = [titler EXCEPT ![g] = w]
                           /\ Sound(w, TRUE, language)
                           /\ w.batch = titler[g].batch
                           /\ w.updates = titler[g].updates
  <2> DEFINE old == titler[g]
             pending == {s \in Sessions : AwaitsTitle(row[s])}
  <2>1. CASE ReadLanguage(g)
    <3> DEFINE w == [old EXCEPT !.pc = "pending", !.language = language]
    <3>1. titler' = [titler EXCEPT ![g] = w]
      BY <2>1 DEF ReadLanguage, IInv, TypeOK
    <3>2. w \in Titler
      BY <1>1 DEF IInv, TypeOK, Titler
    <3>3. /\ w.pc = "pending" /\ w.language = language /\ w.batch = old.batch
          /\ w.updates = old.updates /\ old.pc = "language"
      BY <1>1, <2>1 DEF ReadLanguage, Titler
    <3> HIDE DEF w
    <3>4. Sound(w, TRUE, language)
      BY <1>1, <3>3 DEF Sound
    <3> QED
      BY <3>1, <3>2, <3>3, <3>4
  <2>2. CASE ReadPending(g)
    <3> DEFINE pc == IF pending = {} THEN "language" ELSE "claim"
               w == [old EXCEPT !.pc = pc, !.todo = pending, !.updates = {}]
    <3>1. titler' = [titler EXCEPT ![g] = w]
      BY <2>2 DEF ReadPending, IInv, TypeOK
    <3>2. w \in Titler
      <4>1. pending \in SUBSET Sessions
        OBVIOUS
      <4> HIDE DEF pending
      <4> QED
        BY <1>1, <4>1 DEF Titler
    <3>3. /\ w.pc \in {"language", "claim"} /\ w.language = old.language
          /\ w.batch = old.batch /\ w.updates = {} /\ old.pc = "pending"
      <4> HIDE DEF pending
      <4> QED
        BY <1>1, <2>2 DEF ReadPending, Titler
    <3> HIDE DEF w
    <3>4. Sound(w, TRUE, language) /\ old.updates = {}
      BY <1>1, <3>3 DEF Sound
    <3> QED
      BY <3>1, <3>2, <3>3, <3>4
  <2>3. CASE CheckLanguage(g)
    <3> DEFINE w == [old EXCEPT !.pc = "apply"]
    <3>1. old.language = language
      BY <1>1, <2>3 DEF CheckLanguage, Sound
    <3>2. titler' = [titler EXCEPT ![g] = w]
      BY <2>3, <3>1 DEF CheckLanguage, IInv, TypeOK
    <3>3. w \in Titler
      BY <1>1 DEF Titler
    <3>4. /\ w.pc = "apply" /\ w.language = old.language /\ w.batch = old.batch
          /\ w.updates = old.updates /\ old.pc = "check"
      BY <1>1, <2>3 DEF CheckLanguage, Titler
    <3> HIDE DEF w
    <3>5. Sound(w, TRUE, language)
      BY <1>1, <3>4 DEF Sound
    <3> QED
      BY <3>2, <3>3, <3>4, <3>5
  <2> QED
    BY <2>1, <2>2, <2>3
<1>3. UNCHANGED <<language, transcript, control, sorter, row>>
  BY <1>0
<1>6. titler[generation] # None => titler'[generation] # None
  BY <1>2, <1>3, NoWorkerAssumption DEF IInv, TypeOK, control
<1>7. titler[generation] # None /\ generation > 0 =>
         /\ titler'[generation].batch = titler[generation].batch
         /\ titler'[generation].updates = titler[generation].updates
  BY <1>2, <1>3 DEF IInv, TypeOK, control, Generations
<1>4. RunningIsInHand'
  BY <1>3, <1>6, <1>7 DEF IInv, RunningIsInHand, InHand, control
<1>5. row' \in [Sessions -> Row] /\ \A s \in Sessions : RowInv(row'[s], language)
  BY <1>3 DEF IInv, TypeOK, RowsOK
<1> QED
  BY <1>1, <1>2, <1>3, <1>4, <1>5, TitlerKeeps, SameRows

\* A claim makes titles run that the worker then has in hand.
LEMMA ClaimKeeps ==
  ASSUME IInv, NEW g \in Generations, NEW batch \in SUBSET Sessions, ClaimTitles(g, batch)
  PROVE  IInv' /\ StepOK
<1> USE DEF ClaimTitles
<1> DEFINE old == titler[g]
           ready == {s \in batch : transcript[s] > 0}
           w == [old EXCEPT !.pc = "answer", !.batch = batch, !.todo = @ \ batch,
                            !.ready = ready]
<1>1. /\ old # None /\ old \in Titler /\ ~Cancelled(g)
      /\ Sound(old, TRUE, language) /\ g = generation /\ ~cancelled /\ old.pc = "claim"
  BY LiveIsCurrent DEF IInv, TypeOK, TitlersSound, Sound, Refused
<1>2. titler' = [titler EXCEPT ![g] = w]
  BY DEF IInv, TypeOK
<1>3. w \in Titler
  <2>1. ready \in SUBSET Sessions /\ old.todo \ batch \in SUBSET Sessions
    BY <1>1 DEF Titler
  <2> HIDE DEF ready
  <2> QED
    BY <1>1, <2>1 DEF Titler
<1>4. /\ w.pc = "answer" /\ w.language = old.language /\ w.batch = batch
      /\ w.updates = old.updates
  BY <1>1 DEF Titler
<1> HIDE DEF w
<1>5. Sound(w, TRUE, language)
  BY <1>1, <1>4 DEF Sound
<1>6. \A s \in Sessions :
         /\ row'[s] \in Row /\ RowInv(row'[s], language)
         /\ Stays(row[s], row'[s]) /\ Quiet(row[s], row'[s])
         /\ s \notin batch => row'[s] = row[s]
  <2> TAKE s \in Sessions
  <2>1. row[s] \in Row /\ RowInv(row[s], language)
    BY DEF IInv, TypeOK, RowsOK
  <2>2. CASE s \in batch
    BY <2>1, <2>2, ClaimRow
  <2>3. CASE s \notin batch
    BY <2>1, <2>3 DEF Stays, Quiet
  <2> QED
    BY <2>2, <2>3
<1>7. titler'[generation] = w /\ w # None /\ generation > 0
  <2>1. generation > 0
    BY <1>1, LiveIsCurrent
  <2>2. titler'[g] = w
    BY <1>2 DEF IInv, TypeOK
  <2> QED
    BY <1>1, <1>3, <2>1, <2>2, NoWorkerAssumption
<1>8. RunningIsInHand'
  <2> SUFFICES ASSUME NEW s \in Sessions, row'[s].status = "running", row'[s].custom = 0
               PROVE  s \in w.batch \/ \E u \in w.updates : u.session = s
    BY <1>7 DEF RunningIsInHand, InHand, control
  <2>1. CASE s \in batch
    BY <1>4, <2>1
  <2>2. CASE s \notin batch
    <3>1. InHand(s) /\ old.batch = {}
      BY <1>1, <1>6, <2>2 DEF IInv, RunningIsInHand, Sound
    <3> QED
      BY <1>1, <1>4, <3>1 DEF InHand
  <2> QED
    BY <2>1, <2>2
<1>9. row' \in [Sessions -> Row]
  BY <1>6
<1>10. IInv'
  BY <1>1, <1>2, <1>3, <1>5, <1>6, <1>8, <1>9, TitlerKeeps
<1>11. ~TitlesAreOff
  BY <1>1 DEF IInv, OffIsEmpty
<1> QED
  BY <1>6, <1>10, <1>11 DEF StepOK, Quiet

\* A result is a result: what counts as done says what language it is for.
LEMMA ResultUpdate ==
  ASSUME IInv, NEW w \in Titler, NEW s \in Sessions, NEW answered \in BOOLEAN
  PROVE  /\ Result(w, s, answered) \in Update
         /\ Result(w, s, answered).session = s
         /\ Result(w, s, answered).title.language = w.language
         /\ Result(w, s, answered).status = "done" => Result(w, s, answered).checked
<1> DEFINE title == [by |-> IF answered /\ s \in w.ready THEN "model" ELSE "fallback",
                     language |-> w.language, n |-> 0]
           status == IF s \notin w.ready THEN "provisional"
                     ELSE IF answered \/ w.titles = "local" THEN "done" ELSE "failed"
           checked == s \in w.ready \/ ~answered
<1>1. title \in Generated /\ title.language = w.language
  BY DEF Generated, Titler
<1>2. status \in {"done", "failed", "provisional"}
  OBVIOUS
<1>3. checked \in BOOLEAN
  OBVIOUS
<1>4. status = "done" => checked
  OBVIOUS
<1>5. transcript[s] \in Versions
  BY DEF IInv, TypeOK
<1> HIDE DEF title, status, checked
<1>6. Result(w, s, answered) = [session |-> s, title |-> title, status |-> status,
                               checked |-> checked, at |-> transcript[s]]
  BY DEF Result, title, status, checked
<1>7. [session |-> s, title |-> title, status |-> status, checked |-> checked,
       at |-> transcript[s]] \in Update
  BY <1>1, <1>2, <1>3, <1>5, ZenonT(30) DEF Update
<1> QED
  BY <1>1, <1>4, <1>6, <1>7

\* What was claimed becomes a result to be stored.
LEMMA AnswerKeeps ==
  ASSUME IInv, NEW g \in Generations, NEW answered \in BOOLEAN, ProviderAnswers(g, answered)
  PROVE  IInv' /\ StepOK
<1> DEFINE old == titler[g]
           new == {Result(old, s, answered) : s \in old.batch}
           pc == IF old.todo = {} THEN "check" ELSE "claim"
           updates == old.updates \cup new
           w == [old EXCEPT !.pc = pc, !.updates = updates, !.batch = {}, !.ready = {}]
<1>0. /\ old # None /\ old.pc = "answer" /\ ~Cancelled(g)
      /\ UNCHANGED <<language, row, transcript, control, sorter>>
  BY DEF ProviderAnswers, catalog
<1>1. /\ old # None /\ old \in Titler /\ ~Cancelled(g)
      /\ Sound(old, TRUE, language) /\ g = generation /\ ~cancelled /\ old.pc = "answer"
  BY <1>0, LiveIsCurrent DEF IInv, TypeOK, TitlersSound, Sound
<1>2. titler' = [titler EXCEPT ![g] = w]
  BY DEF ProviderAnswers, IInv, TypeOK
<1>3. /\ new \subseteq Update
      /\ \A u \in new : u.title.language = old.language /\ (u.status = "done" => u.checked)
      /\ \A s \in old.batch : \E u \in new : u.session = s
  <2> HIDE DEF old
  <2>1. \A s \in old.batch :
           /\ Result(old, s, answered) \in Update
           /\ Result(old, s, answered).session = s
           /\ Result(old, s, answered).title.language = old.language
           /\ Result(old, s, answered).status = "done" => Result(old, s, answered).checked
    <3>1. \A s \in old.batch : s \in Sessions
      BY <1>1 DEF Titler
    <3> QED
      BY <1>1, <3>1, ResultUpdate
  <2>2. \A u \in new : \E s \in old.batch : u = Result(old, s, answered)
    OBVIOUS
  <2>3. \A s \in old.batch : Result(old, s, answered) \in new
    OBVIOUS
  <2> HIDE DEF new
  <2>4. new \subseteq Update
    BY <2>1, <2>2, Zenon
  <2>5. \A u \in new : u.title.language = old.language /\ (u.status = "done" => u.checked)
    <3> TAKE u \in new
    <3>1. PICK s \in old.batch : u = Result(old, s, answered)
      BY <2>2
    <3> QED
      BY <2>1, <3>1
  <2>6. \A s \in old.batch : \E u \in new : u.session = s
    BY <2>1, <2>3, Zenon
  <2> QED
    BY <2>4, <2>5, <2>6
<1> HIDE DEF new
<1>4. updates \in SUBSET Update /\ pc \in {"check", "claim"}
  BY <1>1, <1>3 DEF Titler
<1> HIDE DEF updates, pc
<1>5. w \in Titler
  BY <1>1, <1>4 DEF Titler
<1>6. w.pc = pc /\ w.language = old.language /\ w.batch = {} /\ w.updates = updates
  BY <1>1 DEF Titler
<1> HIDE DEF w
<1>7. Sound(w, TRUE, language)
  BY <1>1, <1>3, <1>4, <1>6 DEF Sound, updates
<1>8. titler'[generation] = w /\ w # None /\ generation > 0
  <2>1. generation > 0
    BY <1>1, LiveIsCurrent
  <2>2. titler'[g] = w
    BY <1>2 DEF IInv, TypeOK
  <2> QED
    BY <1>1, <1>5, <2>1, <2>2, NoWorkerAssumption
<1>9. RunningIsInHand'
  <2> SUFFICES ASSUME NEW s \in Sessions, row[s].status = "running", row[s].custom = 0
               PROVE  \E u \in w.updates : u.session = s
    BY <1>0, <1>8 DEF RunningIsInHand, InHand, control
  <2>1. s \in old.batch \/ \E u \in old.updates : u.session = s
    BY <1>1 DEF IInv, RunningIsInHand, InHand
  <2> QED
    BY <1>3, <1>6, <2>1 DEF updates
<1>10. row' \in [Sessions -> Row] /\ \A s \in Sessions : RowInv(row'[s], language)
  BY <1>0 DEF IInv, TypeOK, RowsOK
<1> QED
  BY <1>0, <1>1, <1>2, <1>5, <1>7, <1>9, <1>10, TitlerKeeps, SameRows

\* The results of a live worker are in the catalog's language, so that they end its claims.
LEMMA ApplyKeeps == ASSUME IInv, NEW g \in Generations, ApplyTitles(g) PROVE IInv' /\ StepOK
<1> USE DEF ApplyTitles
<1> DEFINE old == titler[g]
           w == [old EXCEPT !.pc = "language", !.updates = {}]
<1>1. /\ old # None /\ old \in Titler /\ ~Cancelled(g)
      /\ Sound(old, TRUE, language) /\ g = generation /\ ~cancelled /\ old.pc = "apply"
  BY LiveIsCurrent DEF IInv, TypeOK, TitlersSound, Sound, Refused
<1>2. titler' = [titler EXCEPT ![g] = w]
  BY DEF IInv, TypeOK
<1>3. w \in Titler /\ w.pc = "language" /\ w.batch = old.batch /\ w.updates = {}
  BY <1>1 DEF Titler
<1> HIDE DEF w
<1>4. Sound(w, TRUE, language) /\ old.batch = {}
  BY <1>1, <1>3 DEF Sound
<1>5. \A s \in Sessions :
         /\ row'[s] \in Row /\ RowInv(row'[s], language) /\ Stays(row[s], row'[s])
         /\ row[s].topic = None => row'[s].topic = None
         /\ row'[s].custom = 0 => row'[s].status # "running"
  <2> TAKE s \in Sessions
  <2>1. row[s] \in Row /\ RowInv(row[s], language)
    BY DEF IInv, TypeOK, RowsOK
  <2>2. CASE \E u \in old.updates : u.session = s
    <3> DEFINE u == CHOOSE x \in old.updates : x.session = s
    <3>1. u \in old.updates
      BY <2>2
    <3>2. row'[s] = ApplyTitle(row[s], u)
      BY <2>2
    <3> HIDE DEF u
    <3>3. u \in Update /\ (u.status = "done" => u.checked) /\ Accepts(u)
      BY <1>1, <3>1 DEF Titler, Sound, Accepts
    <3> QED
      BY <2>1, <3>2, <3>3, ApplyTitleRow
  <2>3. CASE ~(\E u \in old.updates : u.session = s)
    <3>1. row'[s] = row[s]
      BY <2>3
    <3>2. row[s].custom = 0 => row[s].status # "running"
      BY <1>1, <1>4, <2>3 DEF IInv, RunningIsInHand, InHand
    <3> QED
      BY <2>1, <3>1, <3>2 DEF Stays
  <2> QED
    BY <2>2, <2>3
<1>6. row' \in [Sessions -> Row]
  BY <1>5
<1>7. RunningIsInHand'
  BY <1>5 DEF RunningIsInHand
<1>8. IInv'
  BY <1>1, <1>2, <1>3, <1>4, <1>5, <1>6, <1>7, TitlerKeeps
<1>9. ~TitlesAreOff
  BY <1>1 DEF IInv, OffIsEmpty
<1> QED
  BY <1>5, <1>8, <1>9 DEF StepOK

----------------------------------------------------------------------------
(* The theorems.                                                           *)

\* Every step keeps the invariant and does to a session what StepOK allows.
LEMMA NextKeeps == ASSUME IInv, [Next]_vars PROVE IInv' /\ StepOK
<1>1. ASSUME NEW c \in Configs, ReloadConfig(c) PROVE IInv' /\ StepOK
  BY <1>1, ReloadKeeps
<1>2. CASE Configures
  BY <1>2, ConfigureKeeps, ConfigureFailsKeeps, StartKeeps, StartFailsKeeps DEF Configures
<1>3. CASE Restart
  BY <1>3, RestartKeeps
<1>4. ASSUME NEW s \in Owned, RenameSession(s) \/ LockSession(s) PROVE IInv' /\ StepOK
  BY <1>4, RenameKeeps, LockKeeps
<1>5. ASSUME NEW s \in Active, AgentWrites(s) PROVE IInv' /\ StepOK
  BY <1>5, WriteKeeps
<1>6. ASSUME NEW s \in Sessions, NEW found \in BOOLEAN, Scan(s, found) PROVE IInv' /\ StepOK
  BY <1>6, ScanKeeps
<1>7. ASSUME NEW g \in Generations, TitlerStep(g) PROVE IInv' /\ StepOK
  BY <1>7, TitlerEndsKeeps, TitlerReadsKeeps, ClaimKeeps, AnswerKeeps, ApplyKeeps DEF TitlerStep
<1>8. ASSUME NEW g \in Generations, SorterStep(g) PROVE IInv' /\ StepOK
  BY <1>8, SorterAloneKeeps, TopicsKeep DEF SorterStep
<1>9. CASE UNCHANGED vars
  <2>1. IInv'
    BY <1>9, RowStep DEF vars, control, IInv, TypeOK, RowsOK
  <2> QED
    BY <1>9, <2>1, SameRows DEF vars
<1> QED
  BY <1>1, <1>2, <1>3, <1>4, <1>5, <1>6, <1>7, <1>8, <1>9 DEF Next

\* The inductive invariant holds throughout.
LEMMA Inductive == Spec => []IInv
<1>1. IInv /\ [Next]_vars => IInv'
  BY NextKeeps
<1> QED
  BY <1>1, InitIInv, PTL DEF Spec

\* Type correctness of the catalog, the App and both kinds of workers.
THEOREM TypesHold == Spec => []TypeOK
<1>1. IInv => TypeOK
  BY DEF IInv
<1> QED
  BY <1>1, Inductive, PTL

\* However many configurations overlap with results in flight, a finished title is in the
\* language the user chose last (set_title_language, apply_title_batch).
THEOREM TitlesInTheLanguage == Spec => []DoneInTheLanguage
<1>1. IInv => DoneInTheLanguage
  BY DEF IInv, RowsOK, RowInv, DoneInTheLanguage
<1> QED
  BY <1>1, Inductive, PTL

\* A session without a user's name that counts as being named is in the hand of the worker the
\* writer listens to, or a requeueing is due: no claim is lost (claim_title_batch,
\* reset_running_titles).
THEOREM RunningTitlesAreInHand == Spec => []RunningIsInHand
<1>1. IInv => RunningIsInHand
  BY DEF IInv
<1> QED
  BY <1>1, Inductive, PTL

\* Neither a result nor a classification in flight takes the topic from a session that the user
\* renamed (rename_session, apply_semantic_batch).
THEOREM RenamedTopicsStay == Spec => []RenamedKeepsItsTopic
<1>1. IInv => RenamedKeepsItsTopic
  BY DEF IInv, RowsOK, RowInv, RenamedKeepsItsTopic
<1> QED
  BY <1>1, Inductive, PTL

\* No step moves a locked session whose name and language stay (apply_semantic_batch).
THEOREM LockedSessionsStay == Spec => LockedStays
<1>1. IInv /\ [Next]_vars =>
        [\A s \in Sessions :
            /\ row[s].locked /\ row'[s].locked
            /\ Shown(row[s]) = Shown(row'[s]) /\ row[s].refresh = row'[s].refresh
            => row[s].topic = row'[s].topic]_vars
  BY NextKeeps DEF StepOK, Stays, Shown
<1> QED
  BY <1>1, Inductive, PTL DEF Spec, LockedStays

\* While the settings in force turn a worker off nothing of an earlier generation reaches the
\* catalog (process_command's look at the token).
THEOREM QuietWhenOff == Spec => OffMeansQuiet
<1>1. IInv /\ [Next]_vars =>
        [\A s \in Sessions :
            /\ TitlesAreOff /\ TitlesAreOff' =>
                  row'[s].title = row[s].title /\ row'[s].status # "running"
            /\ TopicsAreOff /\ TopicsAreOff' =>
                  (row[s].topic = None => row'[s].topic = None)]_vars
  BY NextKeeps DEF IInv, StepOK, OffIsEmpty, NothingRuns
<1> QED
  BY <1>1, Inductive, PTL DEF Spec, OffMeansQuiet
=============================================================================
