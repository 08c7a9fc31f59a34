--------------------------- MODULE ProjectService ---------------------------
(***************************************************************************)
(* The catalog of sessions and the workers that name them and sort them    *)
(* into topics (src/src/projects).  One thread owns the catalog and does   *)
(* what the others ask of it, one command at a time; a caller waits for    *)
(* the answer, so a call is one step here, the one in which the writer     *)
(* handles it.  The App changes the summary settings, renames and locks    *)
(* sessions, a scanner brings what agents wrote, and each configuration    *)
(* starts a generation of two workers that ask a provider for minutes.     *)
(* The workers of earlier generations are never joined: a token that the   *)
(* writer looks at keeps what they still send out of the catalog.          *)
(***************************************************************************)
EXTENDS Integers, FiniteSets

CONSTANTS
    Sessions,     \* interactive sessions in the catalog
    Owned,        \* those the user may rename or lock
    Active,       \* those whose agents still write
    Substantive,  \* those with enough in them for a topic
    Languages,    \* title languages
    Configs,      \* summary settings a user may choose
    None,
    BatchSize,    \* sessions claimed, or classified, at a time
    MaxRenames,   \* names a user gives to one session
    MaxVersion,   \* times an agent writes to a transcript
    MaxGeneration \* configurations one server starts

Titling == {"off", "local", "model"}

ASSUME ServiceAssumption ==
    /\ Owned \subseteq Sessions /\ Active \subseteq Sessions /\ Substantive \subseteq Sessions
    /\ Configs \subseteq [language : Languages, titles : Titling, topics : BOOLEAN]
    /\ None \notin Languages /\ None \notin Configs
    /\ BatchSize \in Nat \ {0} /\ {MaxRenames, MaxVersion, MaxGeneration} \subseteq Nat

VARIABLES
    language,    \* the catalog's title language
    row,         \* the catalog's sessions
    transcript,  \* what the agents have written, on disk
    app,         \* the App: where it is in a configuration, the settings in force
    generation,  \* of the cancellation token in force
    cancelled,   \* that token; those of earlier generations are cancelled
    titler,      \* title workers, by generation
    sorter       \* topic workers, by generation

catalog == <<language, row>>
control == <<app, generation, cancelled>>
vars == <<language, row, transcript, app, generation, cancelled, titler, sorter>>

Versions == 0..MaxVersion
Generations == 1..MaxGeneration
Statuses == {"pending", "running", "done", "failed", "provisional"}

\* A name: the provider's own, made up from the transcript, the model's, or the user's n-th.
Generated == [by : {"native", "fallback", "model"}, language : Languages \cup {None}, n : {0}]
Native == [by |-> "native", language |-> None, n |-> 0]
UserTitle(n) == [by |-> "user", language |-> None, n |-> n]
Title == Generated \cup {UserTitle(n) : n \in 1..MaxRenames}

(***************************************************************************)
(* A session: how often the user renamed it, the generated title (Native   *)
(* when there is none) with its status, whether the fingerprint of its     *)
(* input is stored, when it was generated and the last activity known,     *)
(* both as versions of the transcript; whether the language changed since; *)
(* the lock, and the title its topic was found for.                        *)
(***************************************************************************)
Row == [custom : 0..MaxRenames, title : Generated, status : Statuses, printed : BOOLEAN,
        at : -1..MaxVersion, seen : Versions, refresh : BOOLEAN, locked : BOOLEAN,
        topic : Title \cup {None}]

Update == [session : Sessions, title : Generated, status : {"done", "failed", "provisional"},
           checked : BOOLEAN, at : Versions]

Titler == [pc : {"language", "pending", "claim", "answer", "check", "apply"},
           titles : Titling, language : Languages \cup {None}, todo : SUBSET Sessions,
           batch : SUBSET Sessions, ready : SUBSET Sessions, updates : SUBSET Update]

ASSUME NoWorkerAssumption == None \notin Titler

\* What a topic worker has read: sessions under the names they had.
Sorter == SUBSET (Sessions \X Title)

\* The name a session is shown under, which its topic is found for.
Shown(r) == IF r.custom # 0 THEN UserTitle(r.custom) ELSE r.title

Cancelled(g) == g < generation \/ cancelled

\* Mutant of Refused: only the workers look at the token.
NeverRefused(g) == FALSE

\* The writer looks at the token of every claim and every result before it touches the catalog.
Refused(g) == Cancelled(g)

----------------------------------------------------------------------------
(* What the catalog does to a session.                                     *)

AwaitsTitle(r) ==
    /\ r.custom = 0
    /\ ~(r.status = "done" /\ r.title # Native)
    /\ \/ r.status \in {"pending", "failed"}
       \/ ~r.printed
       \/ r.at = -1
       \/ r.status = "provisional" /\ r.seen > r.at

AwaitsTopic(s, r) == s \in Substantive /\ ~r.locked /\ r.status # "running" /\ r.topic # Shown(r)

Requeue(r) == [r EXCEPT !.status = "pending", !.printed = FALSE]

ResetRunning(r) == IF r.status = "running" THEN [r EXCEPT !.status = "pending"] ELSE r

\* Mutant of Translate: what is finished stays as it is.
TranslateUnfinished(r) == IF r.status # "done" THEN [Requeue(r) EXCEPT !.refresh = TRUE] ELSE r

Translate(r) == IF r.custom = 0 THEN [Requeue(r) EXCEPT !.refresh = TRUE] ELSE r

SetLanguage(r, l) == IF l # language THEN Translate(r) ELSE r

\* The name of a topic's sessions is not a request to move them: the topic follows.
KeepTopic(r, title) == [r EXCEPT !.topic = IF @ = None THEN None ELSE title]

Rename(r) == KeepTopic([r EXCEPT !.custom = @ + 1, !.status = "done"],
                       UserTitle(r.custom + 1))

Claim(r) == [r EXCEPT !.status = "running"]

\* A result for another language is passed over, if it says what language it is for.
Accepts(u) == u.checked => u.title.language = language

Store(r, u) ==
    IF r.custom # 0 THEN r
    ELSE [r EXCEPT !.status = u.status, !.at = u.at, !.printed = TRUE,
                   !.title = IF u.status = "failed" /\ @ # Native THEN @ ELSE u.title]

Translated(r, u) ==
    IF r.refresh /\ u.status = "done"
    THEN [KeepTopic(r, Shown(r)) EXCEPT !.refresh = FALSE]
    ELSE r

ApplyTitle(r, u) == IF Accepts(u) THEN Translated(Store(r, u), u) ELSE r

\* The scanner found new activity, and perhaps the transcript itself or another directory.
Upsert(r, v, found) ==
    LET known == [r EXCEPT !.seen = v]
    IN IF found /\ r.custom = 0 /\ ~(r.status = "done" /\ r.title # Native)
       THEN Requeue(known) ELSE known

\* Mutants of Classify: the lock, or the name the session has now, is not looked at.
ClassifyLocked(r, title) == IF title = Shown(r) THEN [r EXCEPT !.topic = title] ELSE r
ClassifyRenamed(r, title) == IF ~r.locked THEN [r EXCEPT !.topic = title] ELSE r

Classify(r, title) == IF ~r.locked /\ title = Shown(r) THEN [r EXCEPT !.topic = title] ELSE r

----------------------------------------------------------------------------
(* The App changes the settings: it cancels the token in force, waits for  *)
(* the writer to requeue what was claimed, then starts the next            *)
(* generation.  A failure leaves the token cancelled, for the next reload  *)
(* of the settings to try again.                                           *)

FirstTitler(c) == [pc |-> "language", titles |-> c.titles, language |-> None, todo |-> {},
                   batch |-> {}, ready |-> {}, updates |-> {}]

\* An agent that still writes has greeted its user, the others have had their task.
Written(s) == IF s \in Active THEN 0 ELSE MaxVersion

Fresh(s) == [custom |-> 0, title |-> Native, status |-> "pending", printed |-> FALSE, at |-> -1,
          seen |-> Written(s), refresh |-> FALSE, locked |-> FALSE, topic |-> None]

Init ==
    /\ language \in Languages
    /\ row = [s \in Sessions |-> Fresh(s)]
    /\ transcript = [s \in Sessions |-> Written(s)]
    /\ app = [pc |-> "opened", config |-> None, wanted |-> None]
    /\ generation = 0 /\ cancelled = FALSE
    /\ titler = [g \in Generations |-> None]
    /\ sorter = [g \in Generations |-> None]

\* Mutant of ReloadConfig: the workers in force are not told.
ReloadUncancelled(c) ==
    /\ app.pc \in {"opened", "idle"}
    /\ c # app.config \/ cancelled
    /\ generation < MaxGeneration
    /\ app' = [app EXCEPT !.pc = "barrier", !.wanted = c]
    /\ UNCHANGED <<catalog, transcript, generation, cancelled, titler, sorter>>

ReloadConfig(c) ==
    /\ app.pc \in {"opened", "idle"}
    /\ c # app.config \/ cancelled
    /\ generation < MaxGeneration
    /\ app' = [app EXCEPT !.pc = "barrier", !.wanted = c]
    /\ cancelled' = TRUE
    /\ UNCHANGED <<catalog, transcript, generation, titler, sorter>>

ConfigureSummaries ==
    /\ app.pc = "barrier"
    /\ app' = [app EXCEPT !.pc = "start"]
    /\ row' = [s \in Sessions |-> SetLanguage(ResetRunning(row[s]), app.wanted.language)]
    /\ language' = app.wanted.language
    /\ UNCHANGED <<transcript, generation, cancelled, titler, sorter>>

\* The two transactions of the barrier fail separately.
ConfigureFails ==
    /\ app.pc = "barrier"
    /\ app' = [app EXCEPT !.pc = "idle", !.wanted = None]
    /\ \/ UNCHANGED row
       \/ row' = [s \in Sessions |-> ResetRunning(row[s])]
    /\ UNCHANGED <<language, transcript, generation, cancelled, titler, sorter>>

StartWorkers ==
    /\ app.pc = "start"
    /\ app' = [pc |-> "idle", config |-> app.wanted, wanted |-> None]
    /\ generation' = generation + 1 /\ cancelled' = FALSE
    /\ titler' = [titler EXCEPT ![generation + 1] =
          IF app.wanted.titles = "off" THEN None ELSE FirstTitler(app.wanted)]
    /\ sorter' = [sorter EXCEPT ![generation + 1] =
          IF app.wanted.topics THEN {} ELSE None]
    /\ UNCHANGED <<catalog, transcript>>

\* A thread cannot be spawned: one that was finds its token cancelled before it does anything.
StartFails ==
    /\ app.pc = "start"
    /\ app' = [app EXCEPT !.pc = "idle", !.wanted = None]
    /\ generation' = generation + 1 /\ cancelled' = TRUE
    /\ UNCHANGED <<catalog, transcript, titler, sorter>>

\* The server dies and another opens the catalog.
Restart ==
    /\ row' = [s \in Sessions |-> ResetRunning(row[s])]
    /\ app' = [pc |-> "opened", config |-> None, wanted |-> None]
    /\ generation' = 0 /\ cancelled' = FALSE
    /\ titler' = [g \in Generations |-> None]
    /\ sorter' = [g \in Generations |-> None]
    /\ UNCHANGED <<language, transcript>>

----------------------------------------------------------------------------
(* The user and the agents.                                                *)

RenameSession(s) ==
    /\ app.pc = "idle" /\ row[s].custom < MaxRenames
    /\ row' = [row EXCEPT ![s] = Rename(@)]
    /\ UNCHANGED <<language, transcript, control, titler, sorter>>

LockSession(s) ==
    /\ app.pc = "idle"
    /\ row' = [row EXCEPT ![s].locked = ~@]
    /\ UNCHANGED <<language, transcript, control, titler, sorter>>

AgentWrites(s) ==
    /\ transcript[s] < MaxVersion
    /\ transcript' = [transcript EXCEPT ![s] = @ + 1]
    /\ UNCHANGED <<catalog, control, titler, sorter>>

Scan(s, found) ==
    /\ row[s].seen # transcript[s]
    /\ row' = [row EXCEPT ![s] = Upsert(@, transcript[s], found)]
    /\ UNCHANGED <<language, transcript, control, titler, sorter>>

----------------------------------------------------------------------------
(* The title worker of generation g.                                       *)

Batches(set) == {b \in SUBSET set : Cardinality(b) =
                    IF Cardinality(set) < BatchSize THEN Cardinality(set) ELSE BatchSize}

TitlerStops(g) == titler' = [titler EXCEPT ![g] = None]

\* A worker whose token is cancelled ends when it looks at it, or when the writer refuses what
\* it sends; what it may still read changes nothing but itself and is left out.
TitlerEnds(g) ==
    /\ titler[g] # None
    /\ IF titler[g].pc \in {"claim", "apply"} THEN Refused(g) ELSE Cancelled(g)
    /\ TitlerStops(g)
    /\ UNCHANGED <<catalog, transcript, control, sorter>>

ReadLanguage(g) ==
    /\ titler[g] # None /\ titler[g].pc = "language" /\ ~Cancelled(g)
    /\ titler' = [titler EXCEPT ![g].pc = "pending", ![g].language = language]
    /\ UNCHANGED <<catalog, transcript, control, sorter>>

\* With nothing to do the worker sleeps and begins anew.
ReadPending(g) ==
    /\ titler[g] # None /\ titler[g].pc = "pending" /\ ~Cancelled(g)
    /\ LET pending == {s \in Sessions : AwaitsTitle(row[s])}
       IN titler' = [titler EXCEPT ![g].pc = IF pending = {} THEN "language" ELSE "claim",
                                   ![g].todo = pending, ![g].updates = {}]
    /\ UNCHANGED <<catalog, transcript, control, sorter>>

\* The transcripts are read after the claim, with which what the agents write commutes.  A first
\* greeting says nothing of the task.
ClaimTitles(g, batch) ==
    /\ titler[g] # None /\ titler[g].pc = "claim" /\ ~Refused(g)
    /\ batch \in Batches(titler[g].todo)
    /\ row' = [s \in Sessions |-> IF s \in batch THEN Claim(row[s]) ELSE row[s]]
    /\ titler' = [titler EXCEPT ![g].pc = "answer", ![g].batch = batch, ![g].todo = @ \ batch,
                                ![g].ready = {s \in batch : transcript[s] > 0}]
    /\ UNCHANGED <<language, transcript, control, sorter>>

(***************************************************************************)
(* Either a provider has named all the sessions that are ready, or names   *)
(* are made up.  A placeholder made next to the provider's names does not  *)
(* say what language it is for.                                            *)
(***************************************************************************)
Result(w, s, answered) ==
    [session |-> s,
     title |-> [by |-> IF answered /\ s \in w.ready THEN "model" ELSE "fallback",
                language |-> w.language, n |-> 0],
     status |-> IF s \notin w.ready THEN "provisional"
                ELSE IF answered \/ w.titles = "local" THEN "done" ELSE "failed",
     checked |-> s \in w.ready \/ ~answered,
     at |-> transcript[s]]

ProviderAnswers(g, answered) ==
    /\ titler[g] # None /\ titler[g].pc = "answer" /\ ~Cancelled(g)
    /\ answered => titler[g].titles = "model" /\ titler[g].ready # {}
    /\ titler' = [titler EXCEPT
          ![g].pc = IF titler[g].todo = {} THEN "check" ELSE "claim",
          ![g].updates = @ \cup {Result(titler[g], s, answered) : s \in titler[g].batch},
          ![g].batch = {}, ![g].ready = {}]
    /\ UNCHANGED <<catalog, transcript, control, sorter>>

\* Results for another language are dropped before they are sent.
CheckLanguage(g) ==
    /\ titler[g] # None /\ titler[g].pc = "check" /\ ~Cancelled(g)
    /\ titler' = [titler EXCEPT ![g].pc = IF language = titler[g].language
                                         THEN "apply" ELSE "language"]
    /\ UNCHANGED <<catalog, transcript, control, sorter>>

\* All the results of a round, each session having at most one, in one transaction.
ApplyTitles(g) ==
    /\ titler[g] # None /\ titler[g].pc = "apply" /\ ~Refused(g)
    /\ row' = [s \in Sessions |->
          IF \E u \in titler[g].updates : u.session = s
          THEN ApplyTitle(row[s], CHOOSE u \in titler[g].updates : u.session = s)
          ELSE row[s]]
    /\ titler' = [titler EXCEPT ![g].pc = "language", ![g].updates = {}]
    /\ UNCHANGED <<language, transcript, control, sorter>>

----------------------------------------------------------------------------
(* The topic worker of generation g.                                       *)

SorterEnds(g) ==
    /\ sorter[g] # None
    /\ Cancelled(g)
    /\ sorter' = [sorter EXCEPT ![g] = None]
    /\ UNCHANGED <<catalog, transcript, control, titler>>

ReadUnsorted(g) ==
    /\ sorter[g] # None /\ sorter[g] = {} /\ ~Cancelled(g)
    /\ sorter' = [sorter EXCEPT ![g] =
          {<<s, Shown(row[s])>> : s \in {t \in Sessions : AwaitsTopic(t, row[t])}}]
    /\ UNCHANGED <<catalog, transcript, control, titler>>

\* A batch that no provider answers is left for the next round.
SorterGivesUp(g, batch) ==
    /\ sorter[g] \notin {None, {}} /\ ~Cancelled(g)
    /\ batch \in Batches(sorter[g])
    /\ sorter' = [sorter EXCEPT ![g] = @ \ batch]
    /\ UNCHANGED <<catalog, transcript, control, titler>>

\* A provider has answered for the batch, and the writer applies it.
ApplyTopics(g, batch) ==
    /\ sorter[g] \notin {None, {}} /\ ~Refused(g)
    /\ batch \in Batches(sorter[g])
    /\ row' = [s \in Sessions |->
          IF \E p \in batch : p[1] = s
          THEN Classify(row[s], (CHOOSE p \in batch : p[1] = s)[2])
          ELSE row[s]]
    /\ sorter' = [sorter EXCEPT ![g] = @ \ batch]
    /\ UNCHANGED <<language, transcript, control, titler>>

----------------------------------------------------------------------------

TitlerStep(g) ==
    \/ TitlerEnds(g) \/ ReadLanguage(g) \/ ReadPending(g)
    \/ \E batch \in SUBSET Sessions : ClaimTitles(g, batch)
    \/ \E answered \in BOOLEAN : ProviderAnswers(g, answered)
    \/ CheckLanguage(g) \/ ApplyTitles(g)

SorterStep(g) ==
    \/ SorterEnds(g) \/ ReadUnsorted(g)
    \/ /\ sorter[g] # None
       /\ \E batch \in SUBSET sorter[g] : SorterGivesUp(g, batch) \/ ApplyTopics(g, batch)

Configures == ConfigureSummaries \/ ConfigureFails \/ StartWorkers \/ StartFails

Next ==
    \/ \E c \in Configs : ReloadConfig(c)
    \/ Configures
    \/ Restart
    \/ \E s \in Owned : RenameSession(s) \/ LockSession(s)
    \/ \E s \in Active : AgentWrites(s)
    \/ \E s \in Sessions, found \in BOOLEAN : Scan(s, found)
    \/ \E g \in Generations : TitlerStep(g) \/ SorterStep(g)

Spec == Init /\ [][Next]_vars

----------------------------------------------------------------------------
(* Properties.                                                             *)

TypeOK ==
    /\ language \in Languages
    /\ row \in [Sessions -> Row]
    /\ transcript \in [Sessions -> Versions]
    /\ app \in [pc : {"opened", "idle", "barrier", "start"},
                config : Configs \cup {None}, wanted : Configs \cup {None}]
    /\ generation \in 0..MaxGeneration /\ cancelled \in BOOLEAN
    /\ titler \in [Generations -> Titler \cup {None}]
    /\ sorter \in [Generations -> Sorter \cup {None}]

\* A title that counts as finished is in the language the user chose last, whatever was being
\* generated when the language changed (set_title_language, configure_summaries).
DoneInTheLanguage ==
    \A s \in Sessions : row[s].status = "done" /\ row[s].custom = 0 =>
        row[s].title.language = language

\* A session is only kept from being named again, and from being sorted, while a worker that
\* the writer still listens to has it in hand, or the requeueing of its claim is due
\* (catalog.rs, "Wait for an in-flight title refresh").  It is not so for one that was renamed
\* between the reading of the pending titles and their claim.
InHand(s) ==
    \/ cancelled
    \/ /\ generation > 0 /\ titler[generation] # None
       /\ \/ s \in titler[generation].batch
          \/ \E u \in titler[generation].updates : u.session = s
RunningIsInHand ==
    \A s \in Sessions : row[s].status = "running" /\ row[s].custom = 0 => InHand(s)

\* Once settings that turn a worker off are in force, nothing a worker of earlier settings has
\* asked for reaches the catalog (configure_summaries: "cannot undo the user's new preference").
TitlesAreOff == app.pc = "idle" /\ ~cancelled /\ app.config # None /\ app.config.titles = "off"
TopicsAreOff == app.pc = "idle" /\ ~cancelled /\ app.config # None /\ ~app.config.topics
OffMeansQuiet ==
    [][\A s \in Sessions :
        /\ TitlesAreOff /\ TitlesAreOff' =>
              row'[s].title = row[s].title /\ row'[s].status # "running"
        /\ TopicsAreOff /\ TopicsAreOff' =>
              (row[s].topic = None => row'[s].topic = None)]_vars

\* A session that the user named keeps its topic when it had one: neither what was being named
\* nor what was being sorted under an older name makes it wait for a topic again (rename_session:
\* "Renaming is presentation intent, not a request to move an existing Topic").
RenamedKeepsItsTopic ==
    \A s \in Sessions : row[s].custom # 0 /\ row[s].topic # None => row[s].topic = Shown(row[s])

\* Work in flight neither finds a topic for a session that the user locked nor moves it to
\* another; only a name in the new language takes its topic along (apply_semantic_batch).
LockedStays ==
    [][\A s \in Sessions :
        /\ row[s].locked /\ row'[s].locked
        /\ Shown(row[s]) = Shown(row'[s]) /\ row[s].refresh = row'[s].refresh
        => row[s].topic = row'[s].topic]_vars
=============================================================================
