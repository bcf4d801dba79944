# A verification project for RoleRAG

TLA+ models of RoleRAG's session engine and what surrounds it, the TLC runs that
check them and the proofs TLAPS checks. Paths are relative to the repository;
`src/app/...` is the Python package and is often left off.

## 1. The system

| Component | State | Operations | Correct when |
|---|---|---|---|
| SQLite store (`persistence/repositories.py`, `sqlite.py`) | `sessions` (status, active persona, active scene), `turns`, `memory_episodes`, `canon_facts` | append turn, write and patch diagnostics, delete last turn, append / tag / delete memories, move persona or scene, delete session (cascade) | turns are numbered 1..n in time order; every row belongs to a live session |
| Turn API (`api/routes.py`, `api/sse.py`) | the set `_DEFERRED_MEMORY_TASKS`; per stream a task and a frame queue | POST and streamed turn, reroll (DELETE last turn), scene switch, session create/list, canon, inspector reads | a reroll forgets exactly its turn; every successful turn gets its memory job |
| Turn orchestrator (`orchestration/turn_orchestrator.py`, `stages/session.py`, `stages/persistence.py`) | none between turns | load, retrieve, generate, critique, repair, contain, persist, commit persona, defer memory; controlled failure | a failed turn changes neither persona nor memory |
| Generation, critique, repair, containment (`stages/generation.py`, `critique.py`, `repair.py`, `agents/secret_guard.py`) | none | bounded retries, gates, re-check, redaction | an unvalidated draft is never served; calls are bounded |
| Deferred memory stage (`stages/memory.py`, `stages/memory_consolidation.py`, `memory/consolidation.py`) | a summary cache per orchestrator | gate, curate (model), dedup, persist, index, fold old minor memories into a summary (model) | each turn writes at most one batch, under its own scene and persona; a memory is folded once |
| Memory index (`memory/indexer.py`) | points of `session_memory` and `persona_memory` | upsert, session cap, unindex, reindex | the index mirrors the rows that are to be retrieved |
| Vector store, lore ingestion (`rag/`) | Qdrant collections, fingerprint sentinel | replace a source, skip unchanged, prune, check fingerprint | one embedding model per collection; no half-replaced document |
| Retrieval, ranking, canon, context (`stages/retrieval.py`, `rag/ranking.py`, `orchestration/*_builder.py`) | none | visibility filter, rerank, quotas, budgets | hidden content never reaches the player |
| Routing, providers (`llm/`) | HTTP clients | pick a route, call a model with timeout and retry | bound for the session's life |
| Command line (`cli.py`) | none; a second process on the same database and index | play, ingest, reindex, import/export, delete-session, backup | agrees with a running API |
| SPA store (`frontend/src/app/session-store.ts`) | signals, a busy flag | run turn, reroll, switch scene, refresh | shows the session it is on |
| Content (`content/loader.py`, `validator.py`, `catalog.py`) | files that authors edit at any time | load by file name, validate by id, write a template | what validates can be played |
| Agents (`agents/`) | none | build a request, read the answer | hidden facts reach the local critic only |
| Composition (`composition.py`, `config.py`) | settings, read anew by each request | wire, ingest lore at session start | a bound session keeps its provider |
| Diagnostics, evaluations (`diagnostics/`, `evals/`) | report files | offline scripts over fixtures | not modelled |

How they interact. A turn request loads the session, awaits the models several
times, then persists in a run of synchronous statements. The API answers before
the memory is curated: the orchestrator returns a `DeferredMemoryJob` and the
route makes it a task of the same event loop. The job awaits the curator, writes
rows, mirrors them into Qdrant, and may await the curator again to fold old rows.
A reroll waits for the pending jobs it sees, then deletes the last turn, restores
the persona from the history and sweeps memories *by time*. The scene endpoint is
a plain `def` (worker thread) and `delete-session` is another process; both share
only the database and the index with the loop. The page calls the API through one
operation that makes it busy and through panel calls that run beside it.

What is hard: several requests, rerolls and jobs suspended at awaits with values
read earlier; attribution by `created_at`; a multi-commit reroll, turn and fold
with crashes between commits; a best-effort index that may fail half way; stream
clients that leave and answers that come late; files read one by one while an
author edits them; maintenance commands killed half way; and, in the data, caps,
thresholds and fail-open parts whose sum has to keep what the player said.
`PROJECT.json` lists the hazards at their lines.

## 2. Modules

| Module | Models | State |
|---|---|---|
| `SessionStore` | the rows of one session and the repository methods, one operator per committed statement | `session`, `turns`, `memories`, `turnSeq` (AUTOINCREMENT), `clock` |
| `MemoryStage` | the deferred job and the index; EXTENDS `SessionStore` | `jobs`, `vectors`; `scheduled` and `lapsed` are observations |
| `TurnApi` | turn requests, streams, rerolls, scene switch, delete-session, crash; EXTENDS `MemoryStage` | `req`, `rerolls`, `purge`, `crashes` |
| `TurnPipeline` | the model calls of one turn, from the draft to the answer | `setup`, `phase`, `ask`, `flagged`, `verdict`, `result`, `calls` |
| `TurnPromise` | what a turn promises about its answer (abstract); `TurnPipeline` is shown to implement it | `approved`, `answer` |
| `LoreIngest` | overlapping ingestions of a scenario's lore, prune, fingerprint, authors and operators | `texts`, `manifest`, `model`, `collection`, `points`, `ingests`; `calm` is an observation |
| `Recall` | standing facts, the lexical slice, the rerank with its boosts and quotas, the prompt's walk over the chunks: pure operators | |
| `Curation` | explicit events, their fold onto curated memories, the two write dedups: pure operators; EXTENDS `Recall` | |
| `ReplyGuard` | which units of the hidden facts are matched, redaction, the paraphrase scan: pure operators | |
| `TurnRecall` | the data of one session, turn after turn; EXTENDS `Curation` and `ReplyGuard` | `setup`, `memories`, `points`, `pinned`, `turn`, `turns`, `edits` |
| `Scenario` | a content root as its two readers see it, the loader and the validator: pure operators | |
| `SessionStart` | authors, the template command, starts, scene switches and turns over a content root that changes; EXTENDS `Scenario` | `root`, `sessions`, `op`, `template`, `edits`; `sent` is an observation |
| `SessionTransfer` | export, import, backup, delete-session, reset-db, reindex-memories, reset-index beside the API | `db`, `points`, `jobs`, `tool`, `file`, `backup`, `clock`, `played`, `spent`; `calm` and `alone` are observations |
| `TurnStream` | the event stream of a turn, from the server's frames to the client's parser: pure operators | |
| `SessionView` | the browser's session store over the API; EXTENDS `TurnStream` | `born`, `history`, `kept`, `owed`, `canon`, `added`, `tasks` on the server; `session`, `transcript`, `memories`, `facts`, `canonError`, `op`, `wire`, `closed`, `calls` in the page; `asked`, `bound`; `doubt`, `trusted` are observations |
| `MC...` | model values, symmetry and bounds for TLC | |
| `TurnApiInv` | the inductive invariant of `TurnApi` in named parts | |
| `TurnApiHistory`, `TurnApiMemories` | theorems about `TurnApi` and their proofs: types, turns and persona; memories, jobs and index | |
| `TurnPipelineProofs`, `TurnRecallProofs`, `LoreIngestProofs`, `SessionStartProofs`, `SessionTransferProofs`, `SessionViewProofs` | theorems about those six specifications | |

How the pieces fit. `TurnApi` has the concurrency of turns, jobs and rerolls and
treats a turn's outcome and a memory's text as choices. `TurnPipeline` has what is
behind the outcome, `TurnRecall` what is behind the text, `SessionStart` what is behind
the request, `SessionView` what is in front of it, `SessionTransfer` and `LoreIngest`
what runs beside it. Each of these looks at the shared tables and points with only
the columns it needs, so that the instances stay small enough to be exhausted.

### Correspondence: TurnApi

An action covers the code between two points at which another
actor may run. On the event loop those points are the awaits: `LoopFree` says that
no coroutine is between two statements, and guards every action that *resumes* a
coroutine. Between two commits of one coroutine only a crash, a scene switch or
the command line can come, so a multi-commit handler is several actions linked by
a program counter:

* turn: `SubmitTurn` (load, up to the first model call) - `PersistTurn` (the turn
  row; outcome chosen, see below) - `CommitActivity` (activity, and the persona
  override of a successful turn) - `ReturnTurn` (diagnostics, answer, schedule) -
  for a stream `ScheduleStreamed`, since the generator schedules only when it runs
  again, or `Disconnect`.
* job: `StartCuration` / `GateCuration` / `AbandonJob` - `CurateMemory` or
  `CurateNothing` - `UpsertMemory` - `EnforceCap` - `PersistSummary` / `SkipSummary` -
  `MarkFolded` - `UpsertMemory` - `EnforceCap` (of the summary) - `UnindexFolded`. An upsert
  and the eviction after it are two calls of the vector store, so a crash may come between
  them; `IndexRaises` is either of them raising, which the job logs and survives.
  `Consolidate` is the fold's decision; it rides with whichever step runs before it, as
  in the code.
* reroll: `StartReroll` (snapshot) - `ResumeReroll` - `DeleteLastTurn` -
  `RestoreAfterDelete` - `SweepMemories` (the rows, committed) - `UnindexSwept` (their points).

Abstractions of `TurnApi`, each on purpose:

* One session. Sessions share no row; the process-wide job set makes a reroll wait
  for other sessions' jobs too, which only lengthens the wait.
* `clock` advances on every insert, so stamps are distinct. Equal microseconds and
  a clock that is set back are outside the model.
* One memory row stands for the batch of one `append_memories` call: its rows share
  stamp, source, scene and actor and are written in one transaction. Rows have three
  kinds instead of importance and tags: foldable, protected, roll-up.
* Which text the models produce is a choice: a turn's outcome (`success` or
  `controlled_failure`), a provider error at any await, what the curator keeps,
  whether dedup drops it. `TurnPipeline` models what is behind the outcome.
* The closing `append_memory_outcome` of a job rides with the step before it, and
  the two commits of `CommitActivity` are one step. A crash that separates them
  leaves a stale `memory_written` flag or an uncommitted override, both of which
  other crash points of the model leave too.
* Scene switches to the current scene are left out; they change nothing.
* A provider call is one await of unknown length.

### Correspondence: TurnPipeline

An action is one answer of a model, or its failure, and all the code up to the next
request: `run_turn`'s stages between two awaits. `phase` names the stage that awaits,
`ask` the place in its nested retries: `_generate_non_empty` (a second try after an
empty text) inside `_generate_complete` (a second budget after a truncated one), and
`generate_with_truncation_retry` for the critic. `Resolve` is `resolve()` after the
draft's review, `AbandonRepair` the way back to the draft or to a controlled failure;
it is reached from an unusable repair and from a re-check that did not accept.
`setup` holds what gating reads: mode, provider, retrieval confidence, complexity.

Abstractions: texts are `draft` and `repair`; what `validate_draft` flags, what a
model answers and how it fails are choices. The warnings attached to the result are
left out. What happens to the answer afterwards is not here: secret containment is
`TurnRecall`'s, the rows and the persona are `TurnApi`'s. The two are not composed: `TurnApi` allows every outcome the pipeline can give, at any length
of the await, and the pipeline shares no state with other turns.

### Correspondence: LoreIngest

An action is one call of the vector store, or one read of a file, by
`ingest_lore_manifest` and `ingest_document`: overlapping session creations run it in
worker threads and the command line in other processes, so any two calls may be
separated. The manifest is read once (`plan`); the file when its turn comes (`text`).
`FailIngest` and `Abort` are an exception or a killed process at any of them; the
session is created all the same, with a warning.

Abstractions: a text is the set of its chunks. A chunk's id hashes source, index and
text, so an edit that reorders or repeats chunks also changes ids; with sets, that is
an edit to another set. An empty manifest reads no file and, with `--prune`, goes straight
to the listing of the indexed sources (`FirstPc`). `--force` is the ingestion that always takes
`ReplaceDocument`. Changing `EMBEDDING_MODEL` and `reset-index` happen only while no
ingestion runs, as the runbook's first step asks (`docs/23_embedding_migration_runbook.md`);
that the reset is *forgotten* is modelled. Collections older than the fingerprint are
excluded: their first contact adopts whatever model is configured. A model
of another dimension fails like a foreign fingerprint. In-memory mode, standalone
documents and several scenarios (which share no source) are left out.

### Correspondence: TurnRecall

`Load` - `ScoreSlice` / `ScoreFails` - `Retrieve` / `RetrieveFails` - `Order` /
`OrderFails` - `BuildPrompt` - `Speak`, `RedactNext`, `FinishGuard` (the actor's reply,
then the critic's note, both go through the same guard) - `Curate` / `CuratorFails` /
`SkipCuration` - `Persist` / `PersistFails` - `Index` are the stages of `run_turn` and of
the deferred job, each with the way it fails open. `Pin`, `Unpin`, `Retire` and `Forget`
are what another process or the panels do between turns, or between a turn's load and
its retrieval.

Abstractions: a text is a name, and the table `Text` gives what the code can tell about
it: content terms, reversal markers, tags of the event it states, length, sentence ends.
Scores are thousandths. The sums of IDF weights are compared as products of term
frequencies, so no logarithm is rounded; ties are broken as the code's sort does.
Embedding distance is a choice (`Nearness`), and so is which memory is near enough to
another (`Alike`). The guard works on tokens in lower case, longest unit first, units of
one length in any order, as Python's set gives them. The evidence lists for
diagnostics and the wording of prompts are left out. The walks (facts admitted, chunks
taken, events folded, duplicates dropped) are recursive functions over positions, so that
they can be reasoned about.

### Correspondence: SessionStart

An action is one file an author or `create-scenario-template` writes, one file a request
reads (`ReadWorld`, `ReadPersona`, `ReadScene`, in the order of `stages/session.py`), or
one model call with the provider resolution before it. `Begin` is the moment a request
reads the settings: mode and key live in `.env`, which every request reads again. The
cloud creation gate is `CloudGate`.

Abstractions: `Scenario` takes a text as a set of phrases and "contains" as inclusion,
enough for the secrecy rules, which compare normalized substrings. Ids and file names are
told apart: a scene's file is named by its id with `-` replaced by `_`, so two ids can
share a file, and an id with other characters is refused by the loader. Lengths and
formats of fields are left out: a file is valid, broken or absent. Manifest entries have
a path and their three scopes.

### Correspondence: SessionTransfer

A command is a second process on the same SQLite file and vector store: an action is
one of its commits, one read, or one call of the store. `KillCommand` may come between any two, and
`PurgeFails` takes one session's purge away. `ImportTurn` is one turn's insert with the
next stamp; `ImportMemories` the one transaction of all rows. `ReindexSession`,
`ReindexPersona` are the calls of `reindex-memories`; `MirrorStops` is a job
whose own mirror breaks off, before, between or after its two upserts. `reset-index` takes both collections or
`persona_memory` alone (`DropPersonaMemory`).

Two observations say what a property may rely on. `calm` holds while nothing has ever failed
and no API step came between two of a command's; the purge of a reset is right
only then. `alone` is reset when a command starts: it looks at the command under way, so that what
came before it may have failed, been killed or been half done, as it has when a
repair or a retry is called for.

Abstractions: the API side is reduced to what these commands can meet (`PlayTurn`,
`CurateMemory`, `IndexMemory`, a drained `Reroll`, `CreateSession`); its own interleavings
are `TurnApi`'s. A number stands for a turn and the memory made of it in every copy, which is what
lets a property ask whether something is there twice. One command runs at a time. Consolidation tags and canon
facts are left out, and so are commands that refuse to run.

### Correspondence: SessionView

`Create`, `Resume`, `Send`, `Reroll` make the page busy; `ClickRefresh`, `ClickAdd`,
`ClickDelete` are the panels, whose calls are issued, served and answered separately and
in any order. The server's turn is a task with a stream: `EnterStage` and `StoreTurn`
write frames, `EndOfStream(length, split)` is the page reading what has come, cut
anywhere and in two chunks split anywhere, through `TurnStream`'s parser. A browser
that goes away may cancel the turn (`CancelTurn`) but not a delete (`LateDelete`).
`DeleteLastTurn` keeps the memories that were written before the deleted turn (`before`) and
sweeps every later one, whichever turn's it is. It has waited for the jobs it saw; one that it missed
stays `owed` and may still write, for the deleted turn too (`Curate`).
A page keeps one session until it is reloaded, since the template has no control
that leaves one.

Abstractions: a reply is two pieces, a frame five tokens: an event line, the two halves of a
data line, two line breaks. The reader's loop over chunks is one step, because nothing
of it shows before the end. The scene, the selections, the catalog, the debug panels and
the order of a panel's rows are left out: the canon panel's list is a bag, so that a fact
shown twice still counts. A panel request not served at a reload is taken as one that never arrived. The
command line does not write beside the page.

## 3. Runs

Twelve runs: nine that pass and three that show a claim to be false (section 6).
`CHECK_DEADLOCK FALSE` is set where the system rightly stops: a session whose requests
have all ended, a turn that has answered. `LoreIngest` is checked for deadlock.

| Run | Specification and bounds | Checks |
|---|---|---|
| `concurrent` | `TurnApi`: 2 requests, 1 reroll overlapping freely, 2 personas, 2 scenes, folding at 2, one crash, delete-session (3.8M states) | `TypeOK`, `TurnsInOrder`, `MemoryProvenance`, `DrainedRerollLeavesNothing`, `PersonaMovesWithHistory` |
| `sequential` | `TurnApi`: 3 requests, 2 rerolls, one at a time (the page's busy flag), background jobs, folds of at most 1 from 2, reliable index (4M states) | `PersonaFollowsHistory`, `NoOrphanMemories`, `IndexMirrorsStore` |
| `faults` | `TurnApi`: 2 requests, 1 reroll, folding from 1 with a min-age of 1, cap of 1, an index that may fail at any call, one crash, delete-session, fairness (621,000 states) | `SessionIndexBounded`, `FoldKeepsWords`, `LoopWorkEnds` |
| `pipeline` | `TurnPipeline`: no bound; every setup, every sequence of answers (34,000 states) | `TypeOK`, `UncheckedOnlyWhenHarmless`, `AnswerTellsTruth`, `CallsBounded`, `KeepsPromise` (refines `TurnPromise`) |
| `lore` | `LoreIngest`: 2 ingestions, documents of up to 2 chunks and of 1, 2 models (1.9M states) | `TypeOK`, `OneModel`, `UndisturbedIndexIsCurrent` |
| `recall` | `TurnRecall`: 2 turns, 2 edits from outside, a window of 2 chunks, 10 texts, 3 setups (657,000 states) | `TypeOK`, `SliceReachesPrompt`, `NothingShownTwice`, `WindowFilled`, `ShownIsLive`, `Contained`, `EventLostOnlyToADuplicate` |
| `start` | `SessionStart`: 3 content roots, one edit, one session, every request and setting (162,000 states) | `TypeOK`, `ValidatedContentPlays`, `StartedSessionPlays`, `CallsFollowBinding` |
| `transfer` | `SessionTransfer`: 2 session ids, 1 failure, floor 2, cap 1; 2 turns and 3 commands, or 1 turn and 4 (6.6M states) | `TypeOK`, `ImportedOnce`, `NothingOutlivesItsSource`, `ImportIsComplete`, `SafetyNet`, `ReindexRecovers` |
| `view` | `SessionView`: 2 sessions with 2 turns; 1 with 3; 1 with 2 turns beside three calls; 1 with 2 facts; one job that a drain misses, where there are 2 turns (1.2M states, fairness) | `TypeOK`, `TranscriptIsHistory`, `PanelsMatch`, `BusyEnds` |
| `drain_race`, `stream_leaves` | small instances of `TurnApi` | `RerolledTurnStaysForgotten`, `DisconnectKeepsJob`, violated |
| `lore_visibility` | `LoreIngest`, one document, two visibilities | `SkipIsIdentical`, violated |

Each takes between a second and about three minutes. Eight more configurations are for
running by hand; each is violated, and section 6 says what it means:
`TurnApi_sweep_by_time` (`SweepTakesOnlyItsTurn`), `TurnApi_double_fold` (`FoldedOnce`),
`TurnPipeline_recheck` (`FailsClosed`), `TurnRecall_eligible` (`DurableEventStaysEligible`),
`SessionTransfer_floor` (`FloorKept`), `SessionTransfer_round_trip`
(`RoundTripPreserves`), `SessionView_reroll` (`RerollResendsItsTurn`), `SessionView_canon`
(`CanonErrorTellsStale`).

Why the bounds are enough to be interesting.

* `TurnApi`: two requests and one reroll are the fewest actors in which a job is
  missing from a reroll's snapshot, turns finish out of order, two folds overlap, and a
  persona is restored to an older turn. Three turns with two rerolls add repeated
  restoration and a fold whose sources straddle a deleted turn. One crash is enough to
  cut each handler at each commit; nothing the code does after a restart depends on an
  earlier crash, since it has no recovery step. `faults` has a cap of one and folds from one
  memory, so that two memories already overfill the index, a fold's summary competes with its
  originals, and every call of the index may be the one that is cut short.
* `TurnPipeline` needs no bound: its counters stop where the code's retries stop, which
  is what `CallsBounded` says.
* `LoreIngest`: two ingestions are the fewest that meet at the first contact with a
  collection, or whose replacements of one document cross; a document of two chunks can
  be half replaced or half edited, and a second one makes failure between documents and
  pruning possible. Edits, failures and model changes are unbounded.
* `TurnRecall`: two turns, so that what the first writes is recalled by the second; two
  edits, so that a fact is pinned and its memory retired in one turn. The ten texts hold
  a vow and a gift (events of two kinds, which one message may state together), the vow's
  amendment, a question, plain talk, a digest, and texts that cover one another to different degrees; the three setups turn pinning, quotas and gating.
  A window of two lets the quota of the lexical slice compete with the search.
* `SessionStart`: an empty root for the template, one that plays, and one with an id the
  loader refuses; one edit is what may come between two reads of a request.
* `SessionTransfer`: three commands are export, something that destroys, and import or
  reindex; a fourth, with one turn, is an import that is killed, its session deleted and the file
  imported again. Two ids are the original and the copy; one failure cuts any command, or a
  job's mirror between its two upserts, and a reindex may follow. All memories last, so that
  each should be in both collections.
* `SessionView`: two sessions are needed for a page that is reloaded into another; three
  turns for a reroll after a reroll; three calls at once for a list overtaken by
  another while something is added.

What each property would catch is in the comment above its definition and in the
`mutants` of `PROJECT.json`, which name a plausible bug that TLC finds with it.

## 4. Fairness

`TurnApi`'s `FairSpec` assumes weak fairness of each request's and each reroll's own
steps and of the jobs as a whole. The code justifies it: the event loop runs every ready
callback, and an await on a model always ends, since the HTTP client has a timeout
(`local_llm_timeout_seconds`, `cloud_llm_timeout_seconds`) and a bounded retry; a
timeout is `ProviderError` or `CurateNothing`. `Disconnect`, `SwitchScene`,
`SubmitTurn`, `StartReroll`, `DeleteSession` and `Crash` are the environment's and
get none. Fairness of the jobs as a whole, and not of each job, is weaker than the
loop's and is enough, because no job has an infinite run.

`SessionView` assumes that the turn's timer fires: `STREAM_TIMEOUT_MS`
(`api.service.ts`) covers the body as well as the headers, so a server that begins a
stream and stalls does not keep the page busy. Nothing is assumed of the server's
turn. Create, resume, the reroll's DELETE and the panel calls a resume waits for have no timer in
the code: that they end, by an answer or a failure, is an *assumption* about server and
browser, and `BusyEnds` would not hold without it.

The others state no liveness. That a turn ends follows from `CallsBounded`: every step but
the last sends a request, or enters the next stage. That an ingestion or a command ends
is no claim of the code's; it may be killed at any call.

## 5. Proofs

Each theorem holds for every value of the constants, from the assumptions the modules
state and, where it says so, from a hypothesis of its own. The assumptions:

* `TurnApi`: `WorldAssumption` (the initial persona and scene exist) and
  `MemoryAssumption` (the settings are numbers); no set need be finite.
* `LoreIngest`: `LoreAssumption` (the two marker values are no visibility and no model).
* `SessionTransfer`: `TransferAssumption` (the original is an id, importances are within 1..5, the
  numbers are naturals).
* `SessionStart`: ids, paths and content roots are of their sorts, and what the template
  command writes (`WorldCard`, `SceneCard`, `PersonaCard`, `Manifest`) is content an author may write.
* `TurnRecall`: `GuardAssumption` (a unit is not empty: `_MIN_FACT_CHARS` is positive; units and
  texts are sequences of tokens with a lower case), `SpeechAssumption`, `RecallAssumption` (window,
  oversampling and caps are positive, a text has finitely many content terms), and `SessionAssumption`:
  the lore is a finite index, one chunk per id, and messages, answers and pins are made of
  texts there are. Nothing is assumed of the texts, of the nearness of one to another, or of
  what is alike.
* `SessionView`: `SessionViewAssumption` (the bounds of a behaviour are naturals, with room
  for two panel calls); a behaviour may have any of them, so the theorems hold for any number of
  sessions, turns, facts and calls in flight.
* `TurnPipeline` has no constants.

* `TypeCorrect` (`TurnApiHistory`): `Spec => []TypeOK`. `TypeOK` is not inductive: a
  reroll assigns `LastTurn(turns)`, a `CHOOSE`, to a row, and a fold takes its scene
  and actor from `First(batch)`. `TypeInv` adds `RowsBounded` (numbers are bounded by
  the AUTOINCREMENT id, so a greatest one exists even though nothing says `turns` is
  finite) and `BatchesFilled`. That a greatest and a least element exist is proved from
  the well-foundedness of strict inclusion on finite sets.
* `TurnNumbering` (`TurnApiHistory`): `Spec => []TurnsInOrder`, inductive over `TypeInv`.
  `TurnsStep` reduces every action to the five things that can happen to the rows.
* `Provenance` and `DrainGuarantee` (`TurnApiMemories`): `Spec => []MemoryProvenance` and
  `Spec => []DrainedRerollLeavesNothing`. Neither is inductive: a memory is written long
  after its request has ended. `OwnInv` follows the debt from request to job to memory
  (`RequestsOwnTurns`, `JobsOwnTurns`, `MemoriesOwnTurns`) and records what a reroll
  knows (`DrainsKnown`: after the drain no job it knew of is pending). Most steps are
  *quiet*, they only let somebody owe less; one lemma handles them all, and only the
  turn's insert, the scheduling, the curated write and the reroll's steps are
  argued on their own.
* `PersonaMoves` (`TurnApiHistory`): `Spec => PersonaMovesWithHistory`, an action
  property. `RowStands` says that the row of a request about to commit its persona is
  still there; it holds because of `OneRunner`, the event loop's mutual exclusion,
  which is itself proved and not assumed.
* `PersonaFollows` (`TurnApiHistory`): `Spec => []PersonaFollowsHistory` for a client that asks one
  thing at a time (`Sequential`) and without crashes. `PersonaInStep` says what the one
  request or reroll in flight (`OneClient`) still has to do: the persona is the newest successful
  turn's, or a turn of another persona is stored and its activity is about to be committed, or a
  row is deleted and the restoration is due. Both hypotheses are needed: a crash between
  the two commits leaves the persona behind for good, and so do requests that overlap.
* `NoOrphans` (`TurnApiMemories`): `Spec => []NoOrphanMemories` under the same two
  hypotheses. `SourcesInHistory` is the debt again, read towards the history: what a
  request, a job or its fold batch will write belongs to a turn that is there, except for
  what a reroll past its delete will sweep, and nothing is pending once it has drained.
  A crash between delete and sweep, or a turn that finishes during the drain, leaves orphans.
* `IndexMirrors` (`TurnApiMemories`): `Spec => []IndexMirrorsStore`, for any number of clients.
  `IndexInStep` says by what the index lags while a job is between two statements: by the
  row it has just committed, and by the originals it has yet to unindex. Hypotheses: the vector
  store answers and there is no cap (the property's own conditions), no crash (which cuts a job between
  commit and upsert) and no `delete-session` (whose purge a late upsert can follow).
* `IndexBounded` (`TurnApiMemories`): `Spec => []SessionIndexBounded`, with no hypothesis: any number of
  clients, crashes, failing index calls, delete-session. What the cap promises under failure
  is a count: the points of live rows beyond the cap are at most the calls that were cut
  short, by a failure or a crash, since the last one that ran to its end (`lapsed`). Points whose row is gone are outside it: the cap ranks rows and never sees
  them. The proof counts on sets nobody says are finite, with a lemma on what an
  eviction leaves.

* `TypeCorrect`, `PromiseKept`, `UncheckedIsHarmless`, `TruthfulAnswer`, `BoundedCalls`
  (`TurnPipelineProofs`): `Spec` implements `TurnPromise` and keeps its four
  invariants. `PipelineInv` adds what each stage may rely on: `ReviewedInOrder` (a repair
  is under way only for a draft that was rejected, or flagged although approved, so
  falling back to it never serves a rejected one and a refusal never withholds an
  approved one), `GateIsHarmless` (what an open gate implies; the repair's own gate can
  never be open, since its confidence is `None`) and `CallsWithinBudget` (the requests
  sent are at most what the place in the nested retries allows). Four lemmas cover the
  kinds of step: retry, enter the next stage, answer, fail.
* `LoreTypes` and `OneModelPerCollection` (`LoreIngestProofs`). `TypeOK` is not inductive:
  a point's visibility comes from the manifest the ingestion read, so `WorksOnListed`
  says that it only works on documents listed there. `OneModel` needs `CheckHolds`: an
  ingestion that has passed the fingerprint check may rely on it until its upsert although
  it never looks again, and one about to adopt finds no fingerprint or its own.
* `UndisturbedRoundRepairs` (`LoreIngestProofs`): `Spec => []UndisturbedIndexIsCurrent`. `Undisturbed`
  follows every document through every ingestion at once: while nothing disturbs the
  round, all ingestions work from the manifest and the files as they are, and a listed document
  whose points are not its text is still *owed* by one of them. When all have ended nobody owes.

* `TypeCorrect`, `StartedPlays`, `BindingFollowed`, `ValidatedContent` (`SessionStartProofs`): every
  property of the `start` run. Their inductive invariant adds `Bound` (the row a request
  carries is its session's, but for what the request is there to change, and only a turn
  calls a model) and `PlaysAsFarAsRead`: a request reads the content file by file,
  and what it has read still holds if no file changed; so a row it writes can be loaded by the
  next turn. `ValidatedContent` needs no history: the validator, which knows cards by id,
  and the loader, which opens files by name, agree on every content root whose files are
  named for their ids.

* `Containment` (`TurnRecallProofs`): `Spec => []Contained`, for every set of hidden facts and
  every text. The guard takes the units one by one while each redaction changes the text under
  it, so the invariant says of the units already done with that they do not occur
  (`Guarding`). The lemma it rests on is `RedactionMakesNone`: an occurrence in the redacted text
  lies before the marker or behind it, and so was there before. That uses the hypothesis
  `MarkerUnsaid`, that no hidden fact holds the marker `[redacted]`; a fact that did could be
  put together by the redaction of another. TLC finds the hypothesis and the
  invariant true in the instance of `recall`.
* `RecallTyped`, `SliceReaches`, `RecallShowsOnce`, `WindowIsFilled`, `RecallShowsLive`
  (`TurnRecallProofs`): the types and the four properties of what is recalled, for every
  window, quota, cap, store, and table of texts. They speak of a built prompt, which is
  the end of a pipeline, while edits go on in the stores. `RecallInv` says what
  the turn holds in each phase:
  * `Stored`: one row per id, one text per id in rows and points together, and nothing retired has a
    canon tag. Retirement checks the tags, and the digest and the rows of a batch take
    ids greater than any the session, the index or the turn still holds.
  * `Loaded`, `Ranks`: the snapshot of the memories agrees in text with the index *as it is now*, the hits are
    live rows of it, each once; the ranking lists an id once; and the search brought back all
    ids the player may know, or as many as were asked for (`Ample`).
  * `Shows`: the walk over the ranking took each text or has a reason not to (`Filled`): a
    standing fact says it, a chunk before it shows it, or the window is full.
  * `Leaves`: what a turn has written is in the rows and not yet in the index.

  Under it lies a theory of the operators. A set listed by a strict order holds each element once and in
  order, whatever the `CHOOSE` (`RanksTaken`, `ListedByRank`), and every sort of the code is one
  (`CanonOrders`, `HitsOrder`, `NearOrders`, `RankOrders`; the second orders by fractions). `Reranked`
  says that each chunk is kept once, and `SliceFound` that the quota's members come first
  with their texts, whether the search found them or they were injected. `WindowFills` is the counting argument
  for the over-fetch: of Window + facts + (Window - 1) ids at most as many echo the facts as
  there are facts, and at most Window - 1 are copies. `GivesWay` takes a chain of
  amendments to its newest. A walk is a recursive function; that it exists is
  proved with a least counterexample (`WalkExists`), and so is what it preserves (`UpTo`).
  TLC finds `RecallInv` true in every state of the `recall` run.

* `TransferTypes`, `DeletionsAreBackedUp`, `ReindexRecoversAll`, `ImportsAreComplete`,
  `PointsHaveTheirSource`, `ImportsHappenOnce` (`SessionTransferProofs`): every property of the
  `transfer` run. The first lemmas give the whole effect of each step on the database
  field by field (`Wrote`); a row that is new after a step is stamped with the new clock (`NewRowsAreStamped`).
  None of the five properties is inductive:
  * `SafetyNet` needs `BackedUp`: no row is stamped ahead of the clock, and while a
    deletion is under way the backup holds every row that is stamped before it began, and so
    whatever it will remove that the API did not write since.
  * `ReindexRecovers` needs `Reindexing`: while a reindex runs alone, the rows it holds
    are the stored ones, and its first call has already brought back the session's points
    when its second begins. Nothing is asked of what happened before it started: mirrors that failed, purges
    that were partial, a reindex that was killed.
  * `ImportIsComplete` needs `Held` (an import has its session, and a session that is gone has no rows)
    and `Importing`: the turns stored and the turns still held make up the file. It too speaks of an import
    that runs alone, after whatever has failed, such as the attempt before it.
  * `NothingOutlivesItsSource` needs `Sourced`: every point has its row or is *doomed*, which
    means that the command under way has yet to purge its session or collection, and a job past its commit
    has its row.
  * `ImportedOnce` needs `Unique`: texts are numbered up to `played`; a text whose memory is
    pending is in no stored, held or exported memory; what an import still holds is
    disjoint from what its session has. The hard case is a half-imported session that
    somebody plays on, deletes, and imports again.

* `ViewTyped`, `PanelsAgree`, `TranscriptAgrees` (`SessionViewProofs`): every safety property of
  the `view` run. None is inductive.
  * `TypeInv` adds to `TypeOK` that a task's number is its own, that the operation under way
    finds room for the calls it ends with (`Issue` takes the least free slot, a `CHOOSE`), and that
    every fact asked for will have a number.
  * `PanelsMatch` speaks of moments when nothing is in flight. `CanonInv` says what holds
    while something is: a list that nothing overlapped and the answers still to come make up the
    session's canon; calls that overlapped a fetch have marked it. `MemoryInv` says of memory
    lists that one fetched alone, or being fetched, shows memories the session has, except
    between a reroll's delete and the refresh `Rest` issues, whatever became of the
    turn. It needs `DeletesDoubted`: a delete that runs on is either waited for or doubted.
  * `TranscriptIsHistory` speaks of an idle page. `StreamInv` says that the stream the page reads
    is that of the turn it asked for, and carries no answer while it is open; `HistoryInv` that once
    it has ended, its frames are all that the transcript lacks of the history (`Ended`). What the
    page makes of them is the parser's doing, and `TurnReceived` and `NothingReceived` are
    about it: cut at any token and split into two chunks anywhere, a stream yields the whole reply, or
    nothing if its last frame is missing, and never a part of the reply. `TwoChunks` shows that two
    chunks leave the parser in the state one would, `FrameRead` that a frame is applied at its
    last token and not before.
  * Stating this showed that two arms of a `CASE` in `CallFails` overlapped; they are now disjoint.

Stays with TLC:

* Liveness under fairness (`LoopWorkEnds`, `BusyEnds`): the provers have no ENABLED.
* `EventLostOnlyToADuplicate`. It holds of the texts of `recall`, but it is no theorem: a
  candidate dropped as covered by one kept before it is silenced by a text that the semantic
  pass may drop in turn, and a text without content terms counts as covered by nothing. What is proved
  of fold and dedup is that what they leave are candidates (`FoldTyped`, `DroppedTyped`).
* `FoldKeepsWords`: a memory that is marked as rolled up is in a stored summary, unless a reroll swept it.
* The claims that a run refutes.

## 6. Findings

1. *A drained reroll can still be haunted* (`drain_race`). `routes.py:585` reads the
   pending tasks once. A turn that finishes while the handler awaits them is the last
   turn when `delete_last_turn` runs; its job was not waited for and writes its memory
   after the sweep. What the drain does guarantee is proved:
   `DrainedRerollLeavesNothing`.
2. *A finished stream can lose its memory job* (`stream_leaves`). The comment at
   `routes.py:398-401` protects the frames yielded after scheduling; frames queued
   before the turn ended are yielded (lines 389 and 396) before it.
3. *A changed visibility is not indexed* (`lore_visibility`). The comment at
   `ingestion.py:93-96` says that skipping an unchanged document leaves the state a full
   ingestion would. Chunk ids do not hash the manifest's metadata: a document whose
   visibility changed in the manifest, but whose text did not, keeps its old visibility
   in the index until `--force`.

Shown by the configurations to run by hand:

4. *The sweep takes other turns' memories* (`TurnApi_sweep_by_time`). Deleting by
   `created_at` removes what an earlier turn's slow job wrote after the last turn was
   stored, even with a client that asks one thing at a time. `source_turn_id` is in
   the row and unused here.
5. *Two summaries of the same memories* (`TurnApi_double_fold`). The fold batch is read
   before the await on the curator and not re-read after it.
6. *The re-check can fail open* (`TurnPipeline_recheck`). `docs/04_agent_workflows.md:143-146`
   says that a critic exception, in the re-critique after a repair too, fails the turn
   closed. When only the validator asked for the repair, `repair.py:244` serves the
   original draft, which the critic had accepted. No unapproved text is served
   (`KeepsPromise`); it is the document that says too much.
7. *An import is not the session that was exported* (`SessionTransfer_round_trip`).
   `cli.py:1139-1148` drops `outcome`, `created_at` and `source_turn_id`: controlled failures come
   back as successful dialogue, and all memories are newer than the last turn, so
   that a reroll of the copy sweeps them all. `tests/integration/test_cli_sessions.py:114`
   checks a round trip in which neither shows.
8. *Reindexing ignores floor and cap* (`SessionTransfer_floor`). `config.py:112-114` says
   that memories below the importance floor are not indexed; the indexer of
   `reindex-memories` (`cli.py:594-599`) is built without the two settings that
   `composition.py:298-306` passes.
9. *A durable event can lose its place in the canon* (`TurnRecall_eligible`).
   `stages/memory.py:186-191` folds an event onto the curated memory that covers it so that
   a duplicate cannot silence it; the dedup against stored rows, which comes
   after, still can, also when the older row is hidden or retired.
   It may be a row of the same message: the extractor tests one pattern after the other
   (`deterministic_extractor.py:103-113`), so that a message may state two events, and if they are
   alike the second one is dropped as a copy of the first, with its tags
   (`memory_dedup.py:60-67`). This takes a session that has a memory, since an empty one
   skips the dedup. What the code does keep is `EventLostOnlyToADuplicate`.
10. *A reroll resends what the page shows last* (`SessionView_reroll`).
    `session-store.ts:286-288` says it resends the deleted turn's message. After a request whose
    fate the page was not told, the deleted turn is another one.
11. *The canon panel can be stale without an error* (`SessionView_canon`).
    `session-store.ts:58` says that failures surface instead; an older answer that comes
    last overwrites a newer list.

Seen while modelling, and shown by no run:

* Two ingestions that read different versions of a file and cross leave a mixed document;
  `UndisturbedIndexIsCurrent` shows that the next undisturbed round repairs it.
* The repair's own risk gate is never open, whatever the mode, because the re-check is not
  told the retrieval confidence.
* A job that the drain missed may write a memory for a turn the page has seen deleted (`owed` in `SessionView`);
  the panel shows it after the next refresh.
* A reroll during a fold may sweep the summary and leave its originals marked consolidated: the
  second disjunct of `FoldKeepsWords`. A crash between summary and mark does the
  opposite: the originals are folded again.
* A crash inside a reroll, between its commits, leaves memories of the deleted turn, points of swept rows, or a
  stale active persona; nothing repairs them later. Points without rows are never ranked, so the cap does not evict them.
* A session created between `reset-db`'s listing and its DELETE loses its rows and keeps its points.
* A job already past its commit when `delete-session` purges the vectors can upsert its
  point afterwards: an orphan of a deleted session until the collection is rebuilt.
* The restore runbook (`docs/18`, "Restore runbook") rebuilds the index with
  `reindex-memories`, which only upserts: points newer than the snapshot survive it.
* `secret_guard.py:59-64` finds a unit in the lower-cased text and cuts the original at that index. A
  capital whose lower case is longer shifts it; the model's tokens keep their width.
* An amendment with few new terms is dropped by the write dedup as a copy of what
  it amends; a fact that a newer one supersedes may disappear while the newer is cut by
  the caps; the cap of the session index counts consolidated originals.
* IDF weights are summed as floats over a set, in the order of its hashes: ties can
  fall differently from one process to the next.
* The validator compares neither file names with ids nor the characters of ids, does not
  open documents, and its secrecy rules skip the speaking style, the private description
  and a scene's recent events. `import-session` does not pass the cloud creation gate.
* In the page: when the turn details of a resume fail, the session is active with an
  empty transcript; a controlled failure that was not stored is shown but is not in
  the history; an addition that overlaps the first load of the canon can show the fact twice.

## 7. Not modelled

* A turn played by the command line beside the API. It would put a second process between
  the two statements of `delete_last_turn` (`repositories.py:471`) and inside
  the read-modify-write of the diagnostics (`repositories.py:387`). In `TurnApi` only one
  coroutine runs between two awaits (`LoopFree`, which the proofs of `TurnApi` rest on);
  with a second process every one of its actions would have to be cut at each statement.
* Equal stamps and a clock that is set back.
* `diagnostics/` and `evals/`: sequential scripts over fixtures around the program,
  which keep nothing a turn reads. They are a third of the Python lines.
* The page's display state: scene switch, selections, catalog, debug panels.
* Wording of prompts, formats of fields, the chunker's cutting rules, the validator's
  patterns for a draft (a choice in `TurnPipeline`), HTTP, logging, the in-memory store.

What could come next: `FoldKeepsWords` as a theorem; the part of `ShownIsLive` that does not rest on the order of the
folds; and the second process in `TurnApi`.

## 8. Running

    tlc -workers 2 -config TurnApi_concurrent.cfg MCTurnApi      # likewise _sequential, _faults,
                                                                # _drain_race, _stream_leaves
    tlc -workers 2 -config TurnPipeline.cfg TurnPipeline
    tlc -workers 2 -config LoreIngest.cfg MCLoreIngest           # likewise _visibility
    tlc -workers 2 -config TurnRecall.cfg MCTurnRecall
    tlc -workers 2 -config SessionStart.cfg MCSessionStart
    tlc -workers 2 -config SessionTransfer.cfg MCSessionTransfer
    tlc -workers 2 -config SessionView.cfg MCSessionView
    tlapm TurnApiHistory.tla  # likewise TurnApiMemories, TurnPipelineProofs, TurnRecallProofs,
                              # LoreIngestProofs, SessionStartProofs, SessionTransferProofs,
                              # SessionViewProofs
