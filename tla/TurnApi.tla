------------------------------- MODULE TurnApi -------------------------------
(***************************************************************************)
(* The HTTP surface over one session: turns posted or streamed, the reroll *)
(* that deletes the last turn, the scene switch, the deferred memory jobs, *)
(* the command line's delete-session, and a crash of the API process.      *)
(*                                                                         *)
(* Turns, rerolls and jobs are coroutines of one event loop: they give way *)
(* to each other only where the code awaits the model (or the drain), and  *)
(* LoopFree says nobody is between two statements.  The scene endpoint is  *)
(* a plain function run in a worker thread and delete-session is another   *)
(* process, so both come between any two statements, as a crash does.      *)
(***************************************************************************)
EXTENDS MemoryStage

CONSTANTS
    Requests,        \* turn requests, one POST each
    Rerolls,         \* DELETE /turns/last requests
    Sequential,      \* TRUE: the client waits for an answer before it asks again
    MaxCrashes,      \* bound: crashes of the API process
    MayDelete        \* TRUE: the command line may delete the session

ASSUME ApiAssumption ==
    /\ Requests \cap Rerolls = {}
    /\ Sequential \in BOOLEAN
    /\ MaxCrashes \in Nat
    /\ MayDelete \in BOOLEAN

VARIABLES
    req,        \* what each turn request has reached and holds
    rerolls,    \* what each reroll has reached and holds
    purge,      \* the delete-session command's vector cleanup
    crashes     \* crashes so far

vars == <<storeVars, memoryVars, req, rerolls, purge, crashes>>

\* new, generating (awaiting the model), activity and diagnostics (between two
\* statements), ready (a streamed turn that has returned to its own task while
\* the response generator still yields stage frames), then how it ended
RequestPcs == {"new", "generating", "activity", "diagnostics", "ready",
               "done", "failed", "disconnected", "lost"}

Modes == {"post", "stream"}

Request == [pc : RequestPcs, mode : Modes, scene : Scenes, persona : Personas,
            switched : BOOLEAN, outcome : Outcomes, turn : Nat]

\* draining (awaiting the jobs), deleting, restoring, sweeping and unindexing
\* (between two statements), then how it ended
RerollPcs == {"new", "draining", "deleting", "restoring", "sweeping", "unindexing",
              "done", "refused", "lost"}

Reroll == [pc : RerollPcs, waiting : SUBSET Nat, row : TurnRow,
           swept : SUBSET Nat,  \* the memories it has deleted, still to be unindexed
           known : SUBSET Nat]  \* observability: jobs ever scheduled at the snapshot

NoRow == [id |-> 0, index |-> 0, scene |-> InitialScene, persona |-> InitialPersona,
          outcome |-> "success", created |-> 0, diagnostics |-> "unset"]

TypeOK ==
    /\ StoreTypeOK
    /\ MemoryTypeOK
    /\ req \in [Requests -> Request]
    /\ rerolls \in [Rerolls -> Reroll]
    /\ purge \in {"none", "due", "done"}
    /\ crashes \in Nat

Init ==
    /\ StoreInit
    /\ MemoryInit
    /\ req = [r \in Requests |->
                [pc |-> "new", mode |-> "post", scene |-> InitialScene,
                 persona |-> InitialPersona, switched |-> FALSE, outcome |-> "success",
                 turn |-> 0]]
    /\ rerolls = [d \in Rerolls |->
                    [pc |-> "new", waiting |-> {}, row |-> NoRow, swept |-> {},
                     known |-> {}]]
    /\ purge = "none"
    /\ crashes = 0

-----------------------------------------------------------------------------
(* Scheduling *)

\* a coroutine that runs: it is between two statements with no await between
RequestRuns(r) == req[r].pc \in {"activity", "diagnostics"}
RerollRuns(d) == rerolls[d].pc \in {"deleting", "restoring", "sweeping", "unindexing"}
JobRuns(j) == j.phase \in {"indexing", "capping", "marking", "unindexing"}

LoopFree ==
    /\ \A r \in Requests : ~RequestRuns(r)
    /\ \A d \in Rerolls : ~RerollRuns(d)
    /\ \A j \in jobs : ~JobRuns(j)

RequestEnded(r) == req[r].pc \in {"done", "failed", "disconnected", "lost"}
RerollEnded(d) == rerolls[d].pc \in {"done", "refused", "lost"}

InFlight ==
    \/ \E r \in Requests : req[r].pc # "new" /\ ~RequestEnded(r)
    \/ \E d \in Rerolls : rerolls[d].pc # "new" /\ ~RerollEnded(d)

\* the SPA's busy flag: one request at a time
ClientMayAsk == Sequential => ~InFlight

-----------------------------------------------------------------------------
(* A turn request *)

\* create_turn / stream_turn up to the first model call: load the session,
\* apply the override in memory only
SubmitTurn(r, mode, p) ==
    /\ req[r].pc = "new"
    /\ LoopFree
    /\ ClientMayAsk
    /\ req' = [req EXCEPT ![r] =
                 IF SessionLive
                 THEN [@ EXCEPT !.pc = "generating", !.mode = mode,
                                !.scene = session.scene, !.persona = p,
                                !.switched = (p # session.persona)]
                 ELSE [@ EXCEPT !.pc = "failed", !.mode = mode]]
    /\ UNCHANGED <<storeVars, memoryVars, rerolls, purge, crashes>>

\* a provider timeout or refusal ends the request and stores nothing
ProviderError(r) ==
    /\ req[r].pc = "generating"
    /\ LoopFree
    /\ req' = [req EXCEPT ![r].pc = "failed"]
    /\ UNCHANGED <<storeVars, memoryVars, rerolls, purge, crashes>>

\* a store error fails a successful turn; a controlled failure swallows it
StoreErrorPc(outcome) == IF outcome = "success" THEN "failed" ELSE "done"

\* the last model call has answered: the turn row is inserted
PersistTurn(r, outcome) ==
    /\ req[r].pc = "generating"
    /\ LoopFree
    /\ IF SessionLive
       THEN /\ AppendTurn(req[r].scene, req[r].persona, outcome)
            /\ req' = [req EXCEPT ![r].pc = "activity",
                                  ![r].outcome = outcome, ![r].turn = turnSeq + 1]
       ELSE /\ req' = [req EXCEPT ![r].pc = StoreErrorPc(outcome), ![r].outcome = outcome]
            /\ UNCHANGED <<turns, turnSeq, clock>>
    /\ UNCHANGED <<session, memories, memoryVars, rerolls, purge, crashes>>

\* Variant: an override is committed whatever the outcome of its turn
CommitAnyOutcome(r) == req[r].switched

\* run_turn commits the override only on its success path
CommitsPersona(r) == req[r].outcome = "success" /\ req[r].switched

\* update_session_activity (which finds a deleted session out) and, for a
\* successful turn with an override, update_active_persona
CommitActivity(r) ==
    /\ req[r].pc = "activity"
    /\ req' = [req EXCEPT ![r].pc =
                 IF SessionLive THEN "diagnostics" ELSE StoreErrorPc(req[r].outcome)]
    /\ IF SessionLive /\ CommitsPersona(r)
       THEN UpdateActivePersona(req[r].persona)
       ELSE UNCHANGED session
    /\ UNCHANGED <<turns, memories, turnSeq, clock, memoryVars, rerolls, purge, crashes>>

\* only the success path returns a DeferredMemoryJob
DefersMemory(r) == req[r].outcome = "success"

\* diagnostics are stored, run_turn returns; create_turn schedules the job in
\* the same breath, stream_turn's generator only when it next runs
ReturnTurn(r) ==
    /\ req[r].pc = "diagnostics"
    /\ UpdateTurnDiagnostics(req[r].turn)
    /\ IF req[r].mode = "post" /\ DefersMemory(r)
       THEN Schedule(req[r].turn, req[r].scene, req[r].persona)
       ELSE UNCHANGED <<jobs, scheduled>>
    /\ req' = [req EXCEPT ![r].pc = IF req[r].mode = "post" THEN "done" ELSE "ready"]
    /\ UNCHANGED <<session, memories, turnSeq, clock, vectors, lapsed, rerolls, purge, crashes>>

\* the generator has yielded the last stage frame and awaits the finished turn
ScheduleStreamed(r) ==
    /\ req[r].pc = "ready"
    /\ LoopFree
    /\ IF DefersMemory(r)
       THEN Schedule(req[r].turn, req[r].scene, req[r].persona)
       ELSE UNCHANGED <<jobs, scheduled>>
    /\ req' = [req EXCEPT ![r].pc = "done"]
    /\ UNCHANGED <<storeVars, vectors, lapsed, rerolls, purge, crashes>>

\* the client of a stream goes away: an unfinished turn is cancelled at its
\* await; a finished one has no one left to schedule its job
Disconnect(r) ==
    /\ req[r].mode = "stream"
    /\ req[r].pc \in {"generating", "ready"}
    /\ LoopFree
    /\ req' = [req EXCEPT ![r].pc = "disconnected"]
    /\ UNCHANGED <<storeVars, memoryVars, rerolls, purge, crashes>>

-----------------------------------------------------------------------------
(* A reroll: DELETE /sessions/{id}/turns/last *)

PendingTurns == {j.turn : j \in jobs}

\* Variant: a handler that does not drain
SnapshotNothing == {}

\* the tasks of _DEFERRED_MEMORY_TASKS that are not done, read once
DrainSnapshot == PendingTurns

\* with nothing to drain the handler goes on without an await
StartReroll(d) ==
    /\ rerolls[d].pc = "new"
    /\ LoopFree
    /\ ClientMayAsk
    /\ rerolls' = [rerolls EXCEPT
                     ![d].pc = IF DrainSnapshot = {} THEN "deleting" ELSE "draining",
                     ![d].waiting = DrainSnapshot,
                     ![d].known = scheduled]
    /\ UNCHANGED <<storeVars, memoryVars, req, purge, crashes>>

\* asyncio.gather returns once every job of the snapshot is done
Drained(d) == rerolls[d].waiting \cap PendingTurns = {}

ResumeReroll(d) ==
    /\ rerolls[d].pc = "draining"
    /\ LoopFree
    /\ Drained(d)
    /\ rerolls' = [rerolls EXCEPT ![d].pc = "deleting"]
    /\ UNCHANGED <<storeVars, memoryVars, req, purge, crashes>>

\* delete_last_turn; 404 for a session or a turn that is not there
DeleteLastTurn(d) ==
    /\ rerolls[d].pc = "deleting"
    /\ IF SessionLive /\ turns # {}
       THEN /\ turns' = turns \ {LastTurn(turns)}
            /\ rerolls' = [rerolls EXCEPT ![d].pc = "restoring", ![d].row = LastTurn(turns)]
       ELSE /\ rerolls' = [rerolls EXCEPT ![d].pc = "refused"]
            /\ UNCHANGED turns
    /\ UNCHANGED <<session, memories, turnSeq, clock, memoryVars, req, purge, crashes>>

RestoreAfterDelete(d) ==
    /\ rerolls[d].pc = "restoring"
    /\ RestorePersona(rerolls[d].row)
    /\ rerolls' = [rerolls EXCEPT ![d].pc = "sweeping"]
    /\ UNCHANGED <<turns, memories, turnSeq, clock, memoryVars, req, purge, crashes>>

\* delete_memories_since(turn.created_at), a commit of its own
SweepMemories(d) ==
    LET kept == MemoriesBefore(rerolls[d].row.created) IN
    /\ rerolls[d].pc = "sweeping"
    /\ memories' = kept
    /\ rerolls' = [rerolls EXCEPT ![d].pc = "unindexing",
                                  ![d].swept = {m.created : m \in memories \ kept}]
    /\ UNCHANGED <<session, turns, turnSeq, clock, memoryVars, req, purge, crashes>>

\* unindex of the swept memories, best effort
UnindexSwept(d) ==
    LET swept == rerolls[d].swept IN
    /\ rerolls[d].pc = "unindexing"
    /\ BestEffort(vectors \ PointsOfAll(swept), UnindexFailures(vectors, swept))
    /\ rerolls' = [rerolls EXCEPT ![d].pc = "done", ![d].swept = {}]
    /\ UNCHANGED <<storeVars, jobs, scheduled, lapsed, req, purge, crashes>>

-----------------------------------------------------------------------------
(* The jobs, on the same loop *)

JobStep(j) ==
    \/ /\ LoopFree
       /\ \/ AbandonJob(j)
          \/ StartCuration(j)
          \/ GateCuration(j)
          \/ CurateNothing(j)
          \/ \E kind \in {"minor", "durable"} : CurateMemory(j, kind)
          \/ PersistSummary(j)
          \/ SkipSummary(j)
    \/ UpsertMemory(j)
    \/ EnforceCap(j)
    \/ MarkFolded(j)
    \/ UnindexFolded(j)

RunJob == (\E j \in jobs : JobStep(j)) /\ UNCHANGED <<req, rerolls, purge, crashes>>

-----------------------------------------------------------------------------
(* Outside the loop *)

\* POST /sessions/{id}/scene, in a worker thread
SwitchScene(s) ==
    /\ SessionLive
    /\ s # session.scene
    /\ UpdateActiveScene(s)
    /\ UNCHANGED <<turns, memories, turnSeq, clock, memoryVars, req, rerolls, purge, crashes>>

\* roleplay delete-session, in another process: first the row with its cascade
DeleteSession ==
    /\ MayDelete
    /\ SessionLive
    /\ DeleteSessionRow
    /\ purge' = "due"
    /\ UNCHANGED <<memoryVars, req, rerolls, crashes>>

\* then the session's points in both collections, best effort
PurgeVectors ==
    /\ purge = "due"
    /\ BestEffort({}, {vectors, {v \in vectors : v[1] # "session_memory"}})
    /\ purge' = "done"
    /\ UNCHANGED <<storeVars, jobs, scheduled, lapsed, req, rerolls, crashes>>

\* the API process dies: what it held is gone, the database and the index stay
Crash ==
    /\ crashes < MaxCrashes
    /\ crashes' = crashes + 1
    /\ lapsed' = IF \E j \in jobs : j.phase = "capping" THEN lapsed + 1 ELSE lapsed
    /\ jobs' = {}
    /\ req' = [r \in Requests |->
                 IF req[r].pc = "new" \/ RequestEnded(r) THEN req[r]
                 ELSE [req[r] EXCEPT !.pc = "lost"]]
    /\ rerolls' = [d \in Rerolls |->
                     IF rerolls[d].pc = "new" \/ RerollEnded(d) THEN rerolls[d]
                     ELSE [rerolls[d] EXCEPT !.pc = "lost"]]
    /\ UNCHANGED <<storeVars, scheduled, vectors, purge>>

-----------------------------------------------------------------------------

RequestStep(r) ==
    \/ ProviderError(r)
    \/ \E o \in Outcomes : PersistTurn(r, o)
    \/ CommitActivity(r)
    \/ ReturnTurn(r)
    \/ ScheduleStreamed(r)

RerollStep(d) ==
    \/ ResumeReroll(d)
    \/ DeleteLastTurn(d)
    \/ RestoreAfterDelete(d)
    \/ SweepMemories(d)
    \/ UnindexSwept(d)

Next ==
    \/ \E r \in Requests, mode \in Modes, p \in Personas : SubmitTurn(r, mode, p)
    \/ \E r \in Requests : RequestStep(r) \/ Disconnect(r)
    \/ \E d \in Rerolls : StartReroll(d) \/ RerollStep(d)
    \/ RunJob
    \/ \E s \in Scenes : SwitchScene(s)
    \/ DeleteSession
    \/ PurgeVectors
    \/ Crash

Spec == Init /\ [][Next]_vars

\* The event loop runs every coroutine that can go on, and every model call
\* ends: the provider client gives up after its timeout and its one retry.
\* Nothing is assumed of the client, the operator or the crashes.
Fairness ==
    /\ \A r \in Requests : WF_vars(RequestStep(r))
    /\ \A d \in Rerolls : WF_vars(RerollStep(d))
    /\ WF_vars(RunJob)

FairSpec == Spec /\ Fairness

-----------------------------------------------------------------------------
(* Properties *)

Episodic == {m \in memories : m.kind # "summary"}

\* Turn numbering: the rows are numbered 1..n with no gap and no reuse among
\* live rows, and id and created_at run the same way, although a reroll frees
\* the highest number and turns finish out of order. A reroll takes "the last
\* turn" by turn_index and sweeps memories by created_at, so they must agree.
TurnsInOrder ==
    /\ \A t \in turns : \A i \in 1 .. t.index : \E u \in turns : u.index = i
    /\ \A t, u \in turns :
          /\ t.index = u.index => t = u
          /\ t.index < u.index => t.id < u.id /\ t.created < u.created

\* Provenance: an episodic memory was written by exactly one curation of one
\* successful turn, and carries the scene and persona that turn was generated
\* under, whatever scene switch or persona override came before the job ran.
MemoryProvenance ==
    /\ \A m \in Episodic : \E r \in Requests :
          /\ req[r].turn = m.source
          /\ req[r].outcome = "success"
          /\ m.scene = req[r].scene
          /\ m.actor = req[r].persona
    /\ \A m, n \in Episodic : m.source = n.source => m = n

\* The drain's guarantee: once a reroll has deleted a turn whose job had been
\* scheduled when the reroll took its snapshot, no memory curated from that
\* turn exists, and none is ever written afterwards.
DrainedRerollLeavesNothing ==
    \A d \in Rerolls :
        /\ rerolls[d].pc \in {"unindexing", "done"}
        /\ rerolls[d].row.id \in rerolls[d].known
        => \A m \in Episodic : m.source # rerolls[d].row.id

\* The active persona only ever moves to the persona of a successful turn that
\* is in the history at that moment: never for a failed turn, never to a
\* persona only a deleted turn had.
PersonaMovesWithHistory ==
    [][session'.persona # session.persona
       => \E t \in turns' : t.outcome = "success" /\ t.persona = session'.persona]_vars

\* One client at a time: between requests the active persona is the persona of
\* the newest successful turn, through overrides, failed turns and rerolls, as
\* long as one successful turn remains.
PersonaFollowsHistory ==
    ~InFlight /\ SuccessTurns # {} => session.persona = LastTurn(SuccessTurns).persona

\* One client at a time: between requests every memory, a roll-up included,
\* comes from a turn that is still in the history, while the jobs of earlier
\* turns are still curating and folding in the background.
NoOrphanMemories ==
    ~InFlight => \A m \in memories : \E t \in turns : t.id = m.source

SessionPoints == {v[2] : v \in {w \in vectors : w[1] = "session_memory"}}

\* With a vector store that answers and no cap, the session's index holds
\* exactly the stored memories that were not rolled up, whenever no coroutine
\* is between two statements: no vector of a swept or folded memory stays
\* retrievable and no live memory is missing, whichever jobs overlap.
IndexMirrorsStore ==
    LoopFree => SessionPoints = {m.created : m \in {n \in memories : ~n.consolidated}}

\* the session's points whose row is still stored: the only ones a cap that is
\* enforced over the rows can take
LivePoints == SessionPoints \cap {m.created : m \in memories}

\* The cap on the session's index heals: after any crash between an upsert and
\* its eviction, any failed call, any job, fold, sweep and deleted session, the
\* stored memories have at most as many points beyond the cap as index calls were
\* cut short since the last one that ran to its end. That one call restores the
\* cap however much the earlier ones had left, as it ranks every stored row, the
\* rolled-up ones too (_enforce_session_cap).
SessionIndexBounded ==
    SessionIndexCap > 0 /\ LoopFree
    => Cardinality(LivePoints) <= SessionIndexCap + lapsed

\* No fold loses words: a memory that was marked as rolled up is in the sources
\* of a summary that is stored, although the batch was read before an await and
\* summary and mark are two commits. Only a reroll of a turn stored after the
\* memory can have swept the summary away and left the marked original.
FoldKeepsWords ==
    \A m \in memories : m.consolidated =>
        \/ \E s \in memories : s.kind = "summary" /\ m.created \in s.sources
        \/ \E d \in Rerolls : rerolls[d].row.created > m.created

\* What the event loop has begun ends, whatever calls of the index fail. Every
\* reroll: its drain waits for the jobs of one snapshot only, whatever turns and
\* jobs follow. Every scheduled job: it leaves the set the rerolls drain, in
\* whatever order the jobs, folds, turns and rerolls come.
LoopWorkEnds ==
    /\ \A d \in Rerolls : rerolls[d].pc # "new" ~> RerollEnded(d)
    /\ \A r \in Requests : req[r].turn \in scheduled ~> req[r].turn \notin PendingTurns

-----------------------------------------------------------------------------
(* What a comment or a document says and the code does not do: each of      *)
(* these has a run that violates it                                         *)

\* routes.py, at the drain: it keeps a still-running job from writing the
\* rerolled turn's memories after the sweep. Not for a job that is scheduled
\* while the handler waits for the others.
RerolledTurnStaysForgotten ==
    \A d \in Rerolls :
        rerolls[d].pc = "done" => \A m \in Episodic : m.source # rerolls[d].row.id

\* README: the reroll deletes the last turn "together with its derived
\* memories". The sweep goes by time and takes what an earlier turn's job
\* happened to write after the deleted turn was stored.
SweepTakesOnlyItsTurn ==
    [][\A d \in Rerolls :
          rerolls[d].pc = "sweeping" /\ rerolls'[d].pc = "unindexing"
          => \A m \in memories \ memories' : m.source = rerolls[d].row.id]_vars

\* _persist_consolidation: a folded memory is marked before anything can fail,
\* so that no second summary of the same memories is minted. Two overlapping
\* jobs both read the backlog before either marks it.
FoldedOnce ==
    \A m, n \in memories :
        m.kind = "summary" /\ n.kind = "summary" /\ m # n => m.sources \cap n.sources = {}

\* stream_turn: a client that disconnects after the turn completed must not be
\* able to skip scheduling its job. It can, while the generator still yields
\* the stage frames queued before the turn completed.
DisconnectKeepsJob ==
    \A r \in Requests :
        req[r].pc = "disconnected" /\ req[r].turn # 0 /\ req[r].outcome = "success"
        => req[r].turn \in scheduled
=============================================================================
