----------------------------- MODULE MemoryStage -----------------------------
(***************************************************************************)
(* The deferred memory job of one persisted turn: extraction (one await on *)
(* the curator model), the write and its best-effort index mirror, then    *)
(* the consolidation pass (another await) that folds old minor memories    *)
(* into one summary.                                                       *)
(*                                                                         *)
(* A job runs on the API's event loop and gives way only at an await, but  *)
(* two commits, two vector-store calls, or a commit and a call are two     *)
(* steps: a crash, or the command line in another process, can come        *)
(* between them.  Only the two collections of one upsert or one unindex    *)
(* are one step, whose failure may leave the first of the two done.        *)
(* The closing append_memory_outcome rides with the step before it.        *)
(* What the model can not tell apart is left to a choice: what the curator *)
(* answers, whether write-dedup drops it, whether the index call fails.    *)
(***************************************************************************)
EXTENDS SessionStore

CONSTANTS
    ConsolidationThreshold,   \* memory_consolidation_threshold; 0 disables it
    ConsolidationMinAge,      \* newest eligible memories kept out of a fold
    ConsolidationBatchCap,    \* most memories folded at once; 0 is unlimited
    SessionIndexCap,          \* session_memory_max_episodes; 0 is unlimited
    IndexReliable             \* FALSE: a call to the vector store may fail

ASSUME MemoryAssumption ==
    /\ ConsolidationThreshold \in Nat
    /\ ConsolidationMinAge \in Nat
    /\ ConsolidationBatchCap \in Nat
    /\ SessionIndexCap \in Nat
    /\ IndexReliable \in BOOLEAN

VARIABLES
    jobs,       \* the pending tasks of _DEFERRED_MEMORY_TASKS
    scheduled,  \* observability: the turns a job was ever scheduled for
    vectors,    \* the points of the session_memory and persona_memory collections
    lapsed      \* observability: the index_memories calls that raised or died with
                \* the process since one last went through to its end

memoryVars == <<jobs, scheduled, vectors, lapsed>>

\* scheduled: created, not yet run; curating and folding: awaiting the model;
\* indexing: a row (the curated one, or the summary of a fold) is committed, not
\* yet indexed; capping: its points are written, the cap not yet enforced;
\* marking: the summary is committed, its originals are not yet tagged;
\* unindexing: the summary is indexed, its originals still are
JobPhases == {"scheduled", "curating", "indexing", "capping", "folding", "marking",
              "unindexing"}

Job == [turn : Nat, scene : Scenes, actor : Personas, phase : JobPhases,
        written : BOOLEAN, batch : SUBSET MemoryRow,
        fresh : Nat, kind : Kinds]   \* the row last persisted, not yet indexed

Point == {"session_memory", "persona_memory"} \X Nat

MemoryTypeOK ==
    /\ jobs \in SUBSET Job
    /\ scheduled \in SUBSET Nat
    /\ vectors \in SUBSET Point
    /\ lapsed \in Nat

MemoryInit ==
    /\ jobs = {}
    /\ scheduled = {}
    /\ vectors = {}
    /\ lapsed = 0

\* _schedule_deferred_memory: the job carries the turn's own scene and persona
Schedule(turn, s, a) ==
    /\ jobs' = jobs \cup {[turn |-> turn, scene |-> s, actor |-> a, phase |-> "scheduled",
                           written |-> FALSE, batch |-> {},
                           fresh |-> 0, kind |-> "minor"]}
    /\ scheduled' = scheduled \cup {turn}

-----------------------------------------------------------------------------
(* The index: MemoryIndexer *)

\* eviction order of _enforce_session_cap: importance, then recency. At the
\* default ceiling of 3 a roll-up has importance 4; durable stands for 5.
Importance == [minor |-> 3, summary |-> 4, durable |-> 5]
Outranks(m, n) ==
    \/ Importance[m.kind] > Importance[n.kind]
    \/ m.kind = n.kind /\ m.created > n.created

\* Variant: the cap counts only the rows that were not rolled up
SurplusUnfolded(rows) ==
    LET live == {m \in rows : ~m.consolidated} IN
    {m \in live : Cardinality({n \in live : Outranks(n, m)}) >= SessionIndexCap}

\* the stored rows beyond the cap, consolidated ones counted
Surplus(rows) ==
    IF SessionIndexCap = 0 THEN {}
    ELSE {m \in rows : Cardinality({n \in rows : Outranks(n, m)}) >= SessionIndexCap}

\* from importance 4 on a memory is also kept per persona, across sessions
PointsOf(kind, id) ==
    {<<"session_memory", id>>} \cup
    (IF kind = "minor" THEN {} ELSE {<<"persona_memory", id>>})

\* Variant: unindex forgets the session collection
PersonaPointsOf(ids) == {"persona_memory"} \X ids

\* both collections' points of some memories: what unindex deletes
PointsOfAll(ids) == {"session_memory", "persona_memory"} \X ids

\* what the upserts of a row that raise may leave: nothing, or the first one done
UpsertFailures(id) == {vectors, vectors \cup {<<"session_memory", id>>}}

\* what the cap leaves of the points, over the rows as they are now
Capped(rows) == vectors \ {<<"session_memory", m.created>> : m \in Surplus(rows)}

\* what an unindex call that raises may leave of points
UnindexFailures(points, ids) == {points, points \ ({"session_memory"} \X ids)}

\* a vector-store call takes effect, or fails part way and is only logged
BestEffort(points, failures) ==
    vectors' \in {points} \cup (IF IndexReliable THEN {} ELSE failures)

-----------------------------------------------------------------------------
(* Consolidation: select_consolidatable and the threshold gate *)

Foldable(rows) == {m \in rows : m.kind = "minor" /\ ~m.consolidated}

\* the min-age window keeps the newest eligible rows out
Aged(rows) ==
    {m \in Foldable(rows) :
        Cardinality({n \in Foldable(rows) : n.created > m.created}) >= ConsolidationMinAge}

\* the oldest rows of the aged pool, up to the batch cap
Oldest(pool) ==
    IF ConsolidationBatchCap = 0 THEN pool
    ELSE {m \in pool :
            Cardinality({n \in pool : n.created < m.created}) < ConsolidationBatchCap}

\* what a consolidation pass would fold now; {} when it is not due
FoldBatch(rows) ==
    IF ConsolidationThreshold > 0 /\ Cardinality(Aged(rows)) >= ConsolidationThreshold
    THEN Oldest(Aged(rows)) ELSE {}

\* candidates[0]: the first row of the batch, oldest first
First(batch) == CHOOSE m \in batch : \A n \in batch : m.created <= n.created
EarliestSource(batch) == CHOOSE t \in {m.source : m \in batch} :
                            \A m \in batch : t <= m.source

-----------------------------------------------------------------------------
(* The job's steps *)

Replace(j, k) == jobs' = (jobs \ {j}) \cup {k}

\* Variant: a job that stays registered after its last step
KeepJob(j, written) ==
    /\ jobs' = jobs
    /\ AppendMemoryOutcome(j.turn, written)

\* run_deferred_memory's last call, then the task leaves the set
EndJob(j, written) ==
    /\ jobs' = jobs \ {j}
    /\ AppendMemoryOutcome(j.turn, written)

\* consolidate_if_needed up to its await: the candidates are read here and
\* used after the model has answered
Consolidate(j, written, rows) ==
    LET batch == FoldBatch(rows)
    IN IF batch = {}
       THEN EndJob(j, written)
       ELSE /\ Replace(j, [j EXCEPT !.phase = "folding", !.written = written, !.batch = batch])
            /\ UNCHANGED turns

\* The session row is gone: resume_session raises and the task is logged
AbandonJob(j) ==
    /\ j.phase = "scheduled"
    /\ ~SessionLive
    /\ jobs' = jobs \ {j}
    /\ UNCHANGED <<storeVars, scheduled, vectors, lapsed>>

\* run_deferred_memory up to the curator's await
StartCuration(j) ==
    /\ j.phase = "scheduled"
    /\ SessionLive
    /\ Replace(j, [j EXCEPT !.phase = "curating"])
    /\ UNCHANGED <<storeVars, scheduled, vectors, lapsed>>

\* automatic gating finds no durable-event signal: no curator call
GateCuration(j) ==
    /\ j.phase = "scheduled"
    /\ SessionLive
    /\ Consolidate(j, FALSE, memories)
    /\ UNCHANGED <<session, memories, turnSeq, clock, scheduled, vectors, lapsed>>

\* the curator answered with nothing to keep, its answer was a duplicate, it
\* failed with no deterministic fallback, or the insert hit a deleted session
CurateNothing(j) ==
    /\ j.phase = "curating"
    /\ Consolidate(j, FALSE, memories)
    /\ UNCHANGED <<session, memories, turnSeq, clock, scheduled, vectors, lapsed>>

\* Variant: the write takes scene and persona from the live session row
CurateMemoryLiveFields(j, kind) ==
    /\ j.phase = "curating"
    /\ SessionLive
    /\ AppendMemory(j.turn, session.scene, session.persona, kind, {})
    /\ Replace(j, [j EXCEPT !.phase = "indexing", !.fresh = clock + 1, !.kind = kind])
    /\ UNCHANGED <<session, turns, turnSeq, scheduled, vectors, lapsed>>

\* _persist_and_index, its commit: stamp the source turn, insert
CurateMemory(j, kind) ==
    /\ j.phase = "curating"
    /\ SessionLive
    /\ AppendMemory(j.turn, j.scene, j.actor, kind, {})
    /\ Replace(j, [j EXCEPT !.phase = "indexing", !.fresh = clock + 1, !.kind = kind])
    /\ UNCHANGED <<session, turns, turnSeq, scheduled, vectors, lapsed>>

\* an index_memories call raises: _persist_and_index notes it and goes on to the
\* consolidation pass, _persist_consolidation leaves the rest of its mirror undone
IndexRaises(j) ==
    /\ ~IndexReliable
    /\ lapsed' = lapsed + 1
    /\ IF j.kind = "summary" THEN EndJob(j, j.written) ELSE Consolidate(j, TRUE, memories)

\* index_memories, its upserts
UpsertMemory(j) ==
    /\ j.phase = "indexing"
    /\ \/ /\ vectors' = vectors \cup PointsOf(j.kind, j.fresh)
          /\ Replace(j, [j EXCEPT !.phase = "capping"])
          /\ UNCHANGED <<turns, lapsed>>
       \/ /\ vectors' \in UpsertFailures(j.fresh)
          /\ IndexRaises(j)
    /\ UNCHANGED <<session, memories, turnSeq, clock, scheduled>>

\* index_memories, its _enforce_session_cap: rows read and points deleted
EnforceCap(j) ==
    /\ j.phase = "capping"
    /\ \/ /\ vectors' = Capped(memories)
          /\ lapsed' = 0
          /\ IF j.kind = "summary"
             THEN Replace(j, [j EXCEPT !.phase = "unindexing"]) /\ UNCHANGED turns
             ELSE Consolidate(j, TRUE, memories)
       \/ /\ IndexRaises(j)
          /\ UNCHANGED vectors
    /\ UNCHANGED <<session, memories, turnSeq, clock, scheduled>>

\* _persist_consolidation, first commit: the summary row
PersistSummary(j) ==
    /\ j.phase = "folding"
    /\ SessionLive
    /\ AppendMemory(EarliestSource(j.batch), First(j.batch).scene, First(j.batch).actor,
                    "summary", {m.created : m \in j.batch})
    /\ Replace(j, [j EXCEPT !.phase = "marking", !.fresh = clock + 1, !.kind = "summary"])
    /\ UNCHANGED <<session, turns, turnSeq, scheduled, vectors, lapsed>>

\* the summary's insert hits a deleted session: a warning, no row
SkipSummary(j) ==
    /\ j.phase = "folding"
    /\ ~SessionLive
    /\ EndJob(j, j.written)
    /\ UNCHANGED <<session, memories, turnSeq, clock, scheduled, vectors, lapsed>>

\* Variant: the tag goes to the backlog as it is when the summary is stored
MarkBacklog(j) ==
    /\ j.phase = "marking"
    /\ MarkConsolidated({m.created : m \in Foldable(memories)})
    /\ Replace(j, [j EXCEPT !.phase = "indexing"])
    /\ UNCHANGED <<session, turns, turnSeq, clock, scheduled, vectors, lapsed>>

\* _persist_consolidation, second commit: the originals are tagged
MarkFolded(j) ==
    /\ j.phase = "marking"
    /\ MarkConsolidated({m.created : m \in j.batch})
    /\ Replace(j, [j EXCEPT !.phase = "indexing"])
    /\ UNCHANGED <<session, turns, turnSeq, clock, scheduled, vectors, lapsed>>

\* _persist_consolidation, the end of its best-effort mirror: the summary is
\* indexed, its originals are unindexed
UnindexFolded(j) ==
    LET ids == {m.created : m \in j.batch} IN
    /\ j.phase = "unindexing"
    /\ BestEffort(vectors \ PointsOfAll(ids), UnindexFailures(vectors, ids))
    /\ EndJob(j, j.written)
    /\ UNCHANGED <<session, memories, turnSeq, clock, scheduled, lapsed>>
=============================================================================
