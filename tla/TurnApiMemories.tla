--------------------------- MODULE TurnApiMemories ---------------------------
(***************************************************************************)
(* The memories a turn leaves behind, for every number of requests,        *)
(* rerolls, jobs and crashes, in two parts.                                *)
(*                                                                         *)
(* Who owes what: every memory comes from one job, every job from one      *)
(* request, and a reroll that has drained knows that no job it knew of can *)
(* write again.  Hence memory provenance, the drain's guarantee and no     *)
(* orphan.                                                                 *)
(*                                                                         *)
(* The vector index against the store.  A row is committed before its      *)
(* point is written and folded before its points are deleted, so between   *)
(* two statements the index lags; since one coroutine runs at a time, it   *)
(* lags by what the one running job or reroll has yet to do (IndexInStep), *)
(* and by nothing when none runs.  The cap is enforced in a call of its    *)
(* own, which may fail or never come: the points of stored rows exceed it  *)
(* by one for each call that did (IndexWithinCap).                         *)
(***************************************************************************)
EXTENDS TurnApiHistory

\* a job that may still write its turn's memory
Owing == {"scheduled", "curating"}

Stored == {"activity", "diagnostics", "ready"}

-----------------------------------------------------------------------------
(* Most steps are quiet: nobody owes more after them than before *)

JobsShrink ==
    /\ \A k \in jobs' : \E j \in jobs :
          /\ k.turn = j.turn /\ k.scene = j.scene /\ k.actor = j.actor
          /\ k.phase \in Owing => j.phase \in Owing
    /\ \A k, l \in jobs' : k.turn = l.turn => k = l

MemoriesShrink ==
    /\ \A m \in Episodic' : \E n \in Episodic :
          /\ m.created = n.created /\ m.source = n.source
          /\ m.scene = n.scene /\ m.actor = n.actor
    /\ \A m, n \in Episodic' : m.source = n.source => m = n

TurnsShrink == \A t \in turns' : \E u \in turns : t.id = u.id /\ t.created = u.created

RequestsRest ==
    \A r \in Requests :
        /\ req'[r].turn = req[r].turn
        /\ req[r].turn # 0 => /\ req'[r].scene = req[r].scene
                              /\ req'[r].persona = req[r].persona
                              /\ req'[r].outcome = req[r].outcome
        /\ req'[r].pc \in {"new", "generating"} => req[r].pc \in {"new", "generating"}
        /\ req'[r].pc \in Stored => req[r].pc \in Stored

RerollsRest ==
    \A d \in Rerolls :
        /\ rerolls'[d].known = rerolls[d].known
        /\ rerolls'[d].waiting = rerolls[d].waiting
        /\ rerolls'[d].row = rerolls[d].row
        /\ rerolls'[d].pc = rerolls[d].pc \/ rerolls'[d].pc \in {"lost", "refused"}

CountersMove == turnSeq' = turnSeq /\ clock' \in Nat /\ clock <= clock' /\ scheduled' = scheduled

\* A step that leaves the requests' and the jobs' turns alone keeps them owned.
LEMMA JobsShrinkKeep ==
    ASSUME OwnInv, TypeInv, TypeInv', JobsShrink, MemoriesShrink, TurnsShrink, RequestsRest, RerollsRest,
           CountersMove
    PROVE  OwnInv'
<1>1. RequestsOwnTurns /\ JobsOwnTurns /\ MemoriesOwnTurns /\ DrainsKnown /\ DrainedRerollLeavesNothing
  BY DEF OwnInv
<1>2. RequestsOwnTurns'
  BY <1>1 DEF RequestsOwnTurns, RequestsRest, CountersMove, Stored
<1>3. \A n \in scheduled : n # 0
  BY <1>1 DEF RequestsOwnTurns
<1>4. JobsOwnTurns'
  <2>1. \A k \in jobs' : k.turn \in scheduled'
    BY <1>1 DEF JobsOwnTurns, JobsShrink, CountersMove
  <2>2. ASSUME NEW k \in jobs', NEW r \in Requests, req'[r].turn = k.turn
        PROVE  k.scene = req'[r].scene /\ k.actor = req'[r].persona
    <3>1. PICK j \in jobs : k.turn = j.turn /\ k.scene = j.scene /\ k.actor = j.actor
      BY DEF JobsShrink
    <3>2. req[r].turn = j.turn /\ j.turn # 0
      BY <1>1, <1>3, <2>2, <3>1 DEF JobsOwnTurns, RequestsRest
    <3>3. QED
      BY <1>1, <3>1, <3>2 DEF JobsOwnTurns, RequestsRest
  <2>3. ASSUME NEW k \in jobs', k.phase \in {"scheduled", "curating"}, NEW m \in Episodic'
        PROVE  m.source # k.turn
    <3>1. PICK j \in jobs : k.turn = j.turn /\ j.phase \in Owing
      BY <2>3 DEF JobsShrink, Owing
    <3>2. PICK n \in Episodic : m.source = n.source
      BY DEF MemoriesShrink
    <3>3. QED
      BY <1>1, <3>1, <3>2 DEF JobsOwnTurns, Owing
  <2>4. QED
    BY <2>1, <2>2, <2>3 DEF JobsOwnTurns, JobsShrink
<1>5. MemoriesOwnTurns'
  <2>1. ASSUME NEW m \in Episodic'
        PROVE  m.source \in scheduled'
    BY <1>1 DEF MemoriesOwnTurns, MemoriesShrink, CountersMove
  <2>2. ASSUME NEW m \in Episodic', NEW r \in Requests, req'[r].turn = m.source
        PROVE  m.scene = req'[r].scene /\ m.actor = req'[r].persona
    <3>1. PICK n \in Episodic : m.source = n.source /\ m.scene = n.scene /\ m.actor = n.actor
      BY DEF MemoriesShrink
    <3>2. req[r].turn = n.source /\ n.source # 0
      BY <1>1, <1>3, <2>2, <3>1 DEF MemoriesOwnTurns, RequestsRest
    <3>3. QED
      BY <1>1, <3>1, <3>2 DEF MemoriesOwnTurns, RequestsRest
  <2>3. ASSUME NEW m \in Episodic', NEW t \in turns', t.id = m.source
        PROVE  t.created <= m.created
    BY <1>1, <2>3 DEF MemoriesOwnTurns, MemoriesShrink, TurnsShrink
  <2>4. ASSUME NEW m \in Episodic', NEW d \in Rerolls,
               rerolls'[d].pc \in {"restoring", "sweeping"}, rerolls'[d].row.id = m.source
        PROVE  rerolls'[d].row.created <= m.created
    BY <1>1, <2>4 DEF MemoriesOwnTurns, MemoriesShrink, RerollsRest
  <2>5. QED
    BY <2>1, <2>2, <2>3, <2>4 DEF MemoriesOwnTurns, MemoriesShrink
<1>6. PendingTurns' \subseteq PendingTurns
  BY DEF PendingTurns, JobsShrink
<1>7. DrainsKnown'
  <2>1. ASSUME NEW d \in Rerolls, rerolls'[d].pc \in {"restoring", "sweeping"}
        PROVE  rerolls'[d].row.created <= clock'
    <3>1. rerolls[d].row.created <= clock
      BY <1>1, <2>1 DEF DrainsKnown, RerollsRest
    <3>2. rerolls[d].row.created \in Nat /\ clock \in Nat /\ clock' \in Nat
      BY DEF TypeInv, TypeOK, StoreTypeOK, Reroll, TurnRow
    <3>3. QED
      BY <3>1, <3>2 DEF RerollsRest, CountersMove
  <2>2. QED
    BY <1>1, <1>6, <2>1 DEF DrainsKnown, RerollsRest, CountersMove
<1>8. DrainedRerollLeavesNothing'
  BY <1>1 DEF DrainedRerollLeavesNothing, RerollsRest, MemoriesShrink
<1>9. QED
  BY <1>2, <1>4, <1>5, <1>7, <1>8 DEF OwnInv

\* What most steps leave alone is at rest.
LEMMA AtRest ==
    /\ UNCHANGED req => RequestsRest
    /\ UNCHANGED rerolls => RerollsRest
    /\ TypeInv /\ UNCHANGED <<turnSeq, clock, scheduled>> => CountersMove
    /\ JobsOwnTurns /\ UNCHANGED jobs => JobsShrink
    /\ JobsOwnTurns /\ jobs' \subseteq jobs => JobsShrink
    /\ MemoriesOwnTurns /\ UNCHANGED memories => MemoriesShrink
    /\ MemoriesOwnTurns /\ memories' \subseteq memories => MemoriesShrink
    /\ turns' \subseteq turns \/ SameTurns => TurnsShrink
<1>1. UNCHANGED req => RequestsRest
  BY DEF RequestsRest
<1>2. UNCHANGED rerolls => RerollsRest
  BY DEF RerollsRest
<1>3. TypeInv /\ UNCHANGED <<turnSeq, clock, scheduled>> => CountersMove
  BY DEF TypeInv, TypeOK, StoreTypeOK, CountersMove
<1>4. JobsOwnTurns /\ jobs' \subseteq jobs => JobsShrink
  BY DEF JobsOwnTurns, JobsShrink
<1>5. MemoriesOwnTurns /\ memories' \subseteq memories => MemoriesShrink
  BY DEF MemoriesOwnTurns, MemoriesShrink, Episodic
<1>6. turns' \subseteq turns \/ SameTurns => TurnsShrink
  BY DEF TurnsShrink, SameTurns, SameTurn
<1>7. QED
  BY <1>1, <1>2, <1>3, <1>4, <1>5, <1>6

\* A job that moves on keeps its turn, and owes no more than before.
LEMMA ReplaceShrinks ==
    ASSUME JobsOwnTurns, NEW j \in jobs, NEW k, Replace(j, k),
           k.turn = j.turn, k.scene = j.scene, k.actor = j.actor,
           k.phase \in Owing => j.phase \in Owing
    PROVE  JobsShrink
BY DEF JobsOwnTurns, JobsShrink, Replace

-----------------------------------------------------------------------------
(* The steps of a job *)

LEMMA ConsolidateShrinks ==
    ASSUME TypeInv, JobsOwnTurns, NEW j \in jobs, NEW w \in BOOLEAN, Consolidate(j, w, memories)
    PROVE  JobsShrink /\ TurnsShrink
<1>1. StoreTypeOK /\ j \in Job
  BY DEF TypeInv, TypeOK, MemoryTypeOK
<1>2. CASE EndJob(j, w)
  <2>1. jobs' \subseteq jobs /\ AppendMemoryOutcome(j.turn, w)
    BY <1>2 DEF EndJob
  <2>2. SameTurns
    BY <1>1, <2>1, DiagnosticsKeepTurns
  <2>3. QED
    BY <2>1, <2>2, AtRest
<1>3. ASSUME NEW batch,
             Replace(j, [j EXCEPT !.phase = "folding", !.written = w, !.batch = batch]),
             UNCHANGED turns
      PROVE  JobsShrink /\ TurnsShrink
  <2> DEFINE k == [j EXCEPT !.phase = "folding", !.written = w, !.batch = batch]
  <2>1. /\ k.turn = j.turn /\ k.scene = j.scene /\ k.actor = j.actor
        /\ k.phase = "folding" /\ Replace(j, k)
    BY <1>1, <1>3 DEF Job
  <2> HIDE DEF k
  <2>2. JobsShrink
    BY <2>1, ReplaceShrinks DEF Owing
  <2>3. QED
    BY <1>3, <2>2, AtRest
<1>4. QED
  BY <1>2, <1>3 DEF Consolidate

\* _persist_consolidation writes a summary, which is nobody's episodic memory.
LEMMA SummaryShrinks ==
    ASSUME MemoriesOwnTurns, NEW n, NEW s, NEW a, NEW S, AppendMemory(n, s, a, "summary", S)
    PROVE  MemoriesShrink
<1>1. Episodic' = Episodic
  BY DEF AppendMemory, Episodic
<1>2. QED
  BY <1>1 DEF MemoriesOwnTurns, MemoriesShrink

\* Tagging folded rows moves no memory to another turn.
LEMMA MarkShrinks ==
    ASSUME TypeInv, MemoriesOwnTurns, NEW ids, MarkConsolidated(ids)
    PROVE  MemoriesShrink
<1> DEFINE f == [m \in memories |->
                   IF m.created \in ids THEN [m EXCEPT !.consolidated = TRUE] ELSE m]
<1>1. \A m \in memories : /\ f[m].created = m.created /\ f[m].source = m.source
                          /\ f[m].scene = m.scene /\ f[m].actor = m.actor
                          /\ f[m].kind = m.kind
  BY DEF TypeInv, TypeOK, StoreTypeOK, MemoryRow
<1>2. memories' = {f[m] : m \in memories}
  BY DEF MarkConsolidated
<1> HIDE DEF f
<1>3. \A m \in Episodic' : \E n \in Episodic : m = f[n] /\ n \in memories
  BY <1>1, <1>2 DEF Episodic
<1>4. ASSUME NEW m \in Episodic', NEW n \in Episodic', m.source = n.source
      PROVE  m = n
  <2>1. PICK m0 \in Episodic : m = f[m0] /\ m0 \in memories
    BY <1>3
  <2>2. PICK n0 \in Episodic : n = f[n0] /\ n0 \in memories
    BY <1>3
  <2>3. m0 = n0
    BY <1>1, <1>4, <2>1, <2>2 DEF MemoriesOwnTurns
  <2>4. QED
    BY <2>1, <2>2, <2>3
<1>5. QED
  BY <1>1, <1>3, <1>4 DEF MemoriesShrink

\* Every job step but the curated write is quiet.
LEMMA QuietJobStep ==
    ASSUME TypeInv, OwnInv, NEW j \in jobs,
           \/ AbandonJob(j) \/ StartCuration(j) \/ GateCuration(j) \/ CurateNothing(j)
           \/ UpsertMemory(j) \/ EnforceCap(j) \/ PersistSummary(j) \/ SkipSummary(j)
           \/ MarkFolded(j) \/ UnindexFolded(j)
    PROVE  JobsShrink /\ MemoriesShrink /\ TurnsShrink /\ CountersMove
<1>1. JobsOwnTurns /\ MemoriesOwnTurns /\ StoreTypeOK /\ j \in Job
  BY DEF OwnInv, TypeInv, TypeOK, MemoryTypeOK
<1>2. CASE AbandonJob(j)
  BY <1>1, <1>2, AtRest DEF AbandonJob, storeVars
<1>3. CASE StartCuration(j)
  <2> DEFINE k == [j EXCEPT !.phase = "curating"]
  <2>1. /\ j.phase = "scheduled" /\ Replace(j, k)
        /\ UNCHANGED <<turns, memories, turnSeq, clock, scheduled>>
    BY <1>3 DEF StartCuration, storeVars
  <2>2. k.turn = j.turn /\ k.scene = j.scene /\ k.actor = j.actor
    BY <1>1 DEF Job
  <2>3. JobsShrink
    <3> HIDE DEF k
    <3>1. QED
      BY <1>1, <2>1, <2>2, ReplaceShrinks DEF Owing
  <2>4. QED
    BY <1>1, <2>1, <2>3, AtRest
<1>4. CASE GateCuration(j) \/ CurateNothing(j)
  <2>1. /\ Consolidate(j, FALSE, memories)
        /\ UNCHANGED <<memories, turnSeq, clock, scheduled>>
    BY <1>4 DEF GateCuration, CurateNothing
  <2>2. JobsShrink /\ TurnsShrink
    BY <1>1, <2>1, ConsolidateShrinks
  <2>3. QED
    BY <1>1, <2>1, <2>2, AtRest
<1>5. CASE UpsertMemory(j) \/ EnforceCap(j)
  <2>1. /\ j.phase \in {"indexing", "capping"}
        /\ UNCHANGED <<memories, turnSeq, clock, scheduled>>
        /\ \/ \E phase \in {"capping", "unindexing"} :
                 Replace(j, [j EXCEPT !.phase = phase]) /\ UNCHANGED turns
           \/ \E w \in BOOLEAN : EndJob(j, w)
           \/ Consolidate(j, TRUE, memories)
    BY <1>1, <1>5 DEF UpsertMemory, EnforceCap, IndexRaises, Job
  <2>2. ASSUME NEW phase \in {"capping", "unindexing"},
               Replace(j, [j EXCEPT !.phase = phase]), UNCHANGED turns
        PROVE  JobsShrink /\ TurnsShrink
    <3> DEFINE k == [j EXCEPT !.phase = phase]
    <3>1. k.turn = j.turn /\ k.scene = j.scene /\ k.actor = j.actor /\ k.phase = phase
      BY <1>1 DEF Job
    <3>2. Replace(j, k)
      BY <2>2
    <3> HIDE DEF k
    <3>3. k.phase \notin Owing
      BY <3>1 DEF Owing
    <3>4. QED
      BY <1>1, <2>2, <3>1, <3>2, <3>3, ReplaceShrinks, AtRest
  <2>3. ASSUME NEW w \in BOOLEAN, EndJob(j, w)  PROVE JobsShrink /\ TurnsShrink
    <3>1. jobs' \subseteq jobs /\ SameTurns
      BY <1>1, <2>3, DiagnosticsKeepTurns DEF EndJob
    <3>2. QED
      BY <1>1, <3>1, AtRest
  <2>4. JobsShrink /\ TurnsShrink
    BY <1>1, <2>1, <2>2, <2>3, ConsolidateShrinks
  <2>5. QED
    BY <1>1, <2>1, <2>4, AtRest
<1>6. CASE PersistSummary(j)
  <2> DEFINE k == [j EXCEPT !.phase = "marking", !.fresh = clock + 1, !.kind = "summary"]
  <2>1. /\ \E n, s, a, S : AppendMemory(n, s, a, "summary", S)
        /\ Replace(j, k)
        /\ UNCHANGED <<turns, turnSeq, scheduled>>
    BY <1>6 DEF PersistSummary
  <2>2. MemoriesShrink
    BY <1>1, <2>1, SummaryShrinks
  <2>3. /\ k.turn = j.turn /\ k.scene = j.scene /\ k.actor = j.actor /\ k.phase = "marking"
    BY <1>1 DEF Job
  <2>4. JobsShrink
    <3> HIDE DEF k
    <3>1. QED
      BY <1>1, <2>1, <2>3, ReplaceShrinks DEF Owing
  <2>5. CountersMove
    BY <1>1, <2>1 DEF AppendMemory, CountersMove, StoreTypeOK
  <2>6. QED
    BY <2>1, <2>2, <2>4, <2>5, AtRest
<1>7. CASE SkipSummary(j) \/ UnindexFolded(j)
  <2>1. /\ jobs' \subseteq jobs /\ AppendMemoryOutcome(j.turn, j.written)
        /\ UNCHANGED <<memories, turnSeq, clock, scheduled>>
    BY <1>7 DEF SkipSummary, UnindexFolded, EndJob
  <2>2. SameTurns
    BY <1>1, <2>1, DiagnosticsKeepTurns
  <2>3. QED
    BY <1>1, <2>1, <2>2, AtRest
<1>8. CASE MarkFolded(j)
  <2> DEFINE k == [j EXCEPT !.phase = "indexing"]
  <2>1. /\ \E ids : MarkConsolidated(ids)
        /\ Replace(j, k)
        /\ UNCHANGED <<turns, turnSeq, clock, scheduled>>
    BY <1>8 DEF MarkFolded
  <2>2. /\ k.turn = j.turn /\ k.scene = j.scene /\ k.actor = j.actor /\ k.phase = "indexing"
    BY <1>1 DEF Job
  <2>3. JobsShrink
    <3> HIDE DEF k
    <3>1. QED
      BY <1>1, <2>1, <2>2, ReplaceShrinks DEF Owing
  <2>4. QED
    BY <1>1, <2>1, <2>3, MarkShrinks, AtRest
<1>9. QED
  BY <1>2, <1>3, <1>4, <1>5, <1>6, <1>7, <1>8

\* The curated write: the job owed its turn a memory, nobody else does.
LEMMA CurateKeepsOwners ==
    ASSUME TypeInv, TypeInv', OwnInv, NEW j \in jobs, NEW kind \in {"minor", "durable"},
           CurateMemory(j, kind), UNCHANGED <<req, rerolls>>
    PROVE  OwnInv'
<1> DEFINE k == [j EXCEPT !.phase = "indexing", !.fresh = clock + 1, !.kind = kind]
           row == [created |-> clock + 1, source |-> j.turn, scene |-> j.scene,
                   actor |-> j.actor, kind |-> kind, consolidated |-> FALSE, sources |-> {}]
<1>1. RequestsOwnTurns /\ JobsOwnTurns /\ MemoriesOwnTurns /\ DrainsKnown /\ DrainedRerollLeavesNothing
  BY DEF OwnInv
<1>2. /\ j.phase = "curating" /\ memories' = memories \cup {row} /\ clock' = clock + 1
      /\ Replace(j, k) /\ UNCHANGED <<turns, turnSeq, scheduled>>
  BY DEF CurateMemory, AppendMemory
<1>3. /\ k.turn = j.turn /\ k.scene = j.scene /\ k.actor = j.actor /\ k.phase = "indexing"
  BY DEF TypeInv, TypeOK, MemoryTypeOK, Job
<1>4. /\ row.created = clock + 1 /\ row.source = j.turn /\ row.scene = j.scene
      /\ row.actor = j.actor /\ row.kind # "summary"
  OBVIOUS
<1>5. clock \in Nat /\ \A t \in turns : t.created \in Nat /\ t.created <= clock
  BY DEF TypeInv, TypeOK, StoreTypeOK, TurnRow, RowsBounded
<1>6. j.turn \in scheduled /\ \A m \in Episodic : m.source # j.turn
  BY <1>1, <1>2 DEF JobsOwnTurns
<1> HIDE DEF k, row
<1>7. JobsShrink
  BY <1>1, <1>2, <1>3, ReplaceShrinks DEF Owing
<1>8. Episodic' = Episodic \cup {row}
  BY <1>2, <1>4 DEF Episodic
<1>9. RequestsOwnTurns'
  BY <1>1, <1>2 DEF RequestsOwnTurns
<1>10. JobsOwnTurns'
  <2>1. \A l \in jobs' : l.turn \in scheduled'
    BY <1>1, <1>2, <1>7 DEF JobsShrink, JobsOwnTurns
  <2>2. \A l \in jobs', r \in Requests :
           req'[r].turn = l.turn => l.scene = req'[r].scene /\ l.actor = req'[r].persona
    BY <1>1, <1>7 DEF JobsShrink, JobsOwnTurns
  <2>3. ASSUME NEW l \in jobs', l.phase \in {"scheduled", "curating"}, NEW m \in Episodic'
        PROVE  m.source # l.turn
    <3>1. l \in jobs /\ l # j
      BY <1>2, <1>3, <2>3 DEF Replace
    <3>2. l.turn # j.turn
      BY <1>1, <3>1 DEF JobsOwnTurns
    <3>3. QED
      BY <1>1, <1>4, <1>8, <2>3, <3>1, <3>2 DEF JobsOwnTurns
  <2>4. QED
    BY <1>7, <2>1, <2>2, <2>3 DEF JobsOwnTurns, JobsShrink
<1>11. MemoriesOwnTurns'
  <2>1. \A m \in Episodic' : m.source \in scheduled'
    BY <1>1, <1>2, <1>4, <1>6, <1>8 DEF MemoriesOwnTurns
  <2>2. \A m \in Episodic', r \in Requests :
           req'[r].turn = m.source => m.scene = req'[r].scene /\ m.actor = req'[r].persona
    BY <1>1, <1>4, <1>8 DEF MemoriesOwnTurns, JobsOwnTurns
  <2>3. \A m, n \in Episodic' : m.source = n.source => m = n
    BY <1>1, <1>4, <1>6, <1>8 DEF MemoriesOwnTurns
  <2>4. \A m \in Episodic', t \in turns' : t.id = m.source => t.created <= m.created
    BY <1>1, <1>2, <1>4, <1>5, <1>8 DEF MemoriesOwnTurns
  <2>5. ASSUME NEW m \in Episodic', NEW d \in Rerolls,
               rerolls'[d].pc \in {"restoring", "sweeping"}, rerolls'[d].row.id = m.source
        PROVE  rerolls'[d].row.created <= m.created
    <3>1. rerolls[d].row.created <= clock /\ rerolls[d].row.created \in Nat
      BY <1>1, <2>5 DEF DrainsKnown, TypeInv, TypeOK, Reroll, TurnRow
    <3>2. QED
      BY <1>1, <1>4, <1>5, <1>8, <2>5, <3>1 DEF MemoriesOwnTurns
  <2>6. QED
    BY <2>1, <2>2, <2>3, <2>4, <2>5 DEF MemoriesOwnTurns
<1>12. PendingTurns' \subseteq PendingTurns /\ j.turn \in PendingTurns
  BY <1>7 DEF PendingTurns, JobsShrink
<1>13. DrainsKnown'
  <2>1. ASSUME NEW d \in Rerolls, rerolls[d].pc \in {"restoring", "sweeping"}
        PROVE  rerolls[d].row.created <= clock'
    <3>1. rerolls[d].row.created <= clock /\ rerolls[d].row.created \in Nat
      BY <1>1, <2>1 DEF DrainsKnown, TypeInv, TypeOK, Reroll, TurnRow
    <3>2. QED
      BY <1>2, <1>5, <3>1
  <2>2. QED
    BY <1>1, <1>2, <1>12, <2>1 DEF DrainsKnown
<1>14. DrainedRerollLeavesNothing'
  BY <1>1, <1>4, <1>8, <1>12 DEF DrainedRerollLeavesNothing, DrainsKnown
<1>15. QED
  BY <1>9, <1>10, <1>11, <1>13, <1>14 DEF OwnInv

-----------------------------------------------------------------------------
(* The steps of a request *)

\* append_turn gives the request a turn nobody else has, and owes no job yet.
LEMMA PersistKeepsOwners ==
    ASSUME TypeInv, OwnInv, NEW r \in Requests, NEW o \in Outcomes, SessionLive,
           PersistTurn(r, o)
    PROVE  OwnInv'
<1>1. RequestsOwnTurns /\ JobsOwnTurns /\ MemoriesOwnTurns /\ DrainsKnown /\ DrainedRerollLeavesNothing
  BY DEF OwnInv
<1>2. /\ req[r].pc = "generating"
      /\ AppendTurn(req[r].scene, req[r].persona, o)
      /\ req' = [req EXCEPT ![r].pc = "activity", ![r].outcome = o, ![r].turn = turnSeq + 1]
      /\ UNCHANGED <<memories, jobs, scheduled, rerolls>>
  BY DEF PersistTurn, memoryVars
<1>3. /\ turnSeq \in Nat /\ clock \in Nat /\ turnSeq' = turnSeq + 1 /\ clock' = clock + 1
      /\ req \in [Requests -> Request]
  BY <1>2 DEF TypeInv, TypeOK, StoreTypeOK, AppendTurn
<1>4. /\ req'[r].turn = turnSeq + 1 /\ req'[r].pc = "activity"
      /\ \A s \in Requests : s # r => req'[s] = req[s]
  BY <1>2, <1>3 DEF Request
<1>5. \A s \in Requests : req[s].turn \in Nat /\ req[s].turn <= turnSeq
  BY <1>1, <1>3 DEF Request, RequestsOwnTurns
<1>6. req[r].turn = 0
  BY <1>1, <1>2 DEF RequestsOwnTurns
<1>7. \A n \in scheduled : n \in Nat /\ n <= turnSeq /\ n # 0
  BY <1>1, <1>5 DEF RequestsOwnTurns
<1>8. Episodic' = Episodic /\ PendingTurns' = PendingTurns
  BY <1>2 DEF Episodic, PendingTurns
<1>9. RequestsOwnTurns'
  <2>1. \A s \in Requests : req'[s].turn <= turnSeq'
    BY <1>3, <1>4, <1>5
  <2>2. \A s \in Requests : req'[s].pc \in {"new", "generating"} => req'[s].turn = 0
    BY <1>1, <1>4 DEF RequestsOwnTurns
  <2>3. ASSUME NEW s \in Requests, NEW q \in Requests,
               req'[s].turn # 0, req'[s].turn = req'[q].turn
        PROVE  s = q
    BY <1>1, <1>3, <1>4, <1>5, <2>3 DEF RequestsOwnTurns
  <2>4. ASSUME NEW s \in Requests, req'[s].pc \in {"activity", "diagnostics", "ready"}
        PROVE  req'[s].turn # 0 /\ req'[s].turn \notin scheduled'
    <3>1. CASE s = r
      <4>1. turnSeq + 1 # 0 /\ turnSeq + 1 \notin scheduled
        BY <1>3, <1>7
      <4>2. QED
        BY <1>2, <1>4, <3>1, <4>1
    <3>2. CASE s # r
      <4>1. req'[s] = req[s] /\ scheduled' = scheduled
        BY <1>2, <1>4, <3>2
      <4>2. req[s].pc \in {"activity", "diagnostics", "ready"}
        BY <2>4, <4>1
      <4>3. req[s].turn # 0 /\ req[s].turn \notin scheduled
        BY <1>1, <4>2 DEF RequestsOwnTurns
      <4>4. QED
        BY <4>1, <4>3
    <3>3. QED
      BY <3>1, <3>2
  <2>5. ASSUME NEW n \in scheduled'
        PROVE  \E s \in Requests : req'[s].turn = n /\ n # 0 /\ req'[s].outcome = "success"
    <3>1. PICK s \in Requests : req[s].turn = n /\ n # 0 /\ req[s].outcome = "success"
      BY <1>1, <1>2 DEF RequestsOwnTurns
    <3>2. s # r
      BY <1>6, <3>1
    <3>3. QED
      BY <1>4, <3>1, <3>2
  <2>6. QED
    BY <2>1, <2>2, <2>3, <2>4, <2>5 DEF RequestsOwnTurns
<1>10. ASSUME NEW n \in scheduled, NEW s \in Requests, req'[s].turn = n
       PROVE  req'[s] = req[s]
  BY <1>3, <1>4, <1>7, <1>10
<1>11. JobsOwnTurns'
  <2>1. ASSUME NEW j \in jobs', NEW s \in Requests, req'[s].turn = j.turn
        PROVE  j.scene = req'[s].scene /\ j.actor = req'[s].persona
    <3>1. j \in jobs /\ j.turn \in scheduled
      BY <1>1, <1>2 DEF JobsOwnTurns
    <3>2. req'[s] = req[s]
      BY <1>10, <2>1, <3>1
    <3>3. QED
      BY <1>1, <2>1, <3>1, <3>2 DEF JobsOwnTurns
  <2>2. QED
    BY <1>1, <1>2, <1>8, <2>1 DEF JobsOwnTurns
<1>12. MemoriesOwnTurns'
  <2>1. ASSUME NEW m \in Episodic', NEW s \in Requests, req'[s].turn = m.source
        PROVE  m.scene = req'[s].scene /\ m.actor = req'[s].persona
    BY <1>1, <1>8, <1>10, <2>1 DEF MemoriesOwnTurns
  <2>2. ASSUME NEW m \in Episodic', NEW t \in turns', t.id = m.source
        PROVE  t.created <= m.created
    <3>1. m \in Episodic /\ m.source \in scheduled
      BY <1>1, <1>8 DEF MemoriesOwnTurns
    <3>2. t \in turns
      <4>1. t \in turns \/ t.id = turnSeq + 1
        BY <1>2 DEF AppendTurn
      <4>2. QED
        BY <1>3, <1>7, <2>2, <3>1, <4>1
    <3>3. QED
      BY <1>1, <2>2, <3>1, <3>2 DEF MemoriesOwnTurns
  <2>3. QED
    BY <1>1, <1>2, <1>8, <2>1, <2>2 DEF MemoriesOwnTurns
<1>13. DrainsKnown'
  <2>1. ASSUME NEW d \in Rerolls, rerolls[d].pc \in {"restoring", "sweeping"}
        PROVE  rerolls[d].row.created <= clock'
    <3>1. rerolls[d].row.created <= clock /\ rerolls[d].row.created \in Nat
      BY <1>1, <2>1 DEF DrainsKnown, TypeInv, TypeOK, Reroll, TurnRow
    <3>2. QED
      BY <1>3, <3>1
  <2>2. QED
    BY <1>1, <1>2, <1>8, <2>1 DEF DrainsKnown
<1>14. DrainedRerollLeavesNothing'
  BY <1>1, <1>2, <1>8 DEF DrainedRerollLeavesNothing
<1>15. QED
  BY <1>9, <1>11, <1>12, <1>13, <1>14 DEF OwnInv

\* Scheduling the job of a turn that owes one: no reroll knew of it, no memory
\* came of it, and the request is done with it.
LEMMA ScheduleKeepsOwners ==
    ASSUME TypeInv, OwnInv, NEW r \in Requests, req[r].pc \in Stored,
           req[r].outcome = "success",
           Schedule(req[r].turn, req[r].scene, req[r].persona),
           RequestsRest, req'[r].pc \notin Stored, req'[r].turn = req[r].turn,
           TurnsShrink, UNCHANGED <<memories, turnSeq, clock, rerolls>>
    PROVE  OwnInv'
<1> DEFINE n == req[r].turn
           k == [turn |-> n, scene |-> req[r].scene, actor |-> req[r].persona,
                 phase |-> "scheduled", written |-> FALSE, batch |-> {}, fresh |-> 0,
                 kind |-> "minor"]
<1>1. RequestsOwnTurns /\ JobsOwnTurns /\ MemoriesOwnTurns /\ DrainsKnown /\ DrainedRerollLeavesNothing
  BY DEF OwnInv
<1>2. jobs' = jobs \cup {k} /\ scheduled' = scheduled \cup {n}
  BY DEF Schedule
<1>3. k.turn = n /\ k.scene = req[r].scene /\ k.actor = req[r].persona
  OBVIOUS
<1>4. n # 0 /\ n \notin scheduled
  BY <1>1 DEF RequestsOwnTurns, Stored
<1>5. \A s \in Requests : req[s].turn = n => s = r
  BY <1>1, <1>4 DEF RequestsOwnTurns
<1> HIDE DEF k
<1>6. Episodic' = Episodic /\ \A m \in Episodic : m.source # n
  BY <1>1, <1>4 DEF Episodic, MemoriesOwnTurns
<1>7. PendingTurns' = PendingTurns \cup {n} /\ PendingTurns \subseteq scheduled
  BY <1>1, <1>2, <1>3 DEF PendingTurns, JobsOwnTurns
<1>8. RequestsOwnTurns'
  <2>1. ASSUME NEW s \in Requests, req'[s].pc \in {"activity", "diagnostics", "ready"}
        PROVE  req'[s].turn # 0 /\ req'[s].turn \notin scheduled'
    <3>1. s # r /\ req[s].pc \in Stored /\ req'[s].turn = req[s].turn
      BY <2>1 DEF RequestsRest, Stored
    <3>2. QED
      BY <1>1, <1>2, <1>5, <3>1 DEF RequestsOwnTurns, Stored
  <2>2. ASSUME NEW i \in scheduled'
        PROVE  \E s \in Requests : req'[s].turn = i /\ i # 0 /\ req'[s].outcome = "success"
    <3>1. PICK s \in Requests : req[s].turn = i /\ i # 0 /\ req[s].outcome = "success"
      BY <1>1, <1>2, <1>4 DEF RequestsOwnTurns
    <3>2. QED
      BY <3>1 DEF RequestsRest
  <2>3. QED
    BY <1>1, <2>1, <2>2 DEF RequestsOwnTurns, RequestsRest
<1>9. JobsOwnTurns'
  <2>1. \A j \in jobs' : j.turn \in scheduled'
    BY <1>1, <1>2, <1>3 DEF JobsOwnTurns
  <2>2. \A j, l \in jobs' : j.turn = l.turn => j = l
    BY <1>1, <1>2, <1>3, <1>4 DEF JobsOwnTurns
  <2>3. ASSUME NEW j \in jobs', NEW s \in Requests, req'[s].turn = j.turn
        PROVE  j.scene = req'[s].scene /\ j.actor = req'[s].persona
    <3>1. j.turn # 0 /\ req[s].turn = j.turn
      BY <1>1, <1>2, <1>3, <1>4, <2>3 DEF RequestsOwnTurns, JobsOwnTurns, RequestsRest
    <3>2. req'[s].scene = req[s].scene /\ req'[s].persona = req[s].persona
      BY <3>1 DEF RequestsRest
    <3>3. QED
      BY <1>1, <1>2, <1>3, <1>5, <3>1, <3>2 DEF JobsOwnTurns
  <2>4. ASSUME NEW j \in jobs', j.phase \in {"scheduled", "curating"}, NEW m \in Episodic'
        PROVE  m.source # j.turn
    BY <1>1, <1>2, <1>3, <1>6, <2>4 DEF JobsOwnTurns
  <2>5. QED
    BY <2>1, <2>2, <2>3, <2>4 DEF JobsOwnTurns
<1>10. MemoriesOwnTurns'
  <2>1. ASSUME NEW m \in Episodic', NEW s \in Requests, req'[s].turn = m.source
        PROVE  m.scene = req'[s].scene /\ m.actor = req'[s].persona
    <3>1. m.source # 0 /\ req[s].turn = m.source
      BY <1>1, <1>6, <2>1 DEF RequestsOwnTurns, MemoriesOwnTurns, RequestsRest
    <3>2. QED
      BY <1>1, <1>6, <3>1 DEF MemoriesOwnTurns, RequestsRest
  <2>2. \A m \in Episodic', t \in turns' : t.id = m.source => t.created <= m.created
    BY <1>1, <1>6 DEF MemoriesOwnTurns, TurnsShrink
  <2>3. QED
    BY <1>1, <1>2, <1>6, <2>1, <2>2 DEF MemoriesOwnTurns
<1>11. DrainsKnown'
  <2>1. \A d \in Rerolls : rerolls'[d] = rerolls[d]
                           /\ rerolls[d].known \cap PendingTurns' = rerolls[d].known \cap PendingTurns
    BY <1>1, <1>4, <1>7 DEF DrainsKnown
  <2>2. QED
    BY <1>1, <1>2, <2>1 DEF DrainsKnown
<1>12. DrainedRerollLeavesNothing'
  BY <1>1, <1>6 DEF DrainedRerollLeavesNothing
<1>13. QED
  BY <1>8, <1>9, <1>10, <1>11, <1>12 DEF OwnInv

\* A request that only moves its program counter, or gives up, rests.
LEMMA RequestMoves ==
    ASSUME TypeInv, NEW r \in Requests, NEW pc, req' = [req EXCEPT ![r].pc = pc],
           pc \notin {"new", "generating"}, pc \in Stored => req[r].pc \in Stored
    PROVE  RequestsRest /\ req'[r].pc = pc /\ req'[r].turn = req[r].turn
<1>1. req \in [Requests -> Request]
  BY DEF TypeInv, TypeOK
<1>2. ASSUME NEW s \in Requests
      PROVE  /\ req'[s].turn = req[s].turn /\ req'[s].scene = req[s].scene
             /\ req'[s].persona = req[s].persona /\ req'[s].outcome = req[s].outcome
             /\ req'[s].pc = IF s = r THEN pc ELSE req[s].pc
  <2>1. req[s] \in Request
    BY <1>1
  <2>2. QED
    BY <1>1, <2>1 DEF Request
<1>3. QED
  BY <1>2 DEF RequestsRest

LEMMA RequestKeepsOwners ==
    ASSUME TypeInv, TypeInv', OwnInv, NEW r \in Requests, RequestStep(r) \/ Disconnect(r)
    PROVE  OwnInv'
<1>1. JobsOwnTurns /\ MemoriesOwnTurns /\ StoreTypeOK
  BY DEF OwnInv, TypeInv, TypeOK
<1>2. ASSUME NEW pc, req' = [req EXCEPT ![r].pc = pc], pc \notin {"new", "generating"},
             pc \in Stored => req[r].pc \in Stored,
             TurnsShrink, UNCHANGED <<memories, jobs, scheduled, turnSeq, clock, rerolls>>
      PROVE  OwnInv'
  <2>1. RequestsRest
    BY <1>2, RequestMoves
  <2>2. RerollsRest /\ CountersMove /\ JobsShrink /\ MemoriesShrink
    BY <1>1, <1>2, AtRest
  <2>3. QED
    BY <1>2, <2>1, <2>2, JobsShrinkKeep
<1>3. CASE ProviderError(r)
  <2>1. /\ req' = [req EXCEPT ![r].pc = "failed"]
        /\ UNCHANGED <<turns, memories, jobs, scheduled, turnSeq, clock, rerolls>>
    BY <1>3 DEF ProviderError, storeVars, memoryVars
  <2>2. TurnsShrink
    BY <2>1, AtRest
  <2>3. "failed" \notin {"new", "generating"} /\ "failed" \notin Stored
    BY DEF Stored
  <2>4. QED
    BY <1>2, <2>1, <2>2, <2>3
<1>4. CASE Disconnect(r)
  <2>1. /\ req' = [req EXCEPT ![r].pc = "disconnected"]
        /\ UNCHANGED <<turns, memories, jobs, scheduled, turnSeq, clock, rerolls>>
    BY <1>4 DEF Disconnect, storeVars, memoryVars
  <2>2. TurnsShrink
    BY <2>1, AtRest
  <2>3. "disconnected" \notin {"new", "generating"} /\ "disconnected" \notin Stored
    BY DEF Stored
  <2>4. QED
    BY <1>2, <2>1, <2>2, <2>3
<1>5. ASSUME NEW o \in Outcomes, PersistTurn(r, o)  PROVE OwnInv'
  <2>1. CASE SessionLive
    BY <1>5, <2>1, PersistKeepsOwners
  <2>2. CASE ~SessionLive
    <3>1. /\ req[r].pc = "generating"
          /\ req' = [req EXCEPT ![r].pc = StoreErrorPc(o), ![r].outcome = o]
          /\ UNCHANGED <<turns, memories, jobs, scheduled, turnSeq, clock, rerolls>>
      BY <1>5, <2>2 DEF PersistTurn, memoryVars
    <3>2. StoreErrorPc(o) \in {"failed", "done"}
      BY DEF StoreErrorPc
    <3>3. req[r].turn = 0
      BY <3>1 DEF OwnInv, RequestsOwnTurns
    <3>4. RequestsRest
      BY <3>1, <3>2, <3>3 DEF TypeInv, TypeOK, Request, RequestsRest, Stored
    <3>5. RerollsRest /\ CountersMove /\ JobsShrink /\ MemoriesShrink /\ TurnsShrink
      BY <1>1, <3>1, AtRest
    <3>6. QED
      BY <3>4, <3>5, JobsShrinkKeep
  <2>3. QED
    BY <2>1, <2>2
<1>6. CASE CommitActivity(r)
  <2> DEFINE pc == IF SessionLive THEN "diagnostics" ELSE StoreErrorPc(req[r].outcome)
  <2>1. /\ req[r].pc = "activity" /\ req' = [req EXCEPT ![r].pc = pc]
        /\ UNCHANGED <<turns, memories, jobs, scheduled, turnSeq, clock, rerolls>>
    BY <1>6 DEF CommitActivity, memoryVars
  <2>2. pc \in {"diagnostics", "failed", "done"}
    BY DEF StoreErrorPc
  <2> HIDE DEF pc
  <2>3. TurnsShrink
    BY <2>1, AtRest
  <2>4. req[r].pc \in Stored /\ pc \notin {"new", "generating"}
    BY <2>1, <2>2 DEF Stored
  <2>5. QED
    BY <1>2, <2>1, <2>3, <2>4
<1>7. CASE ReturnTurn(r)
  <2> DEFINE pc == IF req[r].mode = "post" THEN "done" ELSE "ready"
  <2>1. /\ req[r].pc = "diagnostics" /\ req' = [req EXCEPT ![r].pc = pc]
        /\ UpdateTurnDiagnostics(req[r].turn)
        /\ UNCHANGED <<memories, turnSeq, clock, rerolls>>
    BY <1>7 DEF ReturnTurn
  <2>2. SameTurns
    BY <1>1, <2>1, DiagnosticsKeepTurns
  <2>3. TurnsShrink
    BY <2>2, AtRest
  <2>4. CASE req[r].mode = "post" /\ DefersMemory(r)
    <3>1. pc = "done" /\ req[r].outcome = "success"
      BY <2>4 DEF DefersMemory
    <3>2. Schedule(req[r].turn, req[r].scene, req[r].persona)
      BY <1>7, <2>4 DEF ReturnTurn
    <3> HIDE DEF pc
    <3>3. req' = [req EXCEPT ![r].pc = "done"]
      BY <2>1, <3>1
    <3>4. "done" \notin {"new", "generating"} /\ "done" \notin Stored
      BY DEF Stored
    <3>5. RequestsRest /\ req'[r].pc = "done" /\ req'[r].turn = req[r].turn
      BY <3>3, <3>4, RequestMoves
    <3>6. QED
      BY <2>1, <2>3, <3>1, <3>2, <3>5, ScheduleKeepsOwners DEF Stored
  <2>5. CASE ~(req[r].mode = "post" /\ DefersMemory(r))
    <3>1. UNCHANGED <<jobs, scheduled>>
      BY <1>7, <2>5 DEF ReturnTurn
    <3>2. pc \in {"done", "ready"}
      OBVIOUS
    <3> HIDE DEF pc
    <3>3. req[r].pc \in Stored /\ pc \notin {"new", "generating"}
      BY <2>1, <3>2 DEF Stored
    <3>4. QED
      BY <1>2, <2>1, <2>3, <3>1, <3>3
  <2>6. QED
    BY <2>4, <2>5
<1>8. CASE ScheduleStreamed(r)
  <2>1. /\ req[r].pc = "ready" /\ req' = [req EXCEPT ![r].pc = "done"]
        /\ UNCHANGED <<turns, memories, turnSeq, clock, rerolls>>
    BY <1>8 DEF ScheduleStreamed, storeVars
  <2>2. TurnsShrink
    BY <2>1, AtRest
  <2>3. RequestsRest /\ req'[r].pc = "done" /\ req'[r].turn = req[r].turn
    <3>1. "done" \notin {"new", "generating"} /\ "done" \notin Stored
      BY DEF Stored
    <3>2. QED
      BY <2>1, <3>1, RequestMoves
  <2>4. CASE DefersMemory(r)
    <3>1. Schedule(req[r].turn, req[r].scene, req[r].persona)
      BY <1>8, <2>4 DEF ScheduleStreamed
    <3>2. req[r].outcome = "success" /\ req[r].pc \in Stored /\ req'[r].pc \notin Stored
      BY <2>1, <2>3, <2>4 DEF DefersMemory, Stored
    <3>3. QED
      BY <2>1, <2>2, <2>3, <3>1, <3>2, ScheduleKeepsOwners
  <2>5. CASE ~DefersMemory(r)
    <3>1. UNCHANGED <<jobs, scheduled>>
      BY <1>8, <2>5 DEF ScheduleStreamed
    <3>2. "done" \notin {"new", "generating"} /\ "done" \notin Stored
      BY DEF Stored
    <3>3. QED
      BY <1>2, <2>1, <2>2, <3>1, <3>2
  <2>6. QED
    BY <2>4, <2>5
<1>9. QED
  BY <1>3, <1>4, <1>5, <1>6, <1>7, <1>8 DEF RequestStep

-----------------------------------------------------------------------------
(* The steps of a reroll *)

LEMMA RerollKeepsOwners ==
    ASSUME TypeInv, OwnInv, NEW d \in Rerolls, StartReroll(d) \/ RerollStep(d)
    PROVE  OwnInv'
<1>1. RequestsOwnTurns /\ JobsOwnTurns /\ MemoriesOwnTurns /\ DrainsKnown /\ DrainedRerollLeavesNothing
  BY DEF OwnInv
<1>2. rerolls \in [Rerolls -> Reroll] /\ turns \in SUBSET TurnRow /\ RowsBounded /\ StoreTypeOK
  BY DEF TypeInv, TypeOK, StoreTypeOK
<1>3. PendingTurns \subseteq scheduled
  BY <1>1 DEF PendingTurns, JobsOwnTurns
<1>4. UNCHANGED <<req, jobs, scheduled, turnSeq, clock>>
  <2>1. CASE StartReroll(d)
    BY <2>1 DEF StartReroll, storeVars, memoryVars
  <2>2. CASE ResumeReroll(d)
    BY <2>2 DEF ResumeReroll, storeVars, memoryVars
  <2>3. CASE DeleteLastTurn(d)
    BY <2>3 DEF DeleteLastTurn, memoryVars
  <2>4. CASE RestoreAfterDelete(d)
    BY <2>4 DEF RestoreAfterDelete, memoryVars
  <2>5. CASE SweepMemories(d)
    BY <2>5 DEF SweepMemories, memoryVars
  <2>6. CASE UnindexSwept(d)
    BY <2>6 DEF UnindexSwept, storeVars
  <2>7. QED
    BY <2>1, <2>2, <2>3, <2>4, <2>5, <2>6 DEF RerollStep
<1>5. memories' \subseteq memories /\ turns' \subseteq turns
  <2>1. CASE StartReroll(d)
    BY <2>1 DEF StartReroll, storeVars
  <2>2. CASE ResumeReroll(d)
    BY <2>2 DEF ResumeReroll, storeVars
  <2>3. CASE DeleteLastTurn(d)
    BY <2>3 DEF DeleteLastTurn
  <2>4. CASE RestoreAfterDelete(d)
    BY <2>4 DEF RestoreAfterDelete
  <2>5. CASE SweepMemories(d)
    BY <2>5 DEF SweepMemories, MemoriesBefore
  <2>6. CASE UnindexSwept(d)
    BY <2>6 DEF UnindexSwept, storeVars
  <2>7. QED
    BY <2>1, <2>2, <2>3, <2>4, <2>5, <2>6 DEF RerollStep
<1>6. Episodic' \subseteq Episodic /\ PendingTurns' = PendingTurns
  BY <1>4, <1>5 DEF Episodic, PendingTurns
<1>7. RequestsOwnTurns' /\ JobsOwnTurns'
  BY <1>1, <1>4, <1>6 DEF RequestsOwnTurns, JobsOwnTurns
<1>8. /\ \A m \in Episodic : rerolls'[d].pc \in {"restoring", "sweeping"}
                             /\ rerolls'[d].row.id = m.source
                             => rerolls'[d].row.created <= m.created
      /\ rerolls'[d].known \subseteq scheduled
      /\ rerolls'[d].pc = "draining" => rerolls'[d].known \cap PendingTurns \subseteq rerolls'[d].waiting
      /\ rerolls'[d].pc \in {"deleting", "restoring", "sweeping", "unindexing", "done"}
         => rerolls'[d].known \cap PendingTurns = {}
      /\ rerolls'[d].pc \in {"restoring", "sweeping"} => rerolls'[d].row.created <= clock
      /\ rerolls'[d].pc \in {"unindexing", "done"} /\ rerolls'[d].row.id \in rerolls'[d].known
         => \A m \in Episodic' : m.source # rerolls'[d].row.id
      /\ \A e \in Rerolls : e # d => rerolls'[e] = rerolls[e]
  <2>1. CASE StartReroll(d)
    <3>1. rerolls' = [rerolls EXCEPT
                        ![d].pc = IF DrainSnapshot = {} THEN "deleting" ELSE "draining",
                        ![d].waiting = DrainSnapshot, ![d].known = scheduled]
      BY <2>1 DEF StartReroll
    <3>2. /\ rerolls'[d].known = scheduled /\ rerolls'[d].waiting = PendingTurns
          /\ rerolls'[d].pc \in {"deleting", "draining"}
          /\ rerolls'[d].pc = "deleting" => PendingTurns = {}
          /\ \A e \in Rerolls : e # d => rerolls'[e] = rerolls[e]
      BY <1>2, <3>1 DEF Reroll, DrainSnapshot
    <3>3. QED
      BY <3>2
  <2>2. CASE ResumeReroll(d)
    <3>1. /\ rerolls[d].pc = "draining" /\ rerolls[d].waiting \cap PendingTurns = {}
          /\ rerolls' = [rerolls EXCEPT ![d].pc = "deleting"]
      BY <2>2 DEF ResumeReroll, Drained
    <3>2. /\ rerolls'[d].known = rerolls[d].known /\ rerolls'[d].pc = "deleting"
          /\ \A e \in Rerolls : e # d => rerolls'[e] = rerolls[e]
      BY <1>2, <3>1 DEF Reroll
    <3>3. rerolls[d].known \cap PendingTurns = {}
      BY <1>1, <3>1 DEF DrainsKnown
    <3>4. QED
      BY <1>1, <3>2, <3>3 DEF DrainsKnown
  <2>3. CASE DeleteLastTurn(d)
    <3>1. rerolls[d].pc = "deleting"
      BY <2>3 DEF DeleteLastTurn
    <3>2. rerolls[d].known \cap PendingTurns = {} /\ rerolls[d].known \subseteq scheduled
      BY <1>1, <3>1 DEF DrainsKnown
    <3>3. CASE SessionLive /\ turns # {}
      <4>1. rerolls' = [rerolls EXCEPT ![d].pc = "restoring", ![d].row = LastTurn(turns)]
        BY <2>3, <3>3 DEF DeleteLastTurn
      <4>2. LastTurn(turns) \in turns
        BY <1>2, <3>3, LastOfTurns
      <4>3. /\ rerolls'[d].known = rerolls[d].known /\ rerolls'[d].pc = "restoring"
            /\ rerolls'[d].row = LastTurn(turns)
            /\ \A e \in Rerolls : e # d => rerolls'[e] = rerolls[e]
        BY <1>2, <4>1 DEF Reroll
      <4>4. LastTurn(turns).created <= clock
        BY <1>2, <4>2 DEF RowsBounded
      <4>5. \A m \in Episodic : LastTurn(turns).id = m.source => LastTurn(turns).created <= m.created
        BY <1>1, <4>2 DEF MemoriesOwnTurns
      <4>6. QED
        BY <3>2, <4>3, <4>4, <4>5
    <3>4. CASE ~(SessionLive /\ turns # {})
      <4>1. rerolls' = [rerolls EXCEPT ![d].pc = "refused"]
        BY <2>3, <3>4 DEF DeleteLastTurn
      <4>2. /\ rerolls'[d].known = rerolls[d].known /\ rerolls'[d].pc = "refused"
            /\ \A e \in Rerolls : e # d => rerolls'[e] = rerolls[e]
        BY <1>2, <4>1 DEF Reroll
      <4>3. QED
        BY <3>2, <4>2
    <3>5. QED
      BY <3>3, <3>4
  <2>4. CASE RestoreAfterDelete(d)
    <3>1. rerolls[d].pc = "restoring" /\ rerolls' = [rerolls EXCEPT ![d].pc = "sweeping"]
      BY <2>4 DEF RestoreAfterDelete
    <3>2. /\ rerolls'[d].known = rerolls[d].known /\ rerolls'[d].pc = "sweeping"
          /\ rerolls'[d].row = rerolls[d].row
          /\ \A e \in Rerolls : e # d => rerolls'[e] = rerolls[e]
      BY <1>2, <3>1 DEF Reroll
    <3>3. /\ rerolls[d].known \cap PendingTurns = {} /\ rerolls[d].known \subseteq scheduled
          /\ rerolls[d].row.created <= clock
      BY <1>1, <3>1 DEF DrainsKnown
    <3>4. \A m \in Episodic : rerolls[d].row.id = m.source => rerolls[d].row.created <= m.created
      BY <1>1, <3>1 DEF MemoriesOwnTurns
    <3>5. QED
      BY <3>2, <3>3, <3>4
  <2>5. CASE SweepMemories(d)
    <3>1. /\ rerolls[d].pc = "sweeping"
          /\ \E S : rerolls' = [rerolls EXCEPT ![d].pc = "unindexing", ![d].swept = S]
          /\ memories' = {m \in memories : m.created < rerolls[d].row.created}
      BY <2>5 DEF SweepMemories, MemoriesBefore
    <3>2. /\ rerolls'[d].known = rerolls[d].known /\ rerolls'[d].pc = "unindexing"
          /\ rerolls'[d].row = rerolls[d].row
          /\ \A e \in Rerolls : e # d => rerolls'[e] = rerolls[e]
      BY <1>2, <3>1 DEF Reroll
    <3>3. rerolls[d].known \cap PendingTurns = {} /\ rerolls[d].known \subseteq scheduled
      BY <1>1, <3>1 DEF DrainsKnown
    <3>4. ASSUME NEW m \in Episodic', m.source = rerolls[d].row.id  PROVE FALSE
      <4>1. m \in Episodic /\ m \in memories /\ m.created < rerolls[d].row.created
        BY <3>1, <3>4 DEF Episodic
      <4>2. rerolls[d].row.created <= m.created
        BY <1>1, <3>1, <3>4, <4>1 DEF MemoriesOwnTurns
      <4>3. m.created \in Nat /\ rerolls[d].row.created \in Nat
        BY <1>2, <4>1 DEF StoreTypeOK, MemoryRow, Reroll, TurnRow
      <4>4. QED
        BY <4>1, <4>2, <4>3
    <3>5. QED
      BY <3>2, <3>3, <3>4
  <2>6. CASE UnindexSwept(d)
    <3>1. /\ rerolls[d].pc = "unindexing" /\ memories' = memories
          /\ rerolls' = [rerolls EXCEPT ![d].pc = "done", ![d].swept = {}]
      BY <2>6 DEF UnindexSwept, storeVars
    <3>2. /\ rerolls'[d].known = rerolls[d].known /\ rerolls'[d].pc = "done"
          /\ rerolls'[d].row = rerolls[d].row
          /\ \A e \in Rerolls : e # d => rerolls'[e] = rerolls[e]
      BY <1>2, <3>1 DEF Reroll
    <3>3. rerolls[d].known \cap PendingTurns = {} /\ rerolls[d].known \subseteq scheduled
      BY <1>1, <3>1 DEF DrainsKnown
    <3>4. rerolls[d].row.id \in rerolls[d].known
          => \A m \in Episodic' : m.source # rerolls[d].row.id
      BY <1>1, <1>6, <3>1 DEF DrainedRerollLeavesNothing
    <3>5. QED
      BY <3>2, <3>3, <3>4
  <2>7. QED
    BY <2>1, <2>2, <2>3, <2>4, <2>5, <2>6 DEF RerollStep
<1>9. MemoriesOwnTurns'
  <2>1. ASSUME NEW m \in Episodic', NEW e \in Rerolls,
               rerolls'[e].pc \in {"restoring", "sweeping"}, rerolls'[e].row.id = m.source
        PROVE  rerolls'[e].row.created <= m.created
    <3>1. CASE e = d
      BY <1>6, <1>8, <2>1, <3>1
    <3>2. CASE e # d
      BY <1>1, <1>6, <1>8, <2>1, <3>2 DEF MemoriesOwnTurns
    <3>3. QED
      BY <3>1, <3>2
  <2>2. QED
    BY <1>1, <1>4, <1>5, <1>6, <2>1 DEF MemoriesOwnTurns
<1>10. DrainsKnown'
  BY <1>1, <1>4, <1>6, <1>8 DEF DrainsKnown
<1>11. DrainedRerollLeavesNothing'
  <2>1. ASSUME NEW e \in Rerolls, rerolls'[e].pc \in {"unindexing", "done"},
               rerolls'[e].row.id \in rerolls'[e].known, NEW m \in Episodic'
        PROVE  m.source # rerolls'[e].row.id
    <3>1. CASE e = d
      BY <1>8, <2>1, <3>1
    <3>2. CASE e # d
      BY <1>1, <1>6, <1>8, <2>1, <3>2 DEF DrainedRerollLeavesNothing
    <3>3. QED
      BY <3>1, <3>2
  <2>2. QED
    BY <2>1 DEF DrainedRerollLeavesNothing
<1>12. QED
  BY <1>7, <1>9, <1>10, <1>11 DEF OwnInv

-----------------------------------------------------------------------------

LEMMA InitOwners == Init => OwnInv
BY DEF Init, StoreInit, MemoryInit, OwnInv, RequestsOwnTurns, JobsOwnTurns, MemoriesOwnTurns,
   DrainsKnown, DrainedRerollLeavesNothing, Episodic, PendingTurns

LEMMA NextOwners == TypeInv /\ OwnInv /\ [Next]_vars => OwnInv'
<1>1. SUFFICES ASSUME TypeInv, OwnInv, [Next]_vars  PROVE OwnInv'
  OBVIOUS
<1>2. TypeInv'
  BY <1>1, NextTypes
<1>3. JobsOwnTurns /\ MemoriesOwnTurns
  BY <1>1 DEF OwnInv
<1>4. ASSUME NEW r \in Requests, NEW mode \in Modes, NEW p \in Personas,
             SubmitTurn(r, mode, p)
      PROVE  OwnInv'
  <2>1. /\ req[r].pc = "new"
        /\ req' = [req EXCEPT ![r] =
                     IF SessionLive
                     THEN [@ EXCEPT !.pc = "generating", !.mode = mode,
                                    !.scene = session.scene, !.persona = p,
                                    !.switched = (p # session.persona)]
                     ELSE [@ EXCEPT !.pc = "failed", !.mode = mode]]
        /\ UNCHANGED <<turns, memories, jobs, scheduled, turnSeq, clock, rerolls>>
    BY <1>4 DEF SubmitTurn, storeVars, memoryVars
  <2>2. req[r].turn = 0 /\ req \in [Requests -> Request]
    BY <1>1, <2>1 DEF OwnInv, RequestsOwnTurns, TypeInv, TypeOK
  <2>3. /\ req'[r].turn = 0 /\ req'[r].pc \in {"generating", "failed"}
        /\ \A s \in Requests : s # r => req'[s] = req[s]
    BY <2>1, <2>2 DEF Request
  <2>4. RequestsRest
    BY <2>1, <2>2, <2>3 DEF RequestsRest, Stored
  <2>5. QED
    BY <1>1, <1>2, <1>3, <2>1, <2>4, AtRest, JobsShrinkKeep
<1>5. CASE RunJob
  <2>1. PICK j \in jobs : JobStep(j)
    BY <1>5 DEF RunJob
  <2>2. UNCHANGED <<req, rerolls>>
    BY <1>5 DEF RunJob
  <2>3. CASE \E kind \in {"minor", "durable"} : CurateMemory(j, kind)
    BY <1>1, <1>2, <2>2, <2>3, CurateKeepsOwners
  <2>4. CASE ~(\E kind \in {"minor", "durable"} : CurateMemory(j, kind))
    <3>1. JobsShrink /\ MemoriesShrink /\ TurnsShrink /\ CountersMove
      BY <1>1, <2>1, <2>4, QuietJobStep DEF JobStep
    <3>2. QED
      BY <1>1, <1>2, <2>2, <3>1, AtRest, JobsShrinkKeep
  <2>5. QED
    BY <2>3, <2>4
<1>6. CASE (\E s \in Scenes : SwitchScene(s)) \/ DeleteSession \/ PurgeVectors \/ UNCHANGED vars
  <2>1. /\ turns' \subseteq turns /\ memories' \subseteq memories
        /\ UNCHANGED <<jobs, scheduled, turnSeq, clock, req, rerolls>>
    BY <1>6 DEF SwitchScene, DeleteSession, DeleteSessionRow, PurgeVectors, vars, storeVars,
       memoryVars
  <2>2. QED
    BY <1>1, <1>2, <1>3, <2>1, AtRest, JobsShrinkKeep
<1>7. CASE Crash
  <2>1. /\ jobs' = {}
        /\ UNCHANGED <<turns, memories, scheduled, turnSeq, clock>>
    BY <1>7 DEF Crash, storeVars
  <2>2. RequestsRest
    <3>1. ASSUME NEW r \in Requests
          PROVE  req'[r] = req[r] \/ req'[r] = [req[r] EXCEPT !.pc = "lost"]
      BY <1>7 DEF Crash
    <3>2. ASSUME NEW r \in Requests
          PROVE  /\ req'[r].turn = req[r].turn /\ req'[r].scene = req[r].scene
                 /\ req'[r].persona = req[r].persona /\ req'[r].outcome = req[r].outcome
                 /\ req'[r].pc \in {req[r].pc, "lost"}
      <4>1. req[r] \in Request
        BY <1>1 DEF TypeInv, TypeOK
      <4>2. QED
        BY <3>1, <4>1 DEF Request
    <3>3. QED
      BY <3>2 DEF RequestsRest, Stored
  <2>3. RerollsRest
    <3>1. ASSUME NEW d \in Rerolls
          PROVE  rerolls'[d] = rerolls[d] \/ rerolls'[d] = [rerolls[d] EXCEPT !.pc = "lost"]
      BY <1>7 DEF Crash
    <3>2. ASSUME NEW d \in Rerolls
          PROVE  /\ rerolls'[d].known = rerolls[d].known /\ rerolls'[d].row = rerolls[d].row
                 /\ rerolls'[d].waiting = rerolls[d].waiting
                 /\ rerolls'[d].pc \in {rerolls[d].pc, "lost"}
      <4>1. rerolls[d] \in Reroll
        BY <1>1 DEF TypeInv, TypeOK
      <4>2. QED
        BY <3>1, <4>1 DEF Reroll
    <3>3. QED
      BY <3>2 DEF RerollsRest
  <2>4. QED
    BY <1>1, <1>2, <1>3, <2>1, <2>2, <2>3, AtRest, JobsShrinkKeep
<1>8. QED
  BY <1>1, <1>2, <1>4, <1>5, <1>6, <1>7, RequestKeepsOwners, RerollKeepsOwners DEF Next

LEMMA OwnersHold == Spec => [](TypeInv /\ OwnInv)
BY InitTypes, InitOwners, NextTypes, NextOwners, PTL DEF Spec

\* An episodic memory comes from one curation of one successful turn and keeps
\* that turn's scene and persona, however many scene switches, overrides,
\* folds, rerolls and crashes come before or after its job
\* (DeferredMemoryJob, _persist_and_index).
THEOREM Provenance == Spec => []MemoryProvenance
<1>1. TypeInv /\ OwnInv => MemoryProvenance
  BY DEF OwnInv, MemoryProvenance, MemoriesOwnTurns, RequestsOwnTurns
<1>2. QED
  BY <1>1, OwnersHold, PTL

\* What the reroll's drain does guarantee (delete_last_turn in routes.py): a job
\* that had been scheduled when the reroll read the task set leaves no memory
\* of the deleted turn behind, then or later.
THEOREM DrainGuarantee == Spec => []DrainedRerollLeavesNothing
<1>1. OwnInv => DrainedRerollLeavesNothing
  BY DEF OwnInv
<1>2. QED
  BY <1>1, OwnersHold, PTL

-----------------------------------------------------------------------------
(* With one client, every memory's turn is in the history *)

\* While a job is pending no reroll is between its delete and its sweep, so
\* every memory comes from a turn in the history.
LEMMA PendingMeansKept ==
    ASSUME SourcesInHistory, jobs # {} \/ (\A d \in Rerolls : ~RerollRuns(d))
    PROVE  \A m \in memories : InHistory(m.source)
BY DEF SourcesInHistory, RerollRuns

LEMMA JobStepSources ==
    ASSUME TypeInv, SourcesInHistory, NEW j \in jobs, JobStep(j),
           UNCHANGED <<req, rerolls>>
    PROVE  SourcesInHistory'
<1> DEFINE FromJob(m) == /\ SessionLive /\ m.created = clock + 1
                         /\ m.source = j.turn \/ \E b \in j.batch : m.source = b.source
           Kept(m) == \E n \in memories : m.source = n.source /\ m.created = n.created
<1>1. /\ StoreTypeOK /\ RowsBounded /\ jobs \in SUBSET Job
      /\ turns \in SUBSET TurnRow /\ memories \in SUBSET MemoryRow
      /\ turnSeq \in Nat /\ clock \in Nat
  BY DEF TypeInv, TypeOK, StoreTypeOK, MemoryTypeOK
<1>2. UNCHANGED <<session, turnSeq>>
  BY DEF JobStep, AbandonJob, StartCuration, GateCuration, CurateNothing, CurateMemory,
     PersistSummary, SkipSummary, UpsertMemory, EnforceCap, MarkFolded, UnindexFolded, storeVars
<1>3. SameTurns
  <2>1. \E w : AppendMemoryOutcome(j.turn, w) \/ UNCHANGED turns
    BY DEF JobStep, AbandonJob, StartCuration, GateCuration, CurateNothing, CurateMemory,
       PersistSummary, SkipSummary, UpsertMemory, EnforceCap, IndexRaises, MarkFolded,
       UnindexFolded, storeVars, Consolidate, EndJob
  <2>2. QED
    BY <1>1, <2>1, DiagnosticsKeepTurns
<1>4. ASSUME NEW k \in jobs'
      PROVE  \E i \in jobs : k.turn = i.turn /\ k.batch \subseteq i.batch \cup memories
  <2>1. j \in Job
    BY <1>1
  <2>2. ASSUME NEW w, NEW B \in SUBSET memories,
               Replace(j, [j EXCEPT !.phase = "folding", !.written = w, !.batch = B])
        PROVE  \E i \in jobs : k.turn = i.turn /\ k.batch \subseteq i.batch \cup memories
    BY <2>1, <2>2 DEF Replace, Job
  <2>3. ASSUME NEW w, Consolidate(j, w, memories)
        PROVE  \E i \in jobs : k.turn = i.turn /\ k.batch \subseteq i.batch \cup memories
    BY <2>2, <2>3, FoldBatchIsStored DEF Consolidate, EndJob
  <2>4. CASE GateCuration(j) \/ CurateNothing(j)
    BY <2>3, <2>4 DEF GateCuration, CurateNothing
  <2>5. CASE AbandonJob(j) \/ SkipSummary(j) \/ UnindexFolded(j)
    BY <2>5 DEF AbandonJob, SkipSummary, UnindexFolded, EndJob
  <2>6. CASE \/ StartCuration(j) \/ (\E kind \in {"minor", "durable"} : CurateMemory(j, kind))
             \/ PersistSummary(j) \/ MarkFolded(j)
    <3>1. k \in jobs \/ (k.turn = j.turn /\ k.batch = j.batch)
      <4>1. CASE StartCuration(j)
        BY <2>1, <4>1 DEF StartCuration, Replace, Job
      <4>2. ASSUME NEW kind, CurateMemory(j, kind)
            PROVE  k \in jobs \/ (k.turn = j.turn /\ k.batch = j.batch)
        <5>1. k \in jobs
              \/ k = [j EXCEPT !.phase = "indexing", !.fresh = clock + 1, !.kind = kind]
          BY <4>2 DEF CurateMemory, Replace
        <5>2. QED
          BY <2>1, <5>1 DEF Job
      <4>3. CASE PersistSummary(j)
        BY <2>1, <4>3 DEF PersistSummary, Replace, Job
      <4>4. CASE MarkFolded(j)
        BY <2>1, <4>4 DEF MarkFolded, Replace, Job
      <4>5. QED
        BY <2>6, <4>1, <4>2, <4>3, <4>4
    <3>2. QED
      BY <3>1
  <2>7. CASE UpsertMemory(j) \/ EnforceCap(j)
    <3>1. ASSUME NEW phase, Replace(j, [j EXCEPT !.phase = phase])
          PROVE  \E i \in jobs : k.turn = i.turn /\ k.batch \subseteq i.batch \cup memories
      <4>1. k \in jobs \/ (k.turn = j.turn /\ k.batch = j.batch)
        BY <2>1, <3>1 DEF Replace, Job
      <4>2. QED
        BY <4>1
    <3>2. ASSUME NEW w, EndJob(j, w)
          PROVE  \E i \in jobs : k.turn = i.turn /\ k.batch \subseteq i.batch \cup memories
      BY <3>2 DEF EndJob
    <3>3. QED
      BY <2>3, <2>7, <3>1, <3>2 DEF UpsertMemory, EnforceCap, IndexRaises
  <2>8. QED
    BY <2>4, <2>5, <2>6, <2>7 DEF JobStep
<1>5. ASSUME NEW m \in memories'  PROVE Kept(m) \/ FromJob(m)
  <2>1. CASE \E kind \in {"minor", "durable"} : CurateMemory(j, kind)
    BY <2>1 DEF CurateMemory, AppendMemory
  <2>2. CASE PersistSummary(j)
    <3>1. j.batch \in SUBSET MemoryRow /\ j.batch # {}
      BY <1>1, <2>2 DEF PersistSummary, Job, TypeInv, BatchesFilled
    <3>2. EarliestSource(j.batch) \in {b.source : b \in j.batch}
      BY <3>1, BatchChoices
    <3>3. m \in memories \/ (m.created = clock + 1 /\ m.source = EarliestSource(j.batch))
      BY <2>2 DEF PersistSummary, AppendMemory
    <3>4. QED
      BY <2>2, <3>2, <3>3 DEF PersistSummary
  <2>3. CASE MarkFolded(j)
    BY <1>1, <2>3 DEF MarkFolded, MarkConsolidated, MemoryRow
  <2>4. CASE ~(\E kind \in {"minor", "durable"} : CurateMemory(j, kind))
             /\ ~PersistSummary(j) /\ ~MarkFolded(j)
    BY <2>4 DEF JobStep, AbandonJob, StartCuration, GateCuration, CurateNothing, SkipSummary,
       UpsertMemory, EnforceCap, UnindexFolded, storeVars
  <2>5. QED
    BY <2>1, <2>2, <2>3, <2>4
<1>6. \A d \in Rerolls : ~RerollRuns(d) /\ ~RerollRuns(d)'
  BY DEF SourcesInHistory, RerollRuns
<1>7. \A m \in memories : InHistory(m.source)
  BY PendingMeansKept
<1>8. ASSUME NEW n, InHistory(n)  PROVE \E t \in turns' : t.id = n
  BY <1>3, <1>8 DEF InHistory, SameTurns, SameTurn
<1>9. ASSUME NEW m \in memories'  PROVE InHistory(m.source)
  BY <1>5, <1>7 DEF SourcesInHistory
<1>10. ASSUME NEW m \in memories'  PROVE m.source <= turnSeq'
  BY <1>2, <1>9 DEF InHistory, RowsBounded, TypeInv
<1>11. ASSUME NEW m \in memories', NEW t \in turns', t.id = m.source
       PROVE  t.created <= m.created
  <2>1. PICK u \in turns : t.id = u.id /\ t.created = u.created
    BY <1>3 DEF SameTurns, SameTurn
  <2>2. CASE Kept(m)
    BY <1>11, <2>1, <2>2 DEF SourcesInHistory
  <2>3. CASE FromJob(m)
    <3>1. u.created \in Nat /\ u.created <= clock
      BY <1>1 DEF RowsBounded, TurnRow
    <3>2. QED
      BY <1>1, <2>1, <2>3, <3>1
  <2>4. QED
    BY <1>5, <2>2, <2>3
<1>12. ASSUME SessionLive', NEW k \in jobs'
       PROVE  InHistory(k.turn) /\ \A m \in k.batch : InHistory(m.source)
  BY <1>2, <1>4, <1>7, <1>12 DEF SourcesInHistory, SessionLive
<1>13. PendingTurns' \subseteq PendingTurns
  BY <1>4 DEF PendingTurns
<1> HIDE DEF Kept, FromJob
<1>14. ASSUME SessionLive', NEW r \in Requests,
              req'[r].pc \in {"activity", "diagnostics", "ready"}
       PROVE  InHistory(req'[r].turn)
  BY <1>2, <1>14 DEF SourcesInHistory, SessionLive
<1>15. \A d \in Rerolls : rerolls'[d].pc = "draining" => PendingTurns' \subseteq rerolls'[d].waiting
  BY <1>13 DEF SourcesInHistory
<1>16. QED
  BY <1>6, <1>8, <1>9, <1>10, <1>11, <1>12, <1>14, <1>15 DEF SourcesInHistory, InHistory, RerollRuns

\* A request that asks is alone with the jobs: it stores its turn, and
\* schedules at most the job of a turn it has stored.
LEMMA RequestSources ==
    ASSUME SourcesInHistory, NEW r \in Requests, NEW k,
           \A d \in Rerolls : ~RerollAsks(d),
           SameTurns, SessionLive' => SessionLive, UNCHANGED <<memories, turnSeq, rerolls>>,
           \A s \in Requests : s # r => req'[s] = req[s],
           req'[r].pc \in Stored => req[r].pc \in Stored /\ req'[r].turn = req[r].turn,
           \/ UNCHANGED jobs
           \/ /\ jobs' = jobs \cup {k} /\ k.turn = req[r].turn /\ k.batch = {}
              /\ req[r].pc \in Stored
    PROVE  SourcesInHistory'
<1>1. ASSUME NEW n, InHistory(n)  PROVE \E t \in turns' : t.id = n
  BY <1>1 DEF InHistory, SameTurns, SameTurn
<1>2. ASSUME NEW m \in memories'
      PROVE  InHistory(m.source) /\ m.source <= turnSeq'
  BY DEF SourcesInHistory, RerollAsks, RerollEnded
<1>3. ASSUME NEW m \in memories', NEW t \in turns', t.id = m.source
      PROVE  t.created <= m.created
  BY <1>3 DEF SourcesInHistory, SameTurns, SameTurn
<1>4. ASSUME SessionLive', NEW i \in jobs'
      PROVE  InHistory(i.turn) /\ \A m \in i.batch : InHistory(m.source)
  BY <1>4 DEF SourcesInHistory, Stored
<1>5. ASSUME SessionLive', NEW s \in Requests, req'[s].pc \in Stored
      PROVE  InHistory(req'[s].turn)
  BY <1>5 DEF SourcesInHistory, Stored
<1>6. \A d \in Rerolls : ~RerollRuns(d)' /\ rerolls'[d].pc # "draining"
  BY DEF RerollRuns, RerollAsks, RerollEnded
<1>7. QED
  BY <1>1, <1>2, <1>3, <1>4, <1>5, <1>6 DEF SourcesInHistory, InHistory, Stored

LEMMA PersistSources ==
    ASSUME TypeInv, OneClient, SourcesInHistory, NEW r \in Requests, NEW o \in Outcomes,
           PersistTurn(r, o), SessionLive
    PROVE  SourcesInHistory'
<1>1. /\ turnSeq \in Nat /\ memories \in SUBSET MemoryRow /\ req \in [Requests -> Request]
  BY DEF TypeInv, TypeOK, StoreTypeOK
<1>2. /\ req[r].pc = "generating"
      /\ AppendTurn(req[r].scene, req[r].persona, o)
      /\ req' = [req EXCEPT ![r].pc = "activity", ![r].outcome = o, ![r].turn = turnSeq + 1]
      /\ UNCHANGED <<session, memories, jobs, rerolls>>
  BY DEF PersistTurn, memoryVars
<1>3. /\ turns \subseteq turns' /\ turnSeq' = turnSeq + 1
      /\ \A t \in turns' : t \in turns \/ t.id = turnSeq + 1
      /\ \E t \in turns' : t.id = turnSeq + 1
  <2> DEFINE row == [id |-> turnSeq + 1, index |-> NextIndex, scene |-> req[r].scene,
                     persona |-> req[r].persona, outcome |-> o, created |-> clock + 1,
                     diagnostics |-> "unset"]
  <2>1. turns' = turns \cup {row} /\ turnSeq' = turnSeq + 1
    BY <1>2 DEF AppendTurn
  <2>2. row.id = turnSeq + 1
    OBVIOUS
  <2> HIDE DEF row
  <2>3. QED
    BY <2>1, <2>2
<1>4. /\ req'[r].turn = turnSeq + 1
      /\ \A s \in Requests : s # r => req'[s] = req[s]
  BY <1>1, <1>2 DEF Request
<1>5. \A d \in Rerolls : ~RerollAsks(d)
  BY <1>2, AsksAlone DEF RequestAsks, RequestEnded
<1>6. ASSUME NEW n, InHistory(n)  PROVE \E t \in turns' : t.id = n
  BY <1>3, <1>6 DEF InHistory
<1>7. ASSUME NEW m \in memories'
      PROVE  InHistory(m.source) /\ m.source \in Nat /\ m.source <= turnSeq
  BY <1>1, <1>2, <1>5 DEF SourcesInHistory, RerollAsks, RerollEnded, MemoryRow
<1>8. ASSUME NEW m \in memories', NEW t \in turns', t.id = m.source
      PROVE  t.created <= m.created
  <2>1. t \in turns
    BY <1>1, <1>3, <1>7, <1>8
  <2>2. QED
    BY <1>2, <1>8, <2>1 DEF SourcesInHistory
<1>9. ASSUME NEW s \in Requests, req'[s].pc \in Stored
      PROVE  \E t \in turns' : t.id = req'[s].turn
  BY <1>3, <1>4, <1>6, <1>9 DEF SourcesInHistory, Stored
<1>10. \A d \in Rerolls : ~RerollRuns(d)' /\ rerolls'[d].pc # "draining"
  BY <1>2, <1>5 DEF RerollRuns, RerollAsks, RerollEnded
<1>11. \A m \in memories' : m.source <= turnSeq'
  BY <1>1, <1>3, <1>7
<1>12. ASSUME NEW i \in jobs'
       PROVE  /\ \E t \in turns' : t.id = i.turn
              /\ \A m \in i.batch : \E t \in turns' : t.id = m.source
  BY <1>2, <1>6 DEF SourcesInHistory
<1>13. QED
  BY <1>6, <1>7, <1>8, <1>9, <1>10, <1>11, <1>12 DEF SourcesInHistory, InHistory, Stored

LEMMA RequestStepSources ==
    ASSUME TypeInv, OneClient, SourcesInHistory, NEW r \in Requests,
           RequestStep(r) \/ Disconnect(r)
    PROVE  SourcesInHistory'
<1>1. /\ req \in [Requests -> Request] /\ session \in SessionRow /\ StoreTypeOK
  BY DEF TypeInv, TypeOK, StoreTypeOK
<1>2. \A d \in Rerolls : ~RerollAsks(d)
  <2>1. RequestAsks(r)
    BY DEF RequestStep, Disconnect, ProviderError, PersistTurn, CommitActivity, ReturnTurn,
       ScheduleStreamed, RequestAsks, RequestEnded
  <2>2. QED
    BY <2>1, AsksAlone
<1>3. UNCHANGED <<memories, rerolls>> /\ \A s \in Requests : s # r => req'[s] = req[s]
  BY <1>1 DEF RequestStep, Disconnect, ProviderError, PersistTurn, CommitActivity, ReturnTurn,
     ScheduleStreamed, storeVars
<1>4. ASSUME NEW n, NEW w, NEW a, Schedule(n, w, a)
      PROVE  \E k : jobs' = jobs \cup {k} /\ k.turn = n /\ k.batch = {}
  <2> DEFINE job == [turn |-> n, scene |-> w, actor |-> a, phase |-> "scheduled",
                     written |-> FALSE, batch |-> {}, fresh |-> 0, kind |-> "minor"]
  <2>1. jobs' = jobs \cup {job}
    BY <1>4 DEF Schedule
  <2>2. job.turn = n /\ job.batch = {}
    OBVIOUS
  <2> HIDE DEF job
  <2>3. QED
    BY <2>1, <2>2
<1>5. CASE \E o \in Outcomes : PersistTurn(r, o) /\ SessionLive
  BY <1>5, PersistSources
<1>6. CASE \/ ProviderError(r) \/ Disconnect(r)
           \/ \E o \in Outcomes : PersistTurn(r, o) /\ ~SessionLive
  <2>1. UNCHANGED <<session, turns, turnSeq, jobs>>
    BY <1>6 DEF ProviderError, Disconnect, PersistTurn, storeVars, memoryVars
  <2>2. req'[r].pc \notin Stored
    <3>1. CASE ProviderError(r) \/ Disconnect(r)
      BY <1>1, <3>1 DEF ProviderError, Disconnect, Request, Stored
    <3>2. ASSUME NEW o \in Outcomes, PersistTurn(r, o), ~SessionLive
          PROVE  req'[r].pc \in {"failed", "done"}
      BY <1>1, <3>2 DEF PersistTurn, Request, StoreErrorPc
    <3>3. QED
      BY <1>6, <3>1, <3>2 DEF Stored
  <2>3. SameTurns
    BY <1>1, <2>1, DiagnosticsKeepTurns
  <2>4. QED
    BY <1>2, <1>3, <2>1, <2>2, <2>3, RequestSources DEF SessionLive
<1>7. CASE CommitActivity(r)
  <2>1. UNCHANGED <<turns, turnSeq, jobs>>
    BY <1>7 DEF CommitActivity, memoryVars
  <2>2. SessionLive' => SessionLive
    BY <1>1, <1>7 DEF CommitActivity, UpdateActivePersona, SessionLive, SessionRow
  <2>3. req[r].pc \in Stored /\ req'[r].turn = req[r].turn
    BY <1>1, <1>7 DEF CommitActivity, Request, Stored
  <2>4. SameTurns
    BY <1>1, <2>1, DiagnosticsKeepTurns
  <2>5. QED
    BY <1>2, <1>3, <2>1, <2>2, <2>3, <2>4, RequestSources
<1>8. CASE ReturnTurn(r) \/ ScheduleStreamed(r)
  <2>1. UNCHANGED <<session, turnSeq>>
    BY <1>8 DEF ReturnTurn, ScheduleStreamed, storeVars
  <2>2. req[r].pc \in Stored /\ req'[r].turn = req[r].turn
    BY <1>1, <1>8 DEF ReturnTurn, ScheduleStreamed, Request, Stored
  <2>3. SameTurns
    <3>1. UpdateTurnDiagnostics(req[r].turn) \/ UNCHANGED turns
      BY <1>8 DEF ReturnTurn, ScheduleStreamed, storeVars
    <3>2. QED
      BY <1>1, <3>1, DiagnosticsKeepTurns
  <2>4. UNCHANGED jobs \/ Schedule(req[r].turn, req[r].scene, req[r].persona)
    BY <1>8 DEF ReturnTurn, ScheduleStreamed
  <2>5. PICK k : UNCHANGED jobs \/ (jobs' = jobs \cup {k} /\ k.turn = req[r].turn /\ k.batch = {})
    BY <1>4, <2>4
  <2>6. QED
    BY <1>2, <1>3, <2>1, <2>2, <2>3, <2>5, RequestSources DEF SessionLive
<1>9. QED
  BY <1>5, <1>6, <1>7, <1>8 DEF RequestStep

\* A reroll sweeps every memory of the row it has deleted, and no job is pending
\* that could write another.
LEMMA RerollStepSources ==
    ASSUME TypeInv, OneClient, SourcesInHistory, NEW d \in Rerolls,
           StartReroll(d) \/ RerollStep(d), \A e \in Rerolls : e # d => ~RerollAsks(e),
           \A r \in Requests : ~RequestAsks(r)
    PROVE  SourcesInHistory'
<1>1. /\ rerolls \in [Rerolls -> Reroll] /\ session \in SessionRow
      /\ StoreTypeOK /\ RowsBounded /\ turns \in SUBSET TurnRow /\ memories \in SUBSET MemoryRow
  BY DEF TypeInv, TypeOK, StoreTypeOK
<1>2. /\ UNCHANGED <<turnSeq, jobs, req>> /\ \A e \in Rerolls : e # d => rerolls'[e] = rerolls[e]
  BY <1>1 DEF StartReroll, RerollStep, ResumeReroll, DeleteLastTurn, RestoreAfterDelete,
     SweepMemories, UnindexSwept, storeVars, memoryVars
<1>3. \A e \in Rerolls : e # d =>
        rerolls'[e].pc \notin {"draining", "deleting", "restoring", "sweeping", "unindexing"}
  BY <1>2 DEF RerollAsks, RerollEnded
<1>4. \A r \in Requests : req'[r].pc \notin Stored
  BY <1>2 DEF RequestAsks, RequestEnded, Stored
<1>5. CASE StartReroll(d) \/ ResumeReroll(d)
  <2>1. UNCHANGED <<session, turns, memories>>
    BY <1>5 DEF StartReroll, ResumeReroll, storeVars
  <2>2. /\ rerolls[d].pc \notin {"restoring", "sweeping"}
        /\ \/ rerolls'[d].pc = "draining" /\ PendingTurns \subseteq rerolls'[d].waiting
           \/ rerolls'[d].pc = "deleting" /\ jobs = {}
    <3>1. CASE StartReroll(d)
      <4>1. /\ rerolls[d].pc = "new"
            /\ rerolls' = [rerolls EXCEPT
                             ![d].pc = IF PendingTurns = {} THEN "deleting" ELSE "draining",
                             ![d].waiting = PendingTurns, ![d].known = scheduled]
        BY <3>1 DEF StartReroll, DrainSnapshot
      <4>2. /\ rerolls'[d].pc = IF PendingTurns = {} THEN "deleting" ELSE "draining"
            /\ rerolls'[d].waiting = PendingTurns
        BY <1>1, <4>1 DEF Reroll
      <4>3. PendingTurns = {} => jobs = {}
        BY DEF PendingTurns
      <4>4. QED
        BY <4>1, <4>2, <4>3
    <3>2. CASE ResumeReroll(d)
      <4>1. /\ rerolls[d].pc = "draining" /\ rerolls[d].waiting \cap PendingTurns = {}
            /\ rerolls' = [rerolls EXCEPT ![d].pc = "deleting"]
        BY <3>2 DEF ResumeReroll, Drained
      <4>2. PendingTurns \subseteq rerolls[d].waiting
        BY <4>1 DEF SourcesInHistory
      <4>3. jobs = {}
        BY <4>1, <4>2 DEF PendingTurns
      <4>4. rerolls'[d].pc = "deleting"
        BY <1>1, <4>1 DEF Reroll
      <4>5. QED
        BY <4>1, <4>3, <4>4
    <3>3. QED
      BY <1>5, <3>1, <3>2
  <2>3. \A m \in memories : InHistory(m.source)
    BY <2>2 DEF SourcesInHistory, RerollAsks, RerollEnded
  <2>4. PendingTurns' = PendingTurns
    BY <1>2 DEF PendingTurns
  <2>5. QED
    BY <1>2, <1>3, <1>4, <2>1, <2>2, <2>3, <2>4
       DEF SourcesInHistory, InHistory, RerollRuns, SessionLive, Stored
<1>6. CASE DeleteLastTurn(d) /\ SessionLive /\ turns # {}
  <2> DEFINE row == LastTurn(turns)
  <2>1. /\ rerolls[d].pc = "deleting" /\ turns' = turns \ {row} /\ UNCHANGED <<session, memories>>
        /\ rerolls' = [rerolls EXCEPT ![d].pc = "restoring", ![d].row = row]
    BY <1>6 DEF DeleteLastTurn
  <2>2. rerolls'[d].pc = "restoring" /\ rerolls'[d].row = row
    BY <1>1, <2>1 DEF Reroll
  <2>3. row \in turns /\ jobs = {}
    BY <1>1, <1>6, <2>1, LastOfTurns DEF SourcesInHistory, RerollRuns
  <2> HIDE DEF row
  <2>4. ASSUME NEW m \in memories
        PROVE  \/ \E t \in turns' : t.id = m.source
               \/ row.id = m.source /\ row.created <= m.created
    <3>1. InHistory(m.source)
      BY <1>3, <2>1 DEF SourcesInHistory, RerollAsks, RerollEnded
    <3>2. PICK t \in turns : t.id = m.source
      BY <3>1 DEF InHistory
    <3>3. QED
      BY <2>1, <3>2 DEF SourcesInHistory
  <2>5. /\ memories' = memories /\ turns' \subseteq turns /\ jobs' = {} /\ turnSeq' = turnSeq
    BY <1>2, <2>1, <2>3
  <2>6. \A m \in memories' :
          \/ InHistory(m.source)'
          \/ \E e \in Rerolls : /\ rerolls'[e].pc \in {"restoring", "sweeping"}
                                /\ rerolls'[e].row.id = m.source
                                /\ rerolls'[e].row.created <= m.created
    BY <2>2, <2>4, <2>5 DEF InHistory
  <2>7. /\ \A m \in memories' : m.source <= turnSeq'
        /\ \A m \in memories', t \in turns' : t.id = m.source => t.created <= m.created
    BY <2>5 DEF SourcesInHistory
  <2>8. /\ \A r \in Requests : req'[r].pc \notin {"activity", "diagnostics", "ready"}
        /\ \A e \in Rerolls : rerolls'[e].pc # "draining"
    BY <1>3, <1>4, <2>2 DEF Stored
  <2>9. QED
    BY <2>5, <2>6, <2>7, <2>8 DEF SourcesInHistory
<1>7. CASE \/ DeleteLastTurn(d) /\ ~(SessionLive /\ turns # {})
           \/ RestoreAfterDelete(d)
  <2>1. UNCHANGED <<turns, memories>>
    BY <1>7 DEF DeleteLastTurn, RestoreAfterDelete
  <2>2. jobs = {}
    BY <1>7 DEF DeleteLastTurn, RestoreAfterDelete, SourcesInHistory, RerollRuns
  <2>3. \/ rerolls[d].pc = "deleting" /\ rerolls'[d].pc = "refused"
        \/ /\ rerolls[d].pc = "restoring" /\ rerolls'[d].pc = "sweeping"
           /\ rerolls'[d].row = rerolls[d].row
    BY <1>1, <1>7 DEF DeleteLastTurn, RestoreAfterDelete, Reroll
  <2>4. QED
    BY <1>2, <1>3, <1>4, <2>1, <2>2, <2>3
       DEF SourcesInHistory, InHistory, RerollRuns, RerollAsks, RerollEnded, Stored
<1>8. CASE SweepMemories(d)
  <2>1. /\ rerolls[d].pc = "sweeping" /\ rerolls'[d].pc = "unindexing"
        /\ memories' = MemoriesBefore(rerolls[d].row.created) /\ UNCHANGED <<session, turns>>
    BY <1>1, <1>8 DEF SweepMemories, Reroll
  <2>2. jobs = {}
    BY <2>1 DEF SourcesInHistory, RerollRuns
  <2>3. ASSUME NEW m \in memories'  PROVE m \in memories /\ InHistory(m.source)
    <3>1. m \in memories /\ m.created < rerolls[d].row.created
      BY <2>1 DEF MemoriesBefore
    <3>2. m.created \in Nat /\ rerolls[d].row.created \in Nat
      BY <1>1, <3>1 DEF MemoryRow, Reroll, TurnRow
    <3>3. ~(rerolls[d].row.created <= m.created)
      BY <3>1, <3>2
    <3>4. QED
      BY <3>1, <3>3 DEF SourcesInHistory, RerollAsks, RerollEnded
  <2>4. QED
    BY <1>2, <1>3, <1>4, <2>1, <2>2, <2>3
       DEF SourcesInHistory, InHistory, RerollRuns, RerollAsks, RerollEnded, Stored
<1>9. CASE UnindexSwept(d)
  <2>1. /\ rerolls[d].pc = "unindexing" /\ rerolls'[d].pc = "done"
        /\ UNCHANGED <<session, turns, memories>>
    BY <1>1, <1>9 DEF UnindexSwept, Reroll, storeVars
  <2>2. jobs = {} /\ \A m \in memories : InHistory(m.source)
    BY <2>1 DEF SourcesInHistory, RerollRuns, RerollAsks, RerollEnded
  <2>3. QED
    BY <1>2, <1>3, <1>4, <2>1, <2>2
       DEF SourcesInHistory, InHistory, RerollRuns, RerollAsks, RerollEnded, Stored
<1>10. QED
  BY <1>5, <1>6, <1>7, <1>8, <1>9 DEF RerollStep

LEMMA NextSources ==
    ASSUME Sequential, MaxCrashes = 0, TypeInv, OneClient, SourcesInHistory, [Next]_vars
    PROVE  SourcesInHistory'
<1>1. /\ req \in [Requests -> Request] /\ session \in SessionRow /\ StoreTypeOK
  BY DEF TypeInv, TypeOK, StoreTypeOK
<1>2. ClientMayAsk => /\ \A r \in Requests : ~RequestAsks(r)
                      /\ \A d \in Rerolls : ~RerollAsks(d)
  BY DEF ClientMayAsk, InFlight, RequestAsks, RerollAsks
<1>3. ASSUME NEW r \in Requests, NEW mode \in Modes, NEW p \in Personas, SubmitTurn(r, mode, p)
      PROVE  SourcesInHistory'
  <2>1. ClientMayAsk /\ UNCHANGED <<session, turns, memories, turnSeq, jobs, rerolls>>
    BY <1>3 DEF SubmitTurn, storeVars, memoryVars
  <2>2. req'[r].pc \notin Stored /\ \A s \in Requests : s # r => req'[s] = req[s]
    BY <1>1, <1>3 DEF SubmitTurn, Request, Stored
  <2>3. SameTurns
    BY <1>1, <2>1, DiagnosticsKeepTurns
  <2>4. QED
    BY <1>2, <2>1, <2>2, <2>3, RequestSources DEF SessionLive
<1>4. ASSUME NEW d \in Rerolls, StartReroll(d) \/ RerollStep(d)  PROVE SourcesInHistory'
  <2>1. /\ \A e \in Rerolls : e # d => ~RerollAsks(e)
        /\ \A r \in Requests : ~RequestAsks(r)
    <3>1. CASE StartReroll(d)
      BY <1>2, <3>1 DEF StartReroll
    <3>2. CASE RerollStep(d)
      <4>1. RerollAsks(d)
        BY <3>2 DEF RerollStep, ResumeReroll, DeleteLastTurn, RestoreAfterDelete, SweepMemories,
           UnindexSwept, RerollAsks, RerollEnded
      <4>2. QED
        BY <4>1, AsksAlone
    <3>3. QED
      BY <1>4, <3>1, <3>2
  <2>2. QED
    BY <1>4, <2>1, RerollStepSources
<1>5. CASE RunJob
  BY <1>5, JobStepSources DEF RunJob
<1>6. CASE (\E s \in Scenes : SwitchScene(s)) \/ PurgeVectors \/ UNCHANGED vars
  <2>1. UNCHANGED <<turns, memories, turnSeq, jobs, req, rerolls>>
    BY <1>6 DEF SwitchScene, PurgeVectors, vars, storeVars, memoryVars
  <2>2. SessionLive' => SessionLive
    BY <1>1, <1>6 DEF SwitchScene, UpdateActiveScene, PurgeVectors, vars, storeVars,
       SessionLive, SessionRow
  <2>3. QED
    BY <2>1, <2>2 DEF SourcesInHistory, InHistory, RerollRuns, PendingTurns
<1>7. CASE DeleteSession
  <2>1. memories' = {} /\ UNCHANGED <<turnSeq, jobs, req, rerolls>>
    BY <1>7 DEF DeleteSession, DeleteSessionRow, memoryVars
  <2>2. ~SessionLive'
    BY <1>1, <1>7 DEF DeleteSession, DeleteSessionRow, SessionLive, SessionRow
  <2>3. QED
    BY <2>1, <2>2 DEF SourcesInHistory, RerollRuns, PendingTurns
<1>8. CASE Crash
  BY <1>8 DEF Crash, TypeInv, TypeOK
<1>9. QED
  BY <1>3, <1>4, <1>5, <1>6, <1>7, <1>8, RequestStepSources DEF Next

\* With one client and no crash every memory, a roll-up included, comes between
\* requests from a turn that is still in the history, while jobs of earlier
\* turns still curate and fold (the drain, delete_last_turn and its sweep). A
\* crash between the delete and the sweep, or a second client's turn whose job
\* is scheduled during the drain, leaves an orphan.
THEOREM NoOrphans ==
    ASSUME Sequential, MaxCrashes = 0
    PROVE  Spec => []NoOrphanMemories
<1> DEFINE I == TypeInv /\ OneClient /\ SourcesInHistory
<1>1. Init => I
  <2>1. Init => SourcesInHistory
    BY DEF Init, StoreInit, MemoryInit, SourcesInHistory, RerollRuns, PendingTurns
  <2>2. QED
    BY <2>1, InitTypes, InitFollows
<1>2. I /\ [Next]_vars => I'
  BY NextTypes, NextOneClient, NextSources
<1>3. I => NoOrphanMemories
  BY DEF SourcesInHistory, NoOrphanMemories, InFlight, RerollEnded, InHistory
<1>4. QED
  BY <1>1, <1>2, <1>3, PTL DEF Spec

-----------------------------------------------------------------------------
(* The session's points of a set of points *)

SessionPointsOf(points) == {id \in Nat : <<"session_memory", id>> \in points}

LEMMA PointsRead ==
    ASSUME NEW points \in SUBSET Point
    PROVE  {v[2] : v \in {w \in points : w[1] = "session_memory"}} = SessionPointsOf(points)
<1> DEFINE read == {v[2] : v \in {w \in points : w[1] = "session_memory"}}
<1>1. \A v \in points : v = <<v[1], v[2]>> /\ v[2] \in Nat
  BY DEF Point
<1>2. ASSUME NEW id \in read  PROVE id \in SessionPointsOf(points)
  <2>1. PICK v \in points : v[1] = "session_memory" /\ v[2] = id
    OBVIOUS
  <2>2. QED
    BY <1>1, <2>1 DEF SessionPointsOf
<1>3. ASSUME NEW id \in SessionPointsOf(points)  PROVE id \in read
  <2>1. <<"session_memory", id>> \in points
    BY DEF SessionPointsOf
  <2>2. <<"session_memory", id>>[1] = "session_memory" /\ <<"session_memory", id>>[2] = id
    OBVIOUS
  <2>3. QED
    BY <2>1, <2>2
<1>4. QED
  BY <1>2, <1>3

\* An upsert adds its one point, the cap takes the surplus, unindex takes its ids.
LEMMA UpsertedPoints ==
    ASSUME NEW kind \in Kinds, NEW id \in Nat
    PROVE  SessionPointsOf(vectors \cup PointsOf(kind, id)) = SessionPointsOf(vectors) \cup {id}
BY DEF SessionPointsOf, PointsOf

LEMMA CappedPoints ==
    ASSUME NEW rows
    PROVE  SessionPointsOf(Capped(rows)) = SessionPointsOf(vectors) \ Stamps(Surplus(rows))
BY DEF SessionPointsOf, Capped, Stamps

LEMMA UnindexedPoints ==
    ASSUME NEW points, NEW ids
    PROVE  SessionPointsOf(points \ PointsOfAll(ids)) = SessionPointsOf(points) \ ids
BY DEF SessionPointsOf, PointsOfAll

LEMMA Reliable ==
    ASSUME IndexReliable, NEW points, NEW failures, BestEffort(points, failures)
    PROVE  vectors' = points
BY DEF BestEffort

-----------------------------------------------------------------------------
(* What a step leaves running *)

\* After a step of a job, only what the job has become may run.
OnlyRuns(k) == \A i \in jobs' : i = k \/ ~JobRuns(i)

LEMMA JobStepAlone ==
    ASSUME NEW j \in jobs, JobStep(j)
    PROVE  JobRuns(j) \/ LoopFree
BY DEF JobStep, UpsertMemory, EnforceCap, MarkFolded, UnindexFolded, JobRuns

LEMMA JobStepLeaves ==
    ASSUME OneRunner, NEW j \in jobs, JobStep(j), NEW k, jobs' \subseteq (jobs \ {j}) \cup {k}
    PROVE  OnlyRuns(k)
BY JobStepAlone, Alone DEF Idle, OnlyRuns

LEMMA ConsolidateLeavesIdle ==
    ASSUME TypeInv, NEW j \in jobs, NEW w, NEW rows, Consolidate(j, w, rows),
           \A k : jobs' \subseteq (jobs \ {j}) \cup {k} => OnlyRuns(k)
    PROVE  \A i \in jobs' : ~JobRuns(i)
<1>1. j \in Job
  BY DEF TypeInv, TypeOK, MemoryTypeOK
<1>2. CASE EndJob(j, w)
  <2>1. jobs' = jobs \ {j}
    BY <1>2 DEF EndJob
  <2>2. jobs' \subseteq (jobs \ {j}) \cup {j}
    BY <2>1
  <2>3. OnlyRuns(j)
    BY <2>2
  <2>4. QED
    BY <2>1, <2>3 DEF OnlyRuns
<1>3. ASSUME NEW batch, Replace(j, [j EXCEPT !.phase = "folding", !.written = w, !.batch = batch])
      PROVE  \A i \in jobs' : ~JobRuns(i)
  <2> DEFINE k == [j EXCEPT !.phase = "folding", !.written = w, !.batch = batch]
  <2>1. jobs' = (jobs \ {j}) \cup {k} /\ k.phase = "folding"
    BY <1>1, <1>3 DEF Replace, Job
  <2> HIDE DEF k
  <2>2. OnlyRuns(k)
    BY <2>1
  <2>3. QED
    BY <2>1, <2>2 DEF OnlyRuns, JobRuns
<1>4. QED
  BY <1>2, <1>3 DEF Consolidate

-----------------------------------------------------------------------------
(* The mirror *)

LEMMA IdleMirror ==
    ASSUME \A k \in jobs' : ~JobRuns(k), \A d \in Rerolls : rerolls'[d].pc # "unindexing",
           SessionPoints' = Stamps(Unfolded)'
    PROVE  IndexInStep'
BY DEF IndexInStep, JobRuns

\* A step that leaves rows and points alone, taken in step with the store.
LEMMA QuietMirror ==
    ASSUME SessionPoints = Stamps(Unfolded), UNCHANGED <<memories, vectors>>,
           \A k \in jobs' : ~JobRuns(k), \A d \in Rerolls : rerolls'[d].pc # "unindexing"
    PROVE  IndexInStep'
<1>1. SessionPoints' = Stamps(Unfolded)'
  BY DEF SessionPoints, Unfolded, Stamps
<1>2. QED
  BY <1>1, IdleMirror

\* A job that runs on: what it has just committed is missing, what it has yet to
\* unindex is there.
LEMMA RunningMirror ==
    ASSUME NEW k \in jobs', OnlyRuns(k), JobRuns(k),
           k.phase \in {"marking", "unindexing"} => k.kind = "summary",
           \A r \in Requests : ~RequestRuns(r)', \A d \in Rerolls : ~RerollRuns(d)',
           k.phase \in {"indexing", "marking"}
           => (SessionPoints' \cup {k.fresh}) \ OwedByJob(k) = Stamps(Unfolded)',
           k.phase \in {"capping", "unindexing"}
           => SessionPoints' \ OwedByJob(k) = Stamps(Unfolded)'
    PROVE  IndexInStep'
<1>1. ~LoopFree'
  BY DEF LoopFree
<1>2. \A i \in jobs' : JobRuns(i) => i = k
  BY DEF OnlyRuns
<1>3. \A d \in Rerolls : rerolls'[d].pc \notin {"deleting", "restoring", "sweeping", "unindexing"}
  BY DEF RerollRuns
<1>4. \A i \in jobs' :
         /\ i.phase \in {"indexing", "marking"}
            => (SessionPoints' \cup {i.fresh}) \ OwedByJob(i) = Stamps(Unfolded)'
         /\ i.phase \in {"capping", "unindexing"}
            => SessionPoints' \ OwedByJob(i) = Stamps(Unfolded)'
         /\ i.phase \in {"marking", "unindexing"} => i.kind = "summary"
  BY <1>2 DEF JobRuns
<1>5. QED
  BY <1>1, <1>3, <1>4 DEF IndexInStep

\* append_memories adds an unfolded row, the consolidated tag takes the batch's.
LEMMA AppendUnfolded ==
    ASSUME TypeInv, NEW n, NEW s, NEW a, NEW kind, NEW S, AppendMemory(n, s, a, kind, S)
    PROVE  Stamps(Unfolded)' = Stamps(Unfolded) \cup {clock + 1}
<1> DEFINE row == [created |-> clock + 1, source |-> n, scene |-> s, actor |-> a,
                   kind |-> kind, consolidated |-> FALSE, sources |-> S]
<1>1. memories' = memories \cup {row} /\ row.created = clock + 1 /\ row.consolidated = FALSE
  BY DEF AppendMemory
<1> HIDE DEF row
<1>2. Unfolded' = Unfolded \cup {row}
  BY <1>1 DEF Unfolded
<1>3. QED
  BY <1>1, <1>2 DEF Stamps

LEMMA MarkUnfolded ==
    ASSUME TypeInv, NEW ids, MarkConsolidated(ids)
    PROVE  Stamps(Unfolded)' = Stamps(Unfolded) \ ids
<1> DEFINE f == [m \in memories |->
                   IF m.created \in ids THEN [m EXCEPT !.consolidated = TRUE] ELSE m]
<1>1. \A m \in memories : /\ f[m].created = m.created
                          /\ m.created \in ids => f[m].consolidated = TRUE
                          /\ m.created \notin ids => f[m] = m
  BY DEF TypeInv, TypeOK, StoreTypeOK, MemoryRow
<1>2. memories' = {f[m] : m \in memories}
  BY DEF MarkConsolidated
<1> HIDE DEF f
<1>3. ASSUME NEW i \in Stamps(Unfolded)'  PROVE i \in Stamps(Unfolded) \ ids
  <2>1. PICK m \in memories : f[m].created = i /\ ~f[m].consolidated
    BY <1>2 DEF Stamps, Unfolded
  <2>2. QED
    BY <1>1, <2>1 DEF Stamps, Unfolded
<1>4. ASSUME NEW i \in Stamps(Unfolded) \ ids  PROVE i \in Stamps(Unfolded)'
  <2>1. PICK m \in memories : m.created = i /\ ~m.consolidated
    BY DEF Stamps, Unfolded
  <2>2. f[m] = m /\ f[m] \in memories'
    BY <1>1, <1>2, <1>4, <2>1
  <2>3. QED
    BY <2>1, <2>2 DEF Stamps, Unfolded
<1>5. QED
  BY <1>3, <1>4

\* What a job step that keeps to the model's awaits finds and leaves.
LEMMA JobStepMirrors ==
    ASSUME IndexReliable, SessionIndexCap = 0,
           TypeInv, TypeInv', OneRunner, IndexInStep, NEW j \in jobs, JobStep(j),
           UNCHANGED <<req, rerolls>>
    PROVE  IndexInStep'
<1>1. /\ j \in Job /\ j.fresh \in Nat /\ j.kind \in Kinds /\ clock \in Nat
      /\ vectors \in SUBSET Point /\ vectors' \in SUBSET Point /\ memories \in SUBSET MemoryRow
  BY DEF TypeInv, TypeOK, MemoryTypeOK, StoreTypeOK, Job
<1>2. /\ SessionPoints = SessionPointsOf(vectors)
      /\ SessionPoints' = SessionPointsOf(vectors')
  BY <1>1, PointsRead DEF SessionPoints
<1>3. \A k : jobs' \subseteq (jobs \ {j}) \cup {k} => OnlyRuns(k)
  BY JobStepLeaves
<1>4. /\ \A r \in Requests : ~RequestRuns(r)'
      /\ \A d \in Rerolls : ~RerollRuns(d)' /\ rerolls'[d].pc # "unindexing"
  BY JobStepAlone, Alone DEF Idle, RequestRuns, RerollRuns
<1>5. JobRuns(j) \/ SessionPoints = Stamps(Unfolded)
  BY JobStepAlone DEF IndexInStep
<1>6. CASE AbandonJob(j) \/ SkipSummary(j)
  <2>1. /\ jobs' = jobs \ {j} /\ UNCHANGED <<memories, vectors>>
        /\ j.phase \in {"scheduled", "folding"}
    BY <1>6 DEF AbandonJob, SkipSummary, EndJob, storeVars
  <2>2. OnlyRuns(j) /\ \A k \in jobs' : ~JobRuns(k)
    BY <1>3, <2>1 DEF OnlyRuns
  <2>3. QED
    BY <1>4, <1>5, <2>1, <2>2, QuietMirror DEF JobRuns
<1>7. CASE StartCuration(j)
  <2> DEFINE k == [j EXCEPT !.phase = "curating"]
  <2>1. /\ j.phase = "scheduled" /\ jobs' = (jobs \ {j}) \cup {k} /\ UNCHANGED <<memories, vectors>>
    BY <1>7 DEF StartCuration, Replace, storeVars
  <2>2. k.phase = "curating"
    BY <1>1 DEF Job
  <2> HIDE DEF k
  <2>3. \A i \in jobs' : ~JobRuns(i)
    BY <1>3, <2>1, <2>2 DEF OnlyRuns, JobRuns
  <2>4. QED
    BY <1>4, <1>5, <2>1, <2>3, QuietMirror DEF JobRuns
<1>8. CASE GateCuration(j) \/ CurateNothing(j)
  <2>1. /\ Consolidate(j, FALSE, memories) /\ UNCHANGED <<memories, vectors>>
        /\ j.phase \in {"scheduled", "curating"}
    BY <1>8 DEF GateCuration, CurateNothing
  <2>2. \A i \in jobs' : ~JobRuns(i)
    BY <1>3, <2>1, ConsolidateLeavesIdle
  <2>3. QED
    BY <1>4, <1>5, <2>1, <2>2, QuietMirror DEF JobRuns
<1>9. ASSUME NEW kind \in {"minor", "durable"}, CurateMemory(j, kind)  PROVE IndexInStep'
  <2> DEFINE k == [j EXCEPT !.phase = "indexing", !.fresh = clock + 1, !.kind = kind]
  <2>1. /\ j.phase = "curating" /\ AppendMemory(j.turn, j.scene, j.actor, kind, {})
        /\ jobs' = (jobs \ {j}) \cup {k} /\ UNCHANGED vectors
    BY <1>9 DEF CurateMemory, Replace
  <2>2. k.phase = "indexing" /\ k.fresh = clock + 1 /\ k.kind # "summary"
    BY <1>1 DEF Job
  <2> HIDE DEF k
  <2>3. Stamps(Unfolded)' = Stamps(Unfolded) \cup {clock + 1}
    BY <2>1, AppendUnfolded
  <2>4. SessionPoints' = Stamps(Unfolded)
    BY <1>5, <2>1 DEF SessionPoints, JobRuns
  <2>5. (SessionPoints' \cup {k.fresh}) \ OwedByJob(k) = Stamps(Unfolded)'
    BY <2>2, <2>3, <2>4 DEF OwedByJob
  <2>6. QED
    BY <1>3, <1>4, <2>1, <2>2, <2>5, RunningMirror DEF JobRuns
<1>10. CASE UpsertMemory(j)
  <2> DEFINE k == [j EXCEPT !.phase = "capping"]
  <2>1. /\ j.phase = "indexing" /\ vectors' = vectors \cup PointsOf(j.kind, j.fresh)
        /\ jobs' = (jobs \ {j}) \cup {k} /\ UNCHANGED memories
    BY <1>10 DEF UpsertMemory, IndexRaises, Replace
  <2>2. k.phase = "capping" /\ k.kind = j.kind /\ k.batch = j.batch
    BY <1>1 DEF Job
  <2> HIDE DEF k
  <2>3. SessionPoints' = SessionPoints \cup {j.fresh}
    BY <1>1, <1>2, <2>1, UpsertedPoints
  <2>4. (SessionPoints \cup {j.fresh}) \ OwedByJob(j) = Stamps(Unfolded)
    BY <2>1 DEF IndexInStep
  <2>5. OwedByJob(k) = OwedByJob(j) /\ Stamps(Unfolded)' = Stamps(Unfolded)
    BY <2>1, <2>2 DEF OwedByJob, Unfolded, Stamps
  <2>6. SessionPoints' \ OwedByJob(k) = Stamps(Unfolded)'
    BY <2>3, <2>4, <2>5
  <2>7. QED
    BY <1>3, <1>4, <2>1, <2>2, <2>6, RunningMirror DEF JobRuns
<1>11. CASE EnforceCap(j)
  <2>1. /\ j.phase = "capping" /\ vectors' = Capped(memories) /\ UNCHANGED memories
    BY <1>11 DEF EnforceCap, IndexRaises
  <2>2. SessionPoints' = SessionPoints
    <3>1. Stamps(Surplus(memories)) = {}
      BY DEF Surplus, Stamps
    <3>2. QED
      BY <1>2, <2>1, <3>1, CappedPoints
  <2>3. SessionPoints \ OwedByJob(j) = Stamps(Unfolded) /\ Stamps(Unfolded)' = Stamps(Unfolded)
    BY <2>1 DEF IndexInStep, Unfolded, Stamps
  <2>4. CASE j.kind = "summary"
    <3> DEFINE k == [j EXCEPT !.phase = "unindexing"]
    <3>1. jobs' = (jobs \ {j}) \cup {k}
      BY <1>11, <2>4 DEF EnforceCap, IndexRaises, Replace
    <3>2. k.phase = "unindexing" /\ k.kind = "summary" /\ k.batch = j.batch
      BY <1>1, <2>4 DEF Job
    <3> HIDE DEF k
    <3>3. SessionPoints' \ OwedByJob(k) = Stamps(Unfolded)'
      BY <2>1, <2>2, <2>3, <2>4, <3>2 DEF OwedByJob
    <3>4. QED
      BY <1>3, <1>4, <3>1, <3>2, <3>3, RunningMirror DEF JobRuns
  <2>5. CASE j.kind # "summary"
    <3>1. Consolidate(j, TRUE, memories)
      BY <1>11, <2>5 DEF EnforceCap, IndexRaises
    <3>2. \A i \in jobs' : ~JobRuns(i)
      BY <1>3, <3>1, ConsolidateLeavesIdle
    <3>3. SessionPoints' = Stamps(Unfolded)'
      BY <2>2, <2>3, <2>5 DEF OwedByJob
    <3>4. QED
      BY <1>4, <3>2, <3>3, IdleMirror
  <2>6. QED
    BY <2>4, <2>5
<1>12. CASE PersistSummary(j)
  <2> DEFINE k == [j EXCEPT !.phase = "marking", !.fresh = clock + 1, !.kind = "summary"]
  <2>1. /\ j.phase = "folding" /\ \E n, s, a, S : AppendMemory(n, s, a, "summary", S)
        /\ jobs' = (jobs \ {j}) \cup {k} /\ UNCHANGED vectors
    BY <1>12 DEF PersistSummary, Replace
  <2>2. k.phase = "marking" /\ k.fresh = clock + 1 /\ k.kind = "summary"
    BY <1>1 DEF Job
  <2> HIDE DEF k
  <2>3. Stamps(Unfolded)' = Stamps(Unfolded) \cup {clock + 1}
    BY <2>1, AppendUnfolded
  <2>4. SessionPoints' = Stamps(Unfolded)
    BY <1>5, <2>1 DEF SessionPoints, JobRuns
  <2>5. (SessionPoints' \cup {k.fresh}) \ OwedByJob(k) = Stamps(Unfolded)'
    BY <2>2, <2>3, <2>4 DEF OwedByJob
  <2>6. QED
    BY <1>3, <1>4, <2>1, <2>2, <2>5, RunningMirror DEF JobRuns
<1>13. CASE MarkFolded(j)
  <2> DEFINE k == [j EXCEPT !.phase = "indexing"]
  <2>1. /\ j.phase = "marking" /\ MarkConsolidated(Stamps(j.batch))
        /\ jobs' = (jobs \ {j}) \cup {k} /\ UNCHANGED vectors
    BY <1>13 DEF MarkFolded, Replace, Stamps
  <2>2. k.phase = "indexing" /\ k.fresh = j.fresh /\ k.batch = j.batch /\ k.kind = "summary"
    BY <1>1, <2>1 DEF Job, IndexInStep
  <2> HIDE DEF k
  <2>3. Stamps(Unfolded)' = Stamps(Unfolded) \ Stamps(j.batch)
    BY <2>1, MarkUnfolded
  <2>4. SessionPoints \cup {j.fresh} = Stamps(Unfolded) /\ SessionPoints' = SessionPoints
    BY <2>1 DEF IndexInStep, OwedByJob, SessionPoints
  <2>5. (SessionPoints' \cup {k.fresh}) \ OwedByJob(k) = Stamps(Unfolded)'
    BY <2>2, <2>3, <2>4 DEF OwedByJob
  <2>6. QED
    BY <1>3, <1>4, <2>1, <2>2, <2>5, RunningMirror DEF JobRuns
<1>14. CASE UnindexFolded(j)
  <2>1. /\ j.phase = "unindexing" /\ vectors' = vectors \ PointsOfAll(Stamps(j.batch))
        /\ jobs' = jobs \ {j} /\ UNCHANGED memories
    BY <1>14, Reliable DEF UnindexFolded, EndJob, Stamps
  <2>2. SessionPoints \ Stamps(j.batch) = Stamps(Unfolded)
    BY <2>1 DEF IndexInStep, OwedByJob
  <2>3. SessionPoints' = SessionPoints \ Stamps(j.batch)
    BY <1>2, <2>1, UnindexedPoints
  <2>4. \A i \in jobs' : ~JobRuns(i)
    BY <1>3, <2>1 DEF OnlyRuns
  <2>5. QED
    BY <1>4, <2>1, <2>2, <2>3, <2>4, IdleMirror DEF Unfolded, Stamps
<1>15. QED
  BY <1>6, <1>7, <1>8, <1>9, <1>10, <1>11, <1>12, <1>13, <1>14 DEF JobStep

\* The sweep leaves the points of exactly the rows it deletes to be unindexed.
LEMMA SweepMirrors ==
    ASSUME TypeInv, OneRunner, IndexInStep, NEW d \in Rerolls, SweepMemories(d)
    PROVE  IndexInStep'
<1> DEFINE stamp == rerolls[d].row.created
           kept == MemoriesBefore(stamp)
           swept == Stamps(memories \ kept)
<1>1. rerolls \in [Rerolls -> Reroll]
  BY DEF TypeInv, TypeOK
<1>2. /\ rerolls[d].pc = "sweeping" /\ memories' = kept /\ UNCHANGED <<vectors, jobs, req>>
      /\ rerolls' = [rerolls EXCEPT ![d].pc = "unindexing", ![d].swept = swept]
  BY DEF SweepMemories, Stamps, memoryVars
<1>3. /\ rerolls'[d].pc = "unindexing" /\ rerolls'[d].swept = swept
      /\ \A e \in Rerolls : e # d => rerolls'[e] = rerolls[e]
  BY <1>1, <1>2 DEF Reroll
<1>4. /\ \A j \in jobs' : ~JobRuns(j)
      /\ \A r \in Requests : ~RequestRuns(r)'
      /\ \A e \in Rerolls : e # d => ~RerollRuns(e)'
  BY <1>2, <1>3, Alone DEF RequestRuns, RerollRuns, Idle
<1>5. SessionPoints = Stamps(Unfolded) /\ SessionPoints' = SessionPoints
  BY <1>2 DEF IndexInStep, SessionPoints
<1>6. kept = {m \in memories : m.created < stamp}
  BY DEF MemoriesBefore
<1>7. \A m \in memories : m.created \in swept <=> ~(m.created < stamp)
  <2>1. ASSUME NEW m \in memories, m.created \in swept  PROVE ~(m.created < stamp)
    <3>1. PICK n \in memories \ kept : n.created = m.created
      BY <2>1 DEF Stamps
    <3>2. ~(n.created < stamp)
      BY <1>6, <3>1
    <3>3. QED
      BY <3>1, <3>2
  <2>2. ASSUME NEW m \in memories, ~(m.created < stamp)  PROVE m.created \in swept
    BY <1>6, <2>2 DEF Stamps
  <2>3. QED
    BY <2>1, <2>2
<1> HIDE DEF swept
<1>8. Unfolded' = {m \in Unfolded : m.created < stamp}
  BY <1>2, <1>6 DEF Unfolded
<1>9. Stamps(Unfolded)' = Stamps(Unfolded) \ swept
  BY <1>7, <1>8 DEF Stamps, Unfolded
<1>10. ~LoopFree'
  BY <1>3 DEF LoopFree, RerollRuns
<1>11. QED
  BY <1>3, <1>4, <1>5, <1>9, <1>10 DEF IndexInStep, JobRuns, RerollRuns

LEMMA UnindexMirrors ==
    ASSUME IndexReliable, TypeInv, TypeInv', OneRunner, IndexInStep,
           NEW d \in Rerolls, UnindexSwept(d)
    PROVE  IndexInStep'
<1>1. rerolls \in [Rerolls -> Reroll] /\ vectors \in SUBSET Point /\ vectors' \in SUBSET Point
  BY DEF TypeInv, TypeOK, MemoryTypeOK
<1>2. /\ rerolls[d].pc = "unindexing" /\ vectors' = vectors \ PointsOfAll(rerolls[d].swept)
      /\ UNCHANGED <<memories, jobs>> /\ rerolls'[d].pc = "done"
      /\ \A e \in Rerolls : e # d => rerolls'[e] = rerolls[e]
  BY <1>1, Reliable DEF UnindexSwept, storeVars, Reroll
<1>3. /\ \A j \in jobs' : ~JobRuns(j)
      /\ \A e \in Rerolls : rerolls'[e].pc # "unindexing"
  BY <1>2, Alone DEF RerollRuns, Idle
<1>4. SessionPoints' = SessionPoints \ rerolls[d].swept
  <2>1. SessionPoints = SessionPointsOf(vectors) /\ SessionPoints' = SessionPointsOf(vectors')
    BY <1>1, PointsRead DEF SessionPoints
  <2>2. QED
    BY <1>2, <2>1, UnindexedPoints
<1>5. SessionPoints' = Stamps(Unfolded)'
  BY <1>2, <1>4 DEF IndexInStep, Unfolded, Stamps
<1>6. QED
  BY <1>3, <1>5, IdleMirror

LEMMA NextMirrors ==
    ASSUME IndexReliable, SessionIndexCap = 0, ~MayDelete, MaxCrashes = 0,
           TypeInv, TypeInv', OneRunner, purge # "due", IndexInStep, [Next]_vars
    PROVE  IndexInStep'
<1>1. LoopFree => SessionPoints = Stamps(Unfolded)
  BY DEF IndexInStep
<1>2. ASSUME NEW r \in Requests, NEW mode \in Modes, NEW p \in Personas, SubmitTurn(r, mode, p)
      PROVE  IndexInStep'
  <2>1. LoopFree /\ UNCHANGED <<memories, vectors, jobs, rerolls>>
    BY <1>2 DEF SubmitTurn, storeVars, memoryVars
  <2>2. QED
    BY <1>1, <2>1, QuietMirror DEF LoopFree, RerollRuns
<1>3. ASSUME NEW r \in Requests, RequestStep(r) \/ Disconnect(r)  PROVE IndexInStep'
  <2>1. UNCHANGED <<memories, vectors, rerolls>>
    BY <1>3 DEF RequestStep, Disconnect, ProviderError, PersistTurn, CommitActivity, ReturnTurn,
       ScheduleStreamed, storeVars, memoryVars
  <2>2. UNCHANGED jobs \/ \E n, s, a : Schedule(n, s, a)
    BY <1>3 DEF RequestStep, Disconnect, ProviderError, PersistTurn, CommitActivity, ReturnTurn,
       ScheduleStreamed, memoryVars
  <2>3. RequestRuns(r) \/ LoopFree
    BY <1>3 DEF RequestStep, Disconnect, ProviderError, PersistTurn, CommitActivity, ReturnTurn,
       ScheduleStreamed, RequestRuns
  <2>4. SessionPoints = Stamps(Unfolded)
    BY <2>3 DEF IndexInStep
  <2>5. (\A j \in jobs : ~JobRuns(j)) /\ \A d \in Rerolls : ~RerollRuns(d)
    BY <2>3, Alone DEF Idle
  <2>6. \A k \in jobs' : ~JobRuns(k)
    BY <2>2, <2>5 DEF Schedule, JobRuns
  <2>7. QED
    BY <2>1, <2>4, <2>5, <2>6, QuietMirror DEF RerollRuns
<1>4. ASSUME NEW d \in Rerolls, StartReroll(d) \/ RerollStep(d)  PROVE IndexInStep'
  <2>1. CASE SweepMemories(d)
    BY <2>1, SweepMirrors
  <2>2. CASE UnindexSwept(d)
    BY <2>2, UnindexMirrors
  <2>3. CASE StartReroll(d) \/ ResumeReroll(d) \/ DeleteLastTurn(d) \/ RestoreAfterDelete(d)
    <3>1. UNCHANGED <<memories, vectors, jobs>>
      BY <2>3 DEF StartReroll, ResumeReroll, DeleteLastTurn, RestoreAfterDelete, storeVars,
         memoryVars
    <3>2. \/ LoopFree
          \/ RerollRuns(d) /\ rerolls[d].pc \in {"deleting", "restoring"}
      BY <2>3 DEF StartReroll, ResumeReroll, DeleteLastTurn, RestoreAfterDelete, RerollRuns
    <3>3. SessionPoints = Stamps(Unfolded)
      BY <1>1, <3>2 DEF IndexInStep
    <3>4. (\A j \in jobs : ~JobRuns(j)) /\ \A e \in Rerolls : e # d => ~RerollRuns(e)
      BY <3>2, Alone DEF Idle
    <3>5. /\ rerolls'[d].pc # "unindexing"
          /\ \A e \in Rerolls : e # d => rerolls'[e] = rerolls[e]
      <4>1. rerolls \in [Rerolls -> Reroll]
        BY DEF TypeInv, TypeOK
      <4>2. CASE StartReroll(d)
        BY <4>1, <4>2 DEF StartReroll, Reroll
      <4>3. CASE ResumeReroll(d)
        BY <4>1, <4>3 DEF ResumeReroll, Reroll
      <4>4. CASE DeleteLastTurn(d)
        BY <4>1, <4>4 DEF DeleteLastTurn, Reroll
      <4>5. CASE RestoreAfterDelete(d)
        BY <4>1, <4>5 DEF RestoreAfterDelete, Reroll
      <4>6. QED
        BY <2>3, <4>2, <4>3, <4>4, <4>5
    <3>6. \A e \in Rerolls : rerolls'[e].pc # "unindexing"
      BY <3>4, <3>5 DEF RerollRuns
    <3>7. QED
      BY <3>1, <3>3, <3>4, <3>6, QuietMirror
  <2>4. QED
    BY <1>4, <2>1, <2>2, <2>3 DEF RerollStep
<1>5. CASE RunJob
  BY <1>5, JobStepMirrors DEF RunJob
<1>6. CASE (\E s \in Scenes : SwitchScene(s)) \/ UNCHANGED vars
  <2>1. UNCHANGED <<memories, vectors, jobs, req, rerolls>>
    BY <1>6 DEF SwitchScene, vars, storeVars, memoryVars
  <2>2. /\ SessionPoints' = SessionPoints /\ Stamps(Unfolded)' = Stamps(Unfolded)
        /\ LoopFree' = LoopFree /\ \A r \in Requests : RequestRuns(r)' = RequestRuns(r)
    BY <2>1 DEF SessionPoints, Stamps, Unfolded, LoopFree, RequestRuns, RerollRuns
  <2>3. QED
    BY <2>1, <2>2 DEF IndexInStep
<1>7. CASE DeleteSession \/ PurgeVectors \/ Crash
  BY <1>7 DEF DeleteSession, PurgeVectors, Crash, TypeInv, TypeOK
<1>8. QED
  BY <1>2, <1>3, <1>4, <1>5, <1>6, <1>7 DEF Next

\* Without delete-session nothing is purged.
LEMMA NothingPurged ==
    ASSUME ~MayDelete
    PROVE  /\ Init => purge # "due"
           /\ purge # "due" /\ [Next]_vars => purge' # "due"
<1>1. Init => purge # "due"
  BY DEF Init
<1>2. ASSUME purge # "due", [Next]_vars  PROVE purge' # "due"
  <2>1. UNCHANGED purge
    BY <1>2 DEF Next, SubmitTurn, RequestStep, Disconnect, ProviderError, PersistTurn,
       CommitActivity, ReturnTurn, ScheduleStreamed, StartReroll, RerollStep, ResumeReroll,
       DeleteLastTurn, RestoreAfterDelete, SweepMemories, UnindexSwept, RunJob, SwitchScene,
       DeleteSession, PurgeVectors, Crash, vars
  <2>2. QED
    BY <1>2, <2>1
<1>3. QED
  BY <1>1, <1>2

LEMMA InitMirror == Init => IndexInStep
<1>1. SUFFICES ASSUME Init  PROVE IndexInStep
  OBVIOUS
<1>2. memories = {} /\ vectors = {} /\ jobs = {}
  BY <1>1 DEF Init, StoreInit, MemoryInit
<1>3. SessionPoints = {} /\ Stamps(Unfolded) = {}
  BY <1>2 DEF SessionPoints, Stamps, Unfolded
<1>4. \A d \in Rerolls : rerolls[d].pc = "new"
  BY <1>1 DEF Init
<1>5. QED
  BY <1>2, <1>3, <1>4 DEF IndexInStep

\* With a vector store that answers, no cap, no crash and no delete-session, no
\* vector of a swept or folded memory stays retrievable and no live memory is
\* missing, whichever jobs, folds and rerolls overlap (_persist_and_index,
\* _persist_consolidation, delete_last_turn). Each hypothesis is needed: a
\* failed call, a crash between a commit and its mirror, or a session deleted
\* under a running job leaves the two apart.
THEOREM IndexMirrors ==
    ASSUME IndexReliable, SessionIndexCap = 0, ~MayDelete, MaxCrashes = 0
    PROVE  Spec => []IndexMirrorsStore
<1> DEFINE I == TypeInv /\ OneRunner /\ purge # "due" /\ IndexInStep
<1>1. Init => I
  BY InitTypes, InitMirror, NothingPurged DEF Init, MemoryInit, OneRunner, RequestRuns, RerollRuns
<1>2. I /\ [Next]_vars => I'
  BY NextTypes, NextRuns, NothingPurged, NextMirrors
<1>3. I => IndexMirrorsStore
  BY DEF IndexInStep, IndexMirrorsStore, Stamps, Unfolded
<1>4. QED
  BY <1>1, <1>2, <1>3, PTL DEF Spec


-----------------------------------------------------------------------------
(* The cap *)

\* _enforce_session_cap's order: importance, then recency, decides between any
\* two rows with different stamps.
LEMMA OutranksOrders ==
    ASSUME NEW m \in MemoryRow, NEW n \in MemoryRow, NEW p \in MemoryRow
    PROVE  /\ ~Outranks(m, m)
           /\ Outranks(m, n) /\ Outranks(n, p) => Outranks(m, p)
           /\ m.created # n.created => Outranks(m, n) \/ Outranks(n, m)
<1>1. \A r \in {m, n, p} :
         /\ r.created \in Nat
         /\ \/ r.kind = "minor" /\ Importance[r.kind] = 3
            \/ r.kind = "summary" /\ Importance[r.kind] = 4
            \/ r.kind = "durable" /\ Importance[r.kind] = 5
  BY DEF MemoryRow, Kinds, Importance
<1>2. QED
  BY <1>1 DEF Outranks

\* Rows with their own stamps, none later than now, are finitely many.
LEMMA RowsFinite ==
    ASSUME NEW rows \in SUBSET MemoryRow, NEW now \in Nat,
           \A m \in rows : m.created <= now,
           \A m, n \in rows : m.created = n.created => m = n
    PROVE  IsFiniteSet(rows)
<1> DEFINE f == [m \in rows |-> m.created]
<1>1. f \in Injection(rows, 0 .. now)
  <2>1. f \in [rows -> 0 .. now]
    BY DEF MemoryRow
  <2>2. QED
    BY <2>1 DEF Injection, IsInjective
<1>2. IsFiniteSet(0 .. now)
  <2>1. 0 \in Int /\ now \in Int
    OBVIOUS
  <2>2. QED
    BY <2>1, FS_Interval
<1> HIDE DEF f
<1>3. QED
  BY <1>1, <1>2, FS_Injection

\* Rows have no more stamps than there are rows.
LEMMA StampsCount ==
    ASSUME NEW rows, IsFiniteSet(rows)
    PROVE  IsFiniteSet(Stamps(rows)) /\ Cardinality(Stamps(rows)) <= Cardinality(rows)
<1> DEFINE f == [m \in rows |-> m.created]
<1>1. f \in Surjection(rows, Stamps(rows))
  BY DEF Surjection, Stamps
<1> HIDE DEF f
<1>2. QED
  BY <1>1, FS_Surjection

\* What is not surplus fits the cap: the lowest ranked of the rows kept is
\* outranked by all the others, and by fewer rows than the cap.
LEMMA KeptFitsCap ==
    ASSUME NEW rows \in SUBSET MemoryRow, IsFiniteSet(rows),
           \A m, n \in rows : m.created = n.created => m = n,
           SessionIndexCap > 0
    PROVE  Cardinality(rows \ Surplus(rows)) <= SessionIndexCap
<1> DEFINE Above(m) == {n \in rows : Outranks(n, m)}
           kept == rows \ Surplus(rows)
           counts == {Cardinality(Above(m)) : m \in kept}
<1>1. SessionIndexCap \in Nat
  BY MemoryAssumption
<1>2. \A m \in rows : IsFiniteSet(Above(m)) /\ Cardinality(Above(m)) \in Nat
  BY FS_Subset, FS_CardinalityType
<1>3. \A m \in kept : m \in rows /\ Cardinality(Above(m)) < SessionIndexCap
  BY <1>1, <1>2 DEF Surplus
<1>4. IsFiniteSet(kept) /\ Cardinality(kept) \in Nat
  BY FS_Subset, FS_CardinalityType
<1>5. CASE kept = {}
  BY <1>1, <1>5, FS_EmptySet
<1>6. CASE kept # {}
  <2>1. counts \in SUBSET Nat /\ counts # {} /\ \A c \in counts : c <= SessionIndexCap
    <3> HIDE DEF Above, kept
    <3>1. \A m \in kept : /\ Cardinality(Above(m)) \in Nat
                          /\ Cardinality(Above(m)) <= SessionIndexCap
      BY <1>1, <1>2, <1>3
    <3>2. QED
      BY <1>6, <3>1
  <2>2. PICK c \in counts : \A e \in counts : e <= c
    <3> HIDE DEF counts
    <3>1. IsFiniteSet(counts)
      BY <1>1, <2>1, FS_BoundedSetOfNaturals
    <3>2. QED
      BY <2>1, <3>1, GreatestExists
  <2>3. PICK k \in kept : c = Cardinality(Above(k))
    OBVIOUS
  <2>4. ASSUME NEW m \in kept \ {k}  PROVE m \in Above(k)
    <3>1. m \in rows /\ k \in rows /\ m.created # k.created
      BY <1>3, <2>3, <2>4
    <3>2. SUFFICES ASSUME Outranks(k, m) PROVE FALSE
      BY <3>1, OutranksOrders
    <3>3. ~Outranks(k, k) /\ \A n \in Above(k) : Outranks(n, m)
      BY <3>1, <3>2, OutranksOrders
    <3>4. Above(k) \cup {k} \in SUBSET Above(m) /\ k \notin Above(k)
      BY <3>1, <3>2, <3>3
    <3>5. Cardinality(Above(m)) <= c
      BY <2>2, <2>4
    <3> HIDE DEF Above
    <3>6. Cardinality(Above(k) \cup {k}) = c + 1
      BY <1>2, <2>3, <3>1, <3>4, FS_AddElement
    <3>7. Cardinality(Above(k) \cup {k}) <= Cardinality(Above(m))
      BY <1>2, <3>1, <3>4, FS_Subset
    <3>8. QED
      BY <1>2, <2>3, <3>1, <3>5, <3>6, <3>7
  <2>5. kept \ {k} \in SUBSET Above(k)
    BY <2>4
  <2> HIDE DEF Above, kept, counts
  <2>6. Cardinality(kept \ {k}) <= Cardinality(Above(k)) /\ Cardinality(Above(k)) \in Nat
    BY <1>2, <1>3, <2>3, <2>5, FS_Subset
  <2>7. Cardinality(kept \ {k}) = Cardinality(kept) - 1
    BY <1>4, <2>3, FS_RemoveElement
  <2>8. Cardinality(Above(k)) < SessionIndexCap
    BY <1>3, <2>3
  <2>9. Cardinality(kept) <= SessionIndexCap
    BY <1>1, <1>4, <2>6, <2>7, <2>8
  <2>10. QED
    BY <2>9 DEF kept
<1>7. QED
  BY <1>5, <1>6


\* What the writes do to the stamps.
LEMMA AppendStamps ==
    ASSUME TypeInv, StampsUnique, NEW n, NEW s, NEW a, NEW kind, NEW S,
           AppendMemory(n, s, a, kind, S)
    PROVE  StampsUnique' /\ Stamps(memories)' = Stamps(memories) \cup {clock + 1}
<1> DEFINE row == [created |-> clock + 1, source |-> n, scene |-> s, actor |-> a,
                   kind |-> kind, consolidated |-> FALSE, sources |-> S]
<1>1. memories' = memories \cup {row} /\ row.created = clock + 1 /\ clock' = clock + 1
  BY DEF AppendMemory
<1>2. clock \in Nat /\ \A m \in memories : m.created \in Nat /\ m.created <= clock
  BY DEF TypeInv, TypeOK, StoreTypeOK, MemoryRow, StampsUnique
<1> HIDE DEF row
<1>3. \A m \in memories' : m.created <= clock'
  BY <1>1, <1>2
<1>4. \A m, o \in memories' : m.created = o.created => m = o
  BY <1>1, <1>2 DEF StampsUnique
<1>5. QED
  BY <1>1, <1>3, <1>4 DEF StampsUnique, Stamps

LEMMA MarkStamps ==
    ASSUME TypeInv, StampsUnique, NEW ids, MarkConsolidated(ids), UNCHANGED clock
    PROVE  StampsUnique' /\ Stamps(memories)' = Stamps(memories)
<1> DEFINE f == [m \in memories |->
                   IF m.created \in ids THEN [m EXCEPT !.consolidated = TRUE] ELSE m]
<1>1. \A m \in memories : f[m].created = m.created
  BY DEF TypeInv, TypeOK, StoreTypeOK, MemoryRow
<1>2. memories' = {f[m] : m \in memories}
  BY DEF MarkConsolidated
<1> HIDE DEF f
<1>3. ASSUME NEW m \in memories', NEW o \in memories', m.created = o.created  PROVE m = o
  <2>1. PICK m0 \in memories, o0 \in memories : m = f[m0] /\ o = f[o0]
    BY <1>2
  <2>2. m0 = o0
    BY <1>1, <1>3, <2>1 DEF StampsUnique
  <2>3. QED
    BY <2>1, <2>2
<1>4. \A m \in memories' : m.created <= clock'
  BY <1>1, <1>2 DEF StampsUnique
<1>5. Stamps(memories)' = Stamps(memories)
  BY <1>1, <1>2 DEF Stamps
<1>6. QED
  BY <1>3, <1>4, <1>5 DEF StampsUnique

LEMMA ShrinkStamps ==
    ASSUME TypeInv, TypeInv', StampsUnique, memories' \subseteq memories, clock <= clock'
    PROVE  StampsUnique'
<1>1. clock \in Nat /\ clock' \in Nat /\ \A m \in memories : m.created \in Nat
  BY DEF TypeInv, TypeOK, StoreTypeOK, MemoryRow
<1>2. QED
  BY <1>1 DEF StampsUnique

\* The points of stored rows are finitely many.
LEMMA PointsFinite ==
    ASSUME TypeInv, StampsUnique, NEW ids \in SUBSET Stamps(memories)
    PROVE  IsFiniteSet(ids) /\ Cardinality(ids) \in Nat
<1>1. clock \in Nat /\ ids \in SUBSET Nat /\ \A i \in ids : i <= clock
  BY DEF TypeInv, TypeOK, StoreTypeOK, MemoryRow, StampsUnique, Stamps
<1>2. QED
  BY <1>1, FS_BoundedSetOfNaturals, FS_CardinalityType

\* Enforcing the cap over the rows leaves points of rows that are not surplus.
LEMMA EnforcedFits ==
    ASSUME TypeInv, StampsUnique, SessionIndexCap > 0, NEW ids \in SUBSET Stamps(memories)
    PROVE  Cardinality(ids \ Stamps(Surplus(memories))) <= SessionIndexCap
<1> DEFINE kept == memories \ Surplus(memories)
           left == ids \ Stamps(Surplus(memories))
<1>1. memories \in SUBSET MemoryRow /\ clock \in Nat /\ SessionIndexCap \in Nat
  BY MemoryAssumption DEF TypeInv, TypeOK, StoreTypeOK
<1>2. IsFiniteSet(memories)
  BY <1>1, RowsFinite DEF StampsUnique
<1>3. Cardinality(kept) <= SessionIndexCap
  BY <1>1, <1>2, KeptFitsCap DEF StampsUnique
<1>4. left \in SUBSET Stamps(kept)
  BY DEF Stamps
<1>5. IsFiniteSet(kept)
  BY <1>2, FS_Subset
<1> HIDE DEF kept, left
<1>6. IsFiniteSet(Stamps(kept)) /\ Cardinality(Stamps(kept)) <= Cardinality(kept)
  BY <1>5, StampsCount
<1>7. IsFiniteSet(left) /\ Cardinality(left) <= Cardinality(Stamps(kept))
  BY <1>4, <1>6, FS_Subset
<1>8. Cardinality(left) \in Nat /\ Cardinality(Stamps(kept)) \in Nat /\ Cardinality(kept) \in Nat
  BY <1>5, <1>6, <1>7, FS_CardinalityType
<1>9. Cardinality(left) <= SessionIndexCap
  BY <1>1, <1>3, <1>6, <1>7, <1>8
<1>10. QED
  BY <1>9 DEF left

-----------------------------------------------------------------------------
(* The index within its cap *)

\* A stamp is one row's, and only a running job holds one that is not indexed.
LEMMA StampsStayPast ==
    ASSUME TypeInv, TypeInv', StampsPast, StampsUnique', clock <= clock',
           \A id \in SessionPoints' : \/ id \in SessionPoints
                                      \/ \E j \in jobs : JobRuns(j) /\ id = j.fresh,
           \A k \in jobs' : JobRuns(k) => \/ k.fresh = clock'
                                          \/ \E j \in jobs : JobRuns(j) /\ k.fresh = j.fresh
    PROVE  StampsPast'
<1>1. /\ clock \in Nat /\ clock' \in Nat /\ \A j \in jobs : j.fresh \in Nat
      /\ vectors \in SUBSET Point
  BY DEF TypeInv, TypeOK, StoreTypeOK, MemoryTypeOK, Job
<1>2. SessionPoints \in SUBSET Nat
  BY <1>1, PointsRead DEF SessionPoints, SessionPointsOf
<1>3. ASSUME NEW id \in SessionPoints'  PROVE id <= clock'
  <2>1. id \in Nat /\ id <= clock
    BY <1>1, <1>2 DEF StampsPast
  <2>2. QED
    BY <1>1, <2>1
<1>4. ASSUME NEW k \in jobs', JobRuns(k)  PROVE k.fresh <= clock'
  <2>1. CASE k.fresh = clock'
    BY <1>1, <2>1
  <2>2. CASE \E j \in jobs : JobRuns(j) /\ k.fresh = j.fresh
    <3>1. k.fresh \in Nat /\ k.fresh <= clock
      BY <1>1, <2>2 DEF StampsPast
    <3>2. QED
      BY <1>1, <3>1
  <2>3. QED
    BY <1>4, <2>1, <2>2
<1>5. QED
  BY <1>3, <1>4 DEF StampsPast

\* Live points that are only lost fit as long as no room is lost with them; one
\* more needs one more to spare.
LEMMA FewerFit ==
    ASSUME TypeInv, TypeInv', IndexWithinCap, StampsPast',
           LivePoints' \subseteq LivePoints,
           lapsed + Spare(jobs) <= lapsed' + Spare(jobs')
    PROVE  IndexWithinCap'
<1>1. LivePoints \in SUBSET Stamps(memories) /\ LivePoints' \in SUBSET LivePoints
  BY DEF LivePoints, Stamps
<1>2. IsFiniteSet(LivePoints) /\ Cardinality(LivePoints) \in Nat
  BY <1>1, PointsFinite DEF IndexWithinCap, StampsPast
<1>3. Cardinality(LivePoints') <= Cardinality(LivePoints) /\ Cardinality(LivePoints') \in Nat
  BY <1>1, <1>2, FS_Subset, FS_CardinalityType
<1>4. /\ SessionIndexCap \in Nat /\ lapsed \in Nat /\ lapsed' \in Nat
      /\ Spare(jobs) \in Nat /\ Spare(jobs') \in Nat
  BY MemoryAssumption DEF TypeInv, TypeOK, MemoryTypeOK, Spare
<1>5. SessionIndexCap > 0 => Cardinality(LivePoints) <= SessionIndexCap + lapsed + Spare(jobs)
  BY DEF IndexWithinCap
<1>6. SessionIndexCap > 0 => Cardinality(LivePoints') <= SessionIndexCap + lapsed' + Spare(jobs')
  BY <1>2, <1>3, <1>4, <1>5
<1>7. QED
  BY <1>6 DEF IndexWithinCap

LEMMA OneMoreFits ==
    ASSUME TypeInv, TypeInv', IndexWithinCap, StampsPast', NEW id,
           LivePoints' \subseteq LivePoints \cup {id},
           lapsed + Spare(jobs) + 1 <= lapsed' + Spare(jobs')
    PROVE  IndexWithinCap'
<1>1. LivePoints \in SUBSET Stamps(memories) /\ LivePoints' \in SUBSET (LivePoints \cup {id})
  BY DEF LivePoints, Stamps
<1>2. IsFiniteSet(LivePoints) /\ Cardinality(LivePoints) \in Nat
  BY <1>1, PointsFinite DEF IndexWithinCap, StampsPast
<1>3. /\ IsFiniteSet(LivePoints \cup {id})
      /\ Cardinality(LivePoints \cup {id}) <= Cardinality(LivePoints) + 1
      /\ Cardinality(LivePoints \cup {id}) \in Nat
  <2>1. CASE id \in LivePoints
    <3>1. LivePoints \cup {id} = LivePoints
      BY <2>1
    <3>2. QED
      BY <1>2, <3>1
  <2>2. CASE id \notin LivePoints
    <3>1. /\ IsFiniteSet(LivePoints \cup {id})
          /\ Cardinality(LivePoints \cup {id}) = Cardinality(LivePoints) + 1
      BY <1>2, <2>2, FS_AddElement
    <3>2. QED
      BY <1>2, <3>1
  <2>3. QED
    BY <2>1, <2>2
<1>4. /\ Cardinality(LivePoints') <= Cardinality(LivePoints \cup {id})
      /\ Cardinality(LivePoints') \in Nat
  BY <1>1, <1>3, FS_Subset, FS_CardinalityType
<1>5. /\ SessionIndexCap \in Nat /\ lapsed \in Nat /\ lapsed' \in Nat
      /\ Spare(jobs) \in Nat /\ Spare(jobs') \in Nat
  BY MemoryAssumption DEF TypeInv, TypeOK, MemoryTypeOK, Spare
<1>6. SessionIndexCap > 0 => Cardinality(LivePoints) <= SessionIndexCap + lapsed + Spare(jobs)
  BY DEF IndexWithinCap
<1>7. SessionIndexCap > 0 => Cardinality(LivePoints') <= SessionIndexCap + lapsed' + Spare(jobs')
  BY <1>2, <1>3, <1>4, <1>5, <1>6
<1>8. QED
  BY <1>7 DEF IndexWithinCap

\* A cap that is enforced restores itself, whatever there was before.
LEMMA EnforcedWithin ==
    ASSUME TypeInv, TypeInv', StampsPast, StampsPast', UNCHANGED memories,
           SessionPoints' = SessionPoints \ Stamps(Surplus(memories))
    PROVE  IndexWithinCap'
<1>1. LivePoints \in SUBSET Stamps(memories)
  BY DEF LivePoints, Stamps
<1>2. LivePoints' = LivePoints \ Stamps(Surplus(memories))
  BY DEF LivePoints
<1>3. LivePoints' \in SUBSET Stamps(memories)
  BY <1>1, <1>2
<1>4. Cardinality(LivePoints') \in Nat
  BY <1>3, PointsFinite DEF StampsPast
<1>5. SessionIndexCap > 0 => Cardinality(LivePoints') <= SessionIndexCap
  BY <1>1, <1>2, EnforcedFits DEF StampsPast
<1>6. SessionIndexCap \in Nat /\ lapsed' \in Nat /\ Spare(jobs') \in Nat
  BY MemoryAssumption DEF TypeInv, TypeOK, MemoryTypeOK, Spare
<1>7. QED
  BY <1>4, <1>5, <1>6 DEF IndexWithinCap

\* A step that writes nothing, or takes rows or points away.
LEMMA ShrinkWithin ==
    ASSUME TypeInv, TypeInv', IndexWithinCap, memories' \subseteq memories,
           vectors' \subseteq vectors, clock <= clock',
           \A k \in jobs' : JobRuns(k) => k \in jobs,
           lapsed + Spare(jobs) <= lapsed' + Spare(jobs')
    PROVE  IndexWithinCap'
<1>1. StampsUnique'
  BY ShrinkStamps DEF IndexWithinCap, StampsPast
<1>2. SessionPoints' \subseteq SessionPoints
  BY DEF SessionPoints
<1>3. LivePoints' \subseteq LivePoints
  BY <1>2 DEF LivePoints
<1>4. StampsPast'
  BY <1>1, <1>2, StampsStayPast DEF IndexWithinCap
<1>5. QED
  BY <1>3, <1>4, FewerFit

\* The loop's one running job is the one that has a point to spare.
LEMMA RunnerSpares ==
    ASSUME OneRunner, NEW j \in jobs, JobStep(j)
    PROVE  Spare(jobs) = IF j.phase = "capping" THEN 1 ELSE 0
BY JobStepAlone, Alone DEF Idle, Spare, JobRuns, LoopFree

\* A write that makes its job run: its row is not indexed yet.
LEMMA WriteWithin ==
    ASSUME TypeInv, TypeInv', IndexWithinCap, UNCHANGED <<vectors, lapsed>>, NEW k, OnlyRuns(k),
           k.fresh = clock + 1, Spare(jobs) = 0,
           \E n, s, a, kind, S : AppendMemory(n, s, a, kind, S)
    PROVE  IndexWithinCap'
<1>1. StampsUnique' /\ Stamps(memories)' = Stamps(memories) \cup {clock + 1}
  BY AppendStamps DEF IndexWithinCap, StampsPast
<1>2. clock \in Nat /\ clock' = clock + 1 /\ SessionPoints' = SessionPoints
  BY DEF AppendMemory, SessionPoints, TypeInv, TypeOK, StoreTypeOK
<1>3. \A id \in SessionPoints : id <= clock
  BY DEF IndexWithinCap, StampsPast
<1>4. \A i \in jobs' : JobRuns(i) => i.fresh = clock'
  BY <1>2 DEF OnlyRuns
<1>5. clock <= clock' /\ clock + 1 \notin SessionPoints
  BY <1>2, <1>3
<1>6. StampsPast'
  BY <1>1, <1>2, <1>4, <1>5, StampsStayPast DEF IndexWithinCap
<1>7. LivePoints' = LivePoints
  BY <1>1, <1>2, <1>5 DEF LivePoints, Stamps
<1>8. lapsed' = lapsed /\ lapsed \in Nat /\ Spare(jobs') \in Nat
  BY DEF TypeInv, TypeOK, MemoryTypeOK, Spare
<1>9. lapsed + Spare(jobs) <= lapsed' + Spare(jobs')
  BY <1>8
<1>10. QED
  BY <1>6, <1>7, <1>9, FewerFit

LEMMA JobStepWithin ==
    ASSUME TypeInv, TypeInv', OneRunner, IndexWithinCap, NEW j \in jobs, JobStep(j)
    PROVE  IndexWithinCap'
<1>1. /\ j \in Job /\ j.fresh \in Nat /\ j.kind \in Kinds /\ clock \in Nat /\ lapsed \in Nat
      /\ vectors \in SUBSET Point /\ vectors' \in SUBSET Point
      /\ StampsUnique /\ StampsPast
  BY DEF TypeInv, TypeOK, MemoryTypeOK, StoreTypeOK, Job, IndexWithinCap, StampsPast
<1>2. SessionPoints = SessionPointsOf(vectors) /\ SessionPoints' = SessionPointsOf(vectors')
  BY <1>1, PointsRead DEF SessionPoints
<1>3. \A k : jobs' \subseteq (jobs \ {j}) \cup {k} => OnlyRuns(k)
  BY JobStepLeaves
<1>4. /\ Spare(jobs) = IF j.phase = "capping" THEN 1 ELSE 0
      /\ Spare(jobs') \in Nat /\ lapsed' \in Nat
  BY RunnerSpares DEF Spare, TypeInv, TypeOK, MemoryTypeOK
<1>5. ASSUME NEW w, EndJob(j, w)  PROVE \A k \in jobs' : ~JobRuns(k)
  <2>1. jobs' = jobs \ {j}
    BY <1>5 DEF EndJob
  <2>2. jobs' \subseteq (jobs \ {j}) \cup {j}
    BY <2>1
  <2>3. OnlyRuns(j)
    BY <1>3, <2>2
  <2>4. QED
    BY <2>1, <2>3 DEF OnlyRuns
<1>6. IndexRaises(j) => \A k \in jobs' : ~JobRuns(k)
  BY <1>3, <1>5, ConsolidateLeavesIdle DEF IndexRaises
<1>7. ASSUME \A k \in jobs' : ~JobRuns(k), j.phase \notin {"capping"},
             UNCHANGED <<memories, clock, lapsed>>, vectors' \subseteq vectors
      PROVE  IndexWithinCap'
  <2>1. clock <= clock' /\ lapsed + Spare(jobs) <= lapsed' + Spare(jobs')
    BY <1>1, <1>4, <1>7
  <2>2. QED
    BY <1>7, <2>1, ShrinkWithin
<1>8. CASE AbandonJob(j) \/ SkipSummary(j)
  <2>1. /\ jobs' = jobs \ {j} /\ UNCHANGED <<memories, vectors, clock, lapsed>>
        /\ j.phase \in {"scheduled", "folding"}
    BY <1>8 DEF AbandonJob, SkipSummary, EndJob, storeVars
  <2>2. OnlyRuns(j) /\ \A k \in jobs' : ~JobRuns(k)
    BY <1>3, <2>1 DEF OnlyRuns
  <2>3. QED
    BY <1>7, <2>1, <2>2
<1>9. CASE StartCuration(j)
  <2> DEFINE k == [j EXCEPT !.phase = "curating"]
  <2>1. /\ jobs' = (jobs \ {j}) \cup {k} /\ UNCHANGED <<memories, vectors, clock, lapsed>>
        /\ j.phase = "scheduled"
    BY <1>9 DEF StartCuration, Replace, storeVars
  <2>2. k.phase = "curating"
    BY <1>1 DEF Job
  <2> HIDE DEF k
  <2>3. \A i \in jobs' : ~JobRuns(i)
    BY <1>3, <2>1, <2>2 DEF OnlyRuns, JobRuns
  <2>4. QED
    BY <1>7, <2>1, <2>3
<1>10. CASE GateCuration(j) \/ CurateNothing(j)
  <2>1. /\ Consolidate(j, FALSE, memories) /\ UNCHANGED <<memories, vectors, clock, lapsed>>
        /\ j.phase \in {"scheduled", "curating"}
    BY <1>10 DEF GateCuration, CurateNothing
  <2>2. \A i \in jobs' : ~JobRuns(i)
    BY <1>3, <2>1, ConsolidateLeavesIdle
  <2>3. QED
    BY <1>7, <2>1, <2>2
<1>11. ASSUME NEW kind \in {"minor", "durable"}, CurateMemory(j, kind)  PROVE IndexWithinCap'
  <2> DEFINE k == [j EXCEPT !.phase = "indexing", !.fresh = clock + 1, !.kind = kind]
  <2>1. /\ AppendMemory(j.turn, j.scene, j.actor, kind, {}) /\ j.phase = "curating"
        /\ jobs' = (jobs \ {j}) \cup {k} /\ UNCHANGED <<vectors, lapsed>>
    BY <1>11 DEF CurateMemory, Replace
  <2>2. k.fresh = clock + 1
    BY <1>1 DEF Job
  <2> HIDE DEF k
  <2>3. OnlyRuns(k) /\ Spare(jobs) = 0
    BY <1>3, <1>4, <2>1
  <2>4. QED
    BY <2>1, <2>2, <2>3, WriteWithin
<1>12. CASE PersistSummary(j)
  <2> DEFINE k == [j EXCEPT !.phase = "marking", !.fresh = clock + 1, !.kind = "summary"]
  <2>1. /\ \E n, s, a, S : AppendMemory(n, s, a, "summary", S)
        /\ jobs' = (jobs \ {j}) \cup {k} /\ UNCHANGED <<vectors, lapsed>> /\ j.phase = "folding"
    BY <1>12 DEF PersistSummary, Replace
  <2>2. k.fresh = clock + 1
    BY <1>1 DEF Job
  <2> HIDE DEF k
  <2>3. OnlyRuns(k) /\ Spare(jobs) = 0
    BY <1>3, <1>4, <2>1
  <2>4. QED
    BY <2>1, <2>2, <2>3, WriteWithin
<1>13. CASE UpsertMemory(j)
  <2>1. /\ j.phase = "indexing" /\ UNCHANGED <<memories, clock>>
    BY <1>13 DEF UpsertMemory
  <2>2. StampsUnique' /\ clock <= clock' /\ JobRuns(j)
    BY <1>1, <2>1 DEF StampsUnique, JobRuns
  <2>3. \A k \in jobs' : JobRuns(k) => k.fresh = j.fresh
    <3> DEFINE k == [j EXCEPT !.phase = "capping"]
    <3>1. k.fresh = j.fresh
      BY <1>1 DEF Job
    <3>2. Replace(j, k) \/ IndexRaises(j)
      BY <1>13 DEF UpsertMemory
    <3> HIDE DEF k
    <3>3. Replace(j, k) => OnlyRuns(k)
      BY <1>3 DEF Replace
    <3>4. QED
      BY <1>6, <3>1, <3>2, <3>3 DEF OnlyRuns
  <2>4. SessionPoints' \subseteq SessionPoints \cup {j.fresh}
    <3>1. vectors' \subseteq vectors \cup PointsOf(j.kind, j.fresh)
      BY <1>13 DEF UpsertMemory, UpsertFailures, PointsOf
    <3>2. SessionPointsOf(vectors') \subseteq SessionPointsOf(vectors \cup PointsOf(j.kind, j.fresh))
      BY <3>1 DEF SessionPointsOf
    <3>3. QED
      BY <1>1, <1>2, <3>2, UpsertedPoints
  <2>5. StampsPast'
    BY <1>1, <2>2, <2>3, <2>4, StampsStayPast
  <2>6. LivePoints' \subseteq LivePoints \cup {j.fresh}
    BY <2>1, <2>4 DEF LivePoints
  <2>7. \/ lapsed' = lapsed /\ Spare(jobs') = 1
        \/ lapsed' = lapsed + 1
    <3> DEFINE k == [j EXCEPT !.phase = "capping"]
    <3>1. k.phase = "capping"
      BY <1>1 DEF Job
    <3>2. (Replace(j, k) /\ lapsed' = lapsed) \/ IndexRaises(j)
      BY <1>13 DEF UpsertMemory
    <3> HIDE DEF k
    <3>3. QED
      BY <3>1, <3>2 DEF Replace, Spare, IndexRaises
  <2>8. lapsed + Spare(jobs) + 1 <= lapsed' + Spare(jobs')
    BY <1>1, <1>4, <2>1, <2>7
  <2>9. QED
    BY <2>5, <2>6, <2>8, OneMoreFits
<1>14. CASE EnforceCap(j)
  <2>1. j.phase = "capping" /\ UNCHANGED <<memories, clock>>
    BY <1>14 DEF EnforceCap
  <2>2. StampsUnique' /\ clock <= clock' /\ JobRuns(j)
    BY <1>1, <2>1 DEF StampsUnique, JobRuns
  <2>3. CASE IndexRaises(j) /\ UNCHANGED vectors
    <3>1. lapsed' = lapsed + 1 /\ \A k \in jobs' : ~JobRuns(k)
      BY <1>6, <2>3 DEF IndexRaises
    <3>2. lapsed + Spare(jobs) <= lapsed' + Spare(jobs')
      BY <1>1, <1>4, <2>1, <3>1
    <3>3. QED
      BY <2>1, <2>2, <2>3, <3>1, <3>2, ShrinkWithin
  <2>4. CASE vectors' = Capped(memories) /\ lapsed' = 0
    <3>1. SessionPoints' = SessionPoints \ Stamps(Surplus(memories))
      BY <1>2, <2>4, CappedPoints
    <3>2. \A k \in jobs' : JobRuns(k) => k.fresh = j.fresh
      <4> DEFINE k == [j EXCEPT !.phase = "unindexing"]
      <4>1. k.fresh = j.fresh
        BY <1>1 DEF Job
      <4>2. Replace(j, k) \/ Consolidate(j, TRUE, memories) \/ IndexRaises(j)
        BY <1>14 DEF EnforceCap
      <4> HIDE DEF k
      <4>3. Replace(j, k) => OnlyRuns(k)
        BY <1>3 DEF Replace
      <4>4. Consolidate(j, TRUE, memories) => \A i \in jobs' : ~JobRuns(i)
        BY <1>3, ConsolidateLeavesIdle
      <4>5. QED
        BY <1>6, <4>1, <4>2, <4>3, <4>4 DEF OnlyRuns
    <3>3. StampsPast'
      BY <1>1, <2>2, <3>1, <3>2, StampsStayPast
    <3>4. QED
      BY <1>1, <2>1, <3>1, <3>3, EnforcedWithin
  <2>5. QED
    BY <1>14, <2>3, <2>4 DEF EnforceCap
<1>15. CASE MarkFolded(j)
  <2> DEFINE k == [j EXCEPT !.phase = "indexing"]
  <2>1. /\ j.phase = "marking" /\ MarkConsolidated({m.created : m \in j.batch})
        /\ jobs' = (jobs \ {j}) \cup {k} /\ UNCHANGED <<vectors, clock, lapsed>>
    BY <1>15 DEF MarkFolded, Replace
  <2>2. k.fresh = j.fresh
    BY <1>1 DEF Job
  <2> HIDE DEF k
  <2>3. StampsUnique' /\ Stamps(memories)' = Stamps(memories)
    BY <1>1, <2>1, MarkStamps
  <2>4. SessionPoints' = SessionPoints /\ LivePoints' = LivePoints
    BY <2>1, <2>3 DEF SessionPoints, LivePoints, Stamps
  <2>5. \A i \in jobs' : JobRuns(i) => i.fresh = j.fresh
    BY <1>3, <2>1, <2>2 DEF OnlyRuns
  <2>6. JobRuns(j) /\ clock <= clock'
    BY <1>1, <2>1 DEF JobRuns
  <2>7. StampsPast'
    BY <1>1, <2>3, <2>4, <2>5, <2>6, StampsStayPast
  <2>8. lapsed + Spare(jobs) <= lapsed' + Spare(jobs')
    BY <1>1, <1>4, <2>1
  <2>9. QED
    BY <2>4, <2>7, <2>8, FewerFit
<1>16. CASE UnindexFolded(j)
  <2>1. /\ j.phase = "unindexing" /\ UNCHANGED <<memories, clock, lapsed>>
        /\ \A k \in jobs' : ~JobRuns(k)
    BY <1>5, <1>16 DEF UnindexFolded
  <2>2. vectors' \subseteq vectors
    BY <1>16 DEF UnindexFolded, BestEffort, UnindexFailures
  <2>3. QED
    BY <1>7, <2>1, <2>2
<1>17. QED
  BY <1>8, <1>9, <1>10, <1>11, <1>12, <1>13, <1>14, <1>15, <1>16 DEF JobStep

LEMMA NextWithin ==
    ASSUME TypeInv, TypeInv', OneRunner, IndexWithinCap, [Next]_vars
    PROVE  IndexWithinCap'
<1>1. clock \in Nat /\ lapsed \in Nat /\ Spare(jobs) \in {0, 1}
  BY DEF TypeInv, TypeOK, StoreTypeOK, MemoryTypeOK, Spare
<1>2. ASSUME memories' \subseteq memories, vectors' \subseteq vectors,
             clock' = clock \/ clock' = clock + 1, UNCHANGED lapsed,
             UNCHANGED jobs \/ \E n, s, a : Schedule(n, s, a)
      PROVE  IndexWithinCap'
  <2>1. clock <= clock'
    BY <1>1, <1>2
  <2>2. jobs \subseteq jobs' /\ \A k \in jobs' : k \in jobs \/ k.phase = "scheduled"
    BY <1>2 DEF Schedule
  <2>3. Spare(jobs') = Spare(jobs) /\ \A k \in jobs' : JobRuns(k) => k \in jobs
    BY <2>2 DEF Spare, JobRuns
  <2>4. lapsed + Spare(jobs) <= lapsed' + Spare(jobs')
    BY <1>1, <1>2, <2>3
  <2>5. QED
    BY <1>2, <2>1, <2>3, <2>4, ShrinkWithin
<1>3. CASE \E r \in Requests, mode \in Modes, p \in Personas : SubmitTurn(r, mode, p)
  BY <1>2, <1>3 DEF SubmitTurn, storeVars, memoryVars
<1>4. ASSUME NEW r \in Requests, RequestStep(r) \/ Disconnect(r)  PROVE IndexWithinCap'
  <2>1. UNCHANGED <<memories, vectors, lapsed>>
    BY <1>4 DEF RequestStep, Disconnect, ProviderError, PersistTurn, CommitActivity, ReturnTurn,
       ScheduleStreamed, storeVars, memoryVars
  <2>2. UNCHANGED jobs \/ \E n, s, a : Schedule(n, s, a)
    BY <1>4 DEF RequestStep, Disconnect, ProviderError, PersistTurn, CommitActivity, ReturnTurn,
       ScheduleStreamed, memoryVars
  <2>3. clock' = clock \/ clock' = clock + 1
    BY <1>4 DEF RequestStep, Disconnect, ProviderError, PersistTurn, AppendTurn, CommitActivity,
       ReturnTurn, ScheduleStreamed, storeVars
  <2>4. QED
    BY <1>2, <2>1, <2>2, <2>3
<1>5. ASSUME NEW d \in Rerolls, StartReroll(d) \/ RerollStep(d)  PROVE IndexWithinCap'
  <2>1. CASE SweepMemories(d)
    BY <1>2, <2>1 DEF SweepMemories, MemoriesBefore, memoryVars
  <2>2. CASE UnindexSwept(d)
    BY <1>2, <2>2 DEF UnindexSwept, BestEffort, UnindexFailures, storeVars
  <2>3. CASE StartReroll(d) \/ ResumeReroll(d) \/ DeleteLastTurn(d) \/ RestoreAfterDelete(d)
    BY <1>2, <2>3 DEF StartReroll, ResumeReroll, DeleteLastTurn, RestoreAfterDelete, storeVars,
       memoryVars
  <2>4. QED
    BY <1>5, <2>1, <2>2, <2>3 DEF RerollStep
<1>6. CASE RunJob
  BY <1>6, JobStepWithin DEF RunJob
<1>7. CASE (\E s \in Scenes : SwitchScene(s)) \/ DeleteSession \/ PurgeVectors \/ UNCHANGED vars
  BY <1>2, <1>7 DEF SwitchScene, DeleteSession, DeleteSessionRow, PurgeVectors, BestEffort, vars,
     storeVars, memoryVars
<1>8. CASE Crash
  <2>1. /\ jobs' = {} /\ UNCHANGED <<memories, vectors, clock>>
        /\ lapsed' = IF \E j \in jobs : j.phase = "capping" THEN lapsed + 1 ELSE lapsed
    BY <1>8 DEF Crash, storeVars
  <2>2. lapsed + Spare(jobs) <= lapsed' + Spare(jobs') /\ clock <= clock'
    BY <1>1, <2>1 DEF Spare
  <2>3. QED
    BY <2>1, <2>2, ShrinkWithin
<1>9. QED
  BY <1>3, <1>4, <1>5, <1>6, <1>7, <1>8 DEF Next

LEMMA InitWithin == Init => IndexWithinCap
<1>1. SUFFICES ASSUME Init  PROVE IndexWithinCap
  OBVIOUS
<1>2. memories = {} /\ vectors = {} /\ jobs = {} /\ lapsed = 0
  BY <1>1 DEF Init, StoreInit, MemoryInit
<1>3. SessionPoints = {} /\ LivePoints = {} /\ Cardinality(LivePoints) = 0
  BY <1>2, FS_EmptySet DEF SessionPoints, LivePoints
<1>4. SessionIndexCap \in Nat /\ Spare(jobs) = 0
  BY <1>2, MemoryAssumption DEF Spare
<1>5. QED
  BY <1>2, <1>3, <1>4 DEF IndexWithinCap, StampsPast, StampsUnique

\* The cap heals, with a vector store that may fail any call and a process that
\* may die between any two statements: the stored memories have at most one
\* point beyond the cap for each index call that was cut short since the last
\* one that ran to its end, whichever jobs, folds, rerolls, crashes and session
\* deletes overlap (index_memories, _enforce_session_cap). The cap is enforced
\* over the stored rows, so one call that goes through makes up for all before;
\* a point whose row is gone is out of its sight, and is not counted.
THEOREM IndexBounded == Spec => []SessionIndexBounded
<1> DEFINE I == TypeInv /\ OneRunner /\ IndexWithinCap
<1>1. Init => I
  BY InitTypes, InitWithin DEF Init, MemoryInit, OneRunner, RequestRuns, RerollRuns
<1>2. I /\ [Next]_vars => I'
  BY NextTypes, NextRuns, NextWithin
<1>3. I => SessionIndexBounded
  <2>1. SUFFICES ASSUME I, LoopFree, SessionIndexCap > 0
                 PROVE  Cardinality(LivePoints) <= SessionIndexCap + lapsed
    BY DEF SessionIndexBounded
  <2>2. Spare(jobs) = 0
    BY <2>1 DEF Spare, LoopFree, JobRuns
  <2>3. SessionIndexCap + lapsed + 0 = SessionIndexCap + lapsed
    BY <2>1, MemoryAssumption DEF TypeInv, TypeOK, MemoryTypeOK
  <2>4. QED
    BY <2>1, <2>2, <2>3 DEF IndexWithinCap
<1>4. QED
  BY <1>1, <1>2, <1>3, PTL DEF Spec
=============================================================================
