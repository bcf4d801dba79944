---------------------------- MODULE TurnApiHistory ----------------------------
(***************************************************************************)
(* Types, the history and the pointer into it, for every number of         *)
(* requests, rerolls, personas, scenes and crashes, and every setting of   *)
(* consolidation and index cap.                                            *)
(*                                                                         *)
(* Type correctness: a step that takes the last turn, or the first memory  *)
(* of a batch, is well typed only because there is one.  The first lemmas  *)
(* show that the least and the greatest element of a set of numbers exist, *)
(* hence that LastTurn, First and EarliestSource return a member of their  *)
(* argument, and TypeInv adds to TypeOK what they ask for.                 *)
(*                                                                         *)
(* History: the turns stay numbered 1..n: the number a new                 *)
(* row gets is one more than the greatest, its id and stamp are greater    *)
(* than all, and a reroll takes the row with the greatest number.  The     *)
(* persona pointer only moves to a persona the history backs: between the  *)
(* commit of a turn row and the commit of its override no reroll can take  *)
(* the row, because both run on one event loop (OneRunner) and neither     *)
(* awaits in between.  With one client at a time the pointer is moreover   *)
(* always the newest successful turn's.                                    *)
(***************************************************************************)
EXTENDS TurnApiInv, FiniteSetTheorems, TLAPS

\* A non-empty finite set of numbers has a greatest element: the one with the
\* smallest set of greater elements.
LEMMA GreatestExists ==
    ASSUME NEW T \in SUBSET Nat, IsFiniteSet(T), T # {}
    PROVE  \E x \in T : \A y \in T : y <= x
<1> DEFINE Above(x) == {z \in T : z > x}
           F == {Above(x) : x \in T}
<1>1. F \subseteq FiniteSubsetsOf(T) /\ F # {}
  <2>1. F \subseteq SUBSET T /\ F # {}
    OBVIOUS
  <2>2. QED
    BY <2>1, FS_FiniteSubsetsOfFinite
<1>2. PICK u \in F : \A v \in F : <<v, u>> \notin StrictSubsetOrdering(T)
  <2>1. IsWellFoundedOn(StrictSubsetOrdering(T), FiniteSubsetsOf(T))
    BY FS_StrictSubsetOrderingWellFounded
  <2> HIDE DEF F
  <2>2. QED
    BY <1>1, <2>1, WFMin
<1>3. PICK x \in T : u = Above(x)
  OBVIOUS
<1>4. ASSUME NEW y \in T, ~(y <= x)  PROVE FALSE
  <2>0. x \in Nat /\ y \in Nat
    OBVIOUS
  <2>1. y > x /\ y \in Above(x) /\ y \notin Above(y)
    BY <1>4, <2>0
  <2>2. ASSUME NEW z \in Above(y)  PROVE z \in Above(x)
    <3>1. z \in T /\ z > y
      BY <2>2
    <3>2. z \in Nat /\ y \in Nat /\ x \in Nat
      BY <3>1
    <3>3. z > x
      BY <2>1, <3>1, <3>2
    <3>4. QED
      BY <3>1, <3>3
  <2>3. Above(y) \in F /\ Above(x) \in SUBSET T /\ Above(y) \in SUBSET T
    OBVIOUS
  <2>4. <<Above(y), u>> \in StrictSubsetOrdering(T)
    BY <1>3, <2>1, <2>2, <2>3 DEF StrictSubsetOrdering
  <2>5. QED
    BY <1>2, <2>3, <2>4
<1>5. QED
  BY <1>4

\* A non-empty set of numbers has a least element: the one whose distance below
\* some fixed member is greatest.
LEMMA LeastExists ==
    ASSUME NEW T \in SUBSET Nat, T # {}
    PROVE  \E x \in T : \A y \in T : x <= y
<1>1. PICK n \in T : TRUE
  OBVIOUS
<1> DEFINE D == {n - z : z \in {w \in T : w <= n}}
<1>2. D \subseteq 0 .. n /\ D \in SUBSET Nat /\ n - n \in D
  OBVIOUS
<1>3. IsFiniteSet(D)
  <2> HIDE DEF D
  <2>1. 0 \in Int /\ n \in Int
    OBVIOUS
  <2>2. IsFiniteSet(0 .. n)
    BY <2>1, FS_Interval
  <2>3. QED
    BY <1>2, <2>2, FS_Subset
<1>4. PICK d \in D : \A e \in D : e <= d
  <2> HIDE DEF D
  <2>1. QED
    BY <1>2, <1>3, GreatestExists
<1>5. PICK x \in T : x <= n /\ d = n - x
  OBVIOUS
<1>6. ASSUME NEW y \in T  PROVE x <= y
  <2>1. n \in Nat /\ x \in Nat /\ y \in Nat
    OBVIOUS
  <2>2. CASE y <= n
    <3>1. n - y \in D
      BY <2>2
    <3>2. n - y <= n - x
      BY <1>4, <1>5, <3>1
    <3>3. QED
      BY <2>1, <3>2
  <2>3. CASE ~(y <= n)
    BY <1>5, <2>1, <2>3
  <2>4. QED
    BY <2>2, <2>3
<1>7. QED
  BY <1>6

\* LastTurn returns a row of its argument with the highest turn_index, when the
\* numbers are bounded, as the AUTOINCREMENT id bounds them.
LEMMA LastTurnIsLast ==
    ASSUME NEW rows, rows # {}, NEW bound \in Nat,
           \A t \in rows : t.index \in Nat /\ t.index <= bound
    PROVE  IsLast(LastTurn(rows), rows)
<1> DEFINE T == {t.index : t \in rows}
<1>1. T \in SUBSET Nat /\ T # {} /\ T \subseteq 0 .. bound
  OBVIOUS
<1>2. IsFiniteSet(T)
  <2> HIDE DEF T
  <2>1. 0 \in Int /\ bound \in Int
    OBVIOUS
  <2>2. IsFiniteSet(0 .. bound)
    BY <2>1, FS_Interval
  <2>3. QED
    BY <1>1, <2>2, FS_Subset
<1>3. PICK i \in T : \A k \in T : k <= i
  <2> HIDE DEF T
  <2>1. QED
    BY <1>1, <1>2, GreatestExists
<1>4. PICK t \in rows : t.index = i
  OBVIOUS
<1>5. IsLast(t, rows)
  BY <1>3, <1>4 DEF IsLast
<1>6. QED
  BY <1>5 DEF LastTurn, IsLast

\* First and EarliestSource find what they look for in a non-empty batch.
LEMMA BatchChoices ==
    ASSUME NEW batch \in SUBSET MemoryRow, batch # {}
    PROVE  /\ First(batch) \in batch
           /\ \A n \in batch : First(batch).created <= n.created
           /\ EarliestSource(batch) \in {m.source : m \in batch}
<1> DEFINE C == {m.created : m \in batch}
           S == {m.source : m \in batch}
<1>1. C \in SUBSET Nat /\ C # {} /\ S \in SUBSET Nat /\ S # {}
  BY DEF MemoryRow
<1>2. PICK c \in C : \A k \in C : c <= k
  <2> HIDE DEF C
  <2>1. QED
    BY <1>1, LeastExists
<1>3. PICK m \in batch : m.created = c
  OBVIOUS
<1>4. \A n \in batch : m.created <= n.created
  BY <1>2, <1>3
<1>5. PICK s \in S : \A k \in S : s <= k
  <2> HIDE DEF S
  <2>1. QED
    BY <1>1, LeastExists
<1>6. \A n \in batch : s <= n.source
  BY <1>5
<1>7. First(batch) \in batch /\ \A n \in batch : First(batch).created <= n.created
  BY <1>4 DEF First
<1>8. EarliestSource(batch) \in S
  BY <1>5, <1>6 DEF EarliestSource
<1>9. QED
  BY <1>7, <1>8

-----------------------------------------------------------------------------

\* The last of some stored turns is one of them, and no stored turn of them has
\* a higher number: what delete_last_turn and restore_persona rely on.
LEMMA LastOfTurns ==
    ASSUME StoreTypeOK, RowsBounded, NEW rows \in SUBSET turns, rows # {}
    PROVE  LastTurn(rows) \in rows /\ \A u \in rows : u.index <= LastTurn(rows).index
<1>1. \A t \in rows : t.index \in Nat /\ t.index <= turnSeq
  BY DEF StoreTypeOK, RowsBounded, TurnRow
<1>2. turnSeq \in Nat
  BY DEF StoreTypeOK
<1>3. IsLast(LastTurn(rows), rows)
  BY <1>1, <1>2, LastTurnIsLast
<1>4. QED
  BY <1>3 DEF IsLast

\* The number the next turn gets is at most its id.
LEMMA NextIndexBounded ==
    ASSUME StoreTypeOK, RowsBounded
    PROVE  NextIndex \in Nat /\ 1 <= NextIndex /\ NextIndex <= turnSeq + 1
<1>1. turnSeq \in Nat
  BY DEF StoreTypeOK
<1>2. CASE turns = {}
  BY <1>1, <1>2 DEF NextIndex
<1>3. CASE turns # {}
  <2>1. LastTurn(turns) \in turns
    BY <1>3, LastOfTurns
  <2>2. /\ LastTurn(turns).index \in Nat
        /\ 1 <= LastTurn(turns).index /\ LastTurn(turns).index <= turnSeq
    BY <1>1, <2>1 DEF StoreTypeOK, RowsBounded, TurnRow
  <2>3. NextIndex = LastTurn(turns).index + 1
    BY <1>3 DEF NextIndex
  <2>4. QED
    BY <1>1, <2>2, <2>3
<1>4. QED
  BY <1>2, <1>3

\* append_turn keeps the rows typed and bounded.
LEMMA AppendTurnTypes ==
    ASSUME StoreTypeOK, RowsBounded,
           NEW s \in Scenes, NEW p \in Personas, NEW o \in Outcomes, AppendTurn(s, p, o)
    PROVE  /\ turns' \in SUBSET TurnRow /\ turnSeq' \in Nat /\ clock' \in Nat
           /\ RowsBounded'
<1> DEFINE row == [id |-> turnSeq + 1, index |-> NextIndex, scene |-> s, persona |-> p,
                   outcome |-> o, created |-> clock + 1, diagnostics |-> "unset"]
<1>1. turnSeq \in Nat /\ clock \in Nat /\ turns \in SUBSET TurnRow
  BY DEF StoreTypeOK
<1>2. NextIndex \in Nat /\ 1 <= NextIndex /\ NextIndex <= turnSeq + 1
  BY NextIndexBounded
<1>3. turns' = turns \cup {row} /\ turnSeq' = turnSeq + 1 /\ clock' = clock + 1
  BY DEF AppendTurn
<1>4. row \in TurnRow
  BY <1>1, <1>2 DEF TurnRow, Diagnostics
<1>5. turns' \in SUBSET TurnRow /\ turnSeq' \in Nat /\ clock' \in Nat
  BY <1>1, <1>3, <1>4
<1>6. ASSUME NEW t \in turns'
      PROVE  1 <= t.index /\ t.index <= t.id /\ t.id <= turnSeq' /\ t.created <= clock'
  <2>1. CASE t \in turns
    <3>1. 1 <= t.index /\ t.index <= t.id /\ t.id <= turnSeq /\ t.created <= clock
      BY <2>1 DEF RowsBounded
    <3>2. t.id \in Nat /\ t.created \in Nat
      BY <1>1, <2>1 DEF TurnRow
    <3>3. QED
      BY <1>1, <1>3, <3>1, <3>2
  <2>2. CASE t = row
    BY <1>1, <1>2, <1>3, <2>2
  <2>3. QED
    BY <1>3, <2>1, <2>2
<1>7. QED
  BY <1>5, <1>6 DEF RowsBounded

-----------------------------------------------------------------------------

\* The same turn, whatever its diagnostics say.
SameTurn(t, u) ==
    /\ t.id = u.id /\ t.index = u.index /\ t.created = u.created
    /\ t.scene = u.scene /\ t.persona = u.persona /\ t.outcome = u.outcome

SameTurns ==
    /\ \A t \in turns' : \E u \in turns : SameTurn(t, u)
    /\ \A u \in turns : \E t \in turns' : SameTurn(t, u)

\* Writing diagnostics changes neither the set of turns nor their order.
LEMMA DiagnosticsKeepTurns ==
    ASSUME StoreTypeOK, NEW id, NEW w,
           UpdateTurnDiagnostics(id) \/ AppendMemoryOutcome(id, w) \/ UNCHANGED turns
    PROVE  turns' \in SUBSET TurnRow /\ SameTurns
<1> DEFINE f(t) == IF t.id = id THEN [t EXCEPT !.diagnostics = "unwritten"] ELSE t
           g(t) == IF t.id = id /\ t.diagnostics # "unset"
                   THEN [t EXCEPT !.diagnostics = IF w THEN "written" ELSE "unwritten"]
                   ELSE t
<1>1. turns \in SUBSET TurnRow
  BY DEF StoreTypeOK
<1>2. \A t \in turns : f(t) \in TurnRow /\ SameTurn(f(t), t)
  BY <1>1 DEF TurnRow, Diagnostics, SameTurn
<1>3. \A t \in turns : g(t) \in TurnRow /\ SameTurn(g(t), t)
  BY <1>1 DEF TurnRow, Diagnostics, SameTurn
<1>4. CASE UpdateTurnDiagnostics(id)
  <2>1. turns' = {f(t) : t \in turns}
    BY <1>4 DEF UpdateTurnDiagnostics
  <2> HIDE DEF f
  <2>2. QED
    BY <1>2, <2>1 DEF SameTurns
<1>5. CASE AppendMemoryOutcome(id, w)
  <2>1. turns' = {g(t) : t \in turns}
    BY <1>5 DEF AppendMemoryOutcome
  <2> HIDE DEF g
  <2>2. QED
    BY <1>3, <2>1 DEF SameTurns
<1>6. CASE UNCHANGED turns
  BY <1>1, <1>6 DEF SameTurns, SameTurn
<1>7. QED
  BY <1>4, <1>5, <1>6

\* Rows that stay, or go, stay bounded while the clock and the ids move on.
LEMMA BoundsKept ==
    ASSUME StoreTypeOK, RowsBounded, clock' \in Nat, clock <= clock', turnSeq' = turnSeq,
           turns' \subseteq turns \/ (SameTurns /\ turns' \in SUBSET TurnRow)
    PROVE  RowsBounded'
<1>1. SUFFICES ASSUME NEW t \in turns'
               PROVE  1 <= t.index /\ t.index <= t.id /\ t.id <= turnSeq' /\ t.created <= clock'
  BY DEF RowsBounded
<1>2. PICK u \in turns : t.id = u.id /\ t.index = u.index /\ t.created = u.created
  BY DEF SameTurns, SameTurn
<1>3. 1 <= u.index /\ u.index <= u.id /\ u.id <= turnSeq /\ u.created <= clock
  BY DEF RowsBounded
<1>4. u.created \in Nat /\ clock \in Nat
  BY DEF StoreTypeOK, TurnRow
<1>5. QED
  BY <1>2, <1>3, <1>4

\* append_memories writes a typed row at the next tick.
LEMMA AppendMemoryTypes ==
    ASSUME StoreTypeOK, NEW n \in Nat, NEW s \in Scenes, NEW a \in Personas,
           NEW k \in Kinds, NEW S \in SUBSET Nat, AppendMemory(n, s, a, k, S)
    PROVE  memories' \in SUBSET MemoryRow /\ clock' = clock + 1 /\ clock' \in Nat
<1> DEFINE row == [created |-> clock + 1, source |-> n, scene |-> s, actor |-> a,
                   kind |-> k, consolidated |-> FALSE, sources |-> S]
<1>1. memories \in SUBSET MemoryRow /\ clock \in Nat
  BY DEF StoreTypeOK
<1>2. row \in MemoryRow
  BY <1>1 DEF MemoryRow
<1>3. memories' = memories \cup {row} /\ clock' = clock + 1
  BY DEF AppendMemory
<1> HIDE DEF row
<1>4. QED
  BY <1>1, <1>2, <1>3

\* Tagging keeps the rows typed.
LEMMA MarkConsolidatedTypes ==
    ASSUME StoreTypeOK, NEW ids, MarkConsolidated(ids)
    PROVE  memories' \in SUBSET MemoryRow
<1> DEFINE f(m) == IF m.created \in ids THEN [m EXCEPT !.consolidated = TRUE] ELSE m
<1>1. \A m \in memories : f(m) \in MemoryRow
  BY DEF StoreTypeOK, MemoryRow
<1>2. memories' = {f(m) : m \in memories}
  BY DEF MarkConsolidated
<1> HIDE DEF f
<1>3. QED
  BY <1>1, <1>2

\* A fold takes stored memories.
LEMMA FoldBatchIsStored ==
    ASSUME NEW rows
    PROVE  FoldBatch(rows) \subseteq rows
BY DEF FoldBatch, Oldest, Aged, Foldable

-----------------------------------------------------------------------------

\* What a step of one job needs to keep the job records typed: the job it ends
\* goes, the one it changes stays a job.
LEMMA ConsolidateTypes ==
    ASSUME TypeInv, NEW j \in jobs, NEW w \in BOOLEAN, NEW rows \in SUBSET MemoryRow,
           Consolidate(j, w, rows), clock' \in Nat, clock <= clock', turnSeq' = turnSeq
    PROVE  /\ turns' \in SUBSET TurnRow /\ SameTurns /\ RowsBounded'
           /\ jobs' \in SUBSET Job /\ BatchesFilled'
<1> DEFINE batch == FoldBatch(rows)
           k == [j EXCEPT !.phase = "folding", !.written = w, !.batch = batch]
<1>1. StoreTypeOK /\ jobs \in SUBSET Job /\ RowsBounded /\ BatchesFilled
  BY DEF TypeInv, TypeOK, MemoryTypeOK
<1>2. batch \in SUBSET MemoryRow
  BY FoldBatchIsStored
<1>3. CASE batch = {}
  <2>1. EndJob(j, w)
    BY <1>3 DEF Consolidate
  <2>2. jobs' = jobs \ {j} /\ AppendMemoryOutcome(j.turn, w)
    BY <2>1 DEF EndJob
  <2>3. turns' \in SUBSET TurnRow /\ SameTurns
    BY <1>1, <2>2, DiagnosticsKeepTurns
  <2>4. RowsBounded'
    BY <1>1, <2>3, BoundsKept
  <2>5. QED
    BY <1>1, <2>2, <2>3, <2>4 DEF BatchesFilled
<1>4. CASE batch # {}
  <2>1. jobs' = (jobs \ {j}) \cup {k} /\ UNCHANGED turns
    BY <1>4 DEF Consolidate, Replace
  <2>2. turns' \in SUBSET TurnRow /\ SameTurns
    BY <1>1, <2>1, DiagnosticsKeepTurns
  <2>3. RowsBounded'
    BY <1>1, <2>2, BoundsKept
  <2>4. k \in Job /\ k.batch # {}
    BY <1>1, <1>2, <1>4 DEF Job, JobPhases
  <2>5. QED
    BY <1>1, <2>1, <2>2, <2>3, <2>4 DEF BatchesFilled
<1>5. QED
  BY <1>3, <1>4

\* Whatever the upserts of a row do or leave half done, they leave points.
LEMMA UpsertTypes ==
    ASSUME vectors \in SUBSET Point, NEW k \in Kinds, NEW id \in Nat
    PROVE  /\ vectors \cup PointsOf(k, id) \in SUBSET Point
           /\ UpsertFailures(id) \in SUBSET SUBSET Point
BY DEF UpsertFailures, PointsOf, Point

LEMMA BestEffortTypes ==
    ASSUME NEW points \in SUBSET Point, NEW failures \in SUBSET SUBSET Point,
           BestEffort(points, failures)
    PROVE  vectors' \in SUBSET Point
BY DEF BestEffort

\* A job that only moves on, to a phase that needs no batch or keeps its own.
LEMMA ReplaceTypes ==
    ASSUME TypeInv, NEW j \in jobs, NEW k \in Job, Replace(j, k),
           k.phase \in {"folding", "marking"} => k.batch # {}
    PROVE  jobs' \in SUBSET Job /\ BatchesFilled'
BY DEF TypeInv, TypeOK, MemoryTypeOK, BatchesFilled, Replace

\* After a call that raised, the job is gone or folds, with something to fold.
LEMMA IndexRaisesTypes ==
    ASSUME TypeInv, NEW j \in jobs, IndexRaises(j),
           UNCHANGED <<session, memories, turnSeq, clock>>
    PROVE  /\ turns' \in SUBSET TurnRow /\ RowsBounded'
           /\ jobs' \in SUBSET Job /\ BatchesFilled' /\ lapsed' \in Nat
<1>1. /\ StoreTypeOK /\ jobs \in SUBSET Job /\ RowsBounded /\ BatchesFilled
      /\ clock \in Nat /\ turnSeq \in Nat /\ lapsed \in Nat /\ memories \in SUBSET MemoryRow
  BY DEF TypeInv, TypeOK, MemoryTypeOK, StoreTypeOK
<1>2. lapsed' \in Nat
  BY <1>1 DEF IndexRaises
<1>3. CASE EndJob(j, j.written)
  <2>1. jobs' = jobs \ {j} /\ AppendMemoryOutcome(j.turn, j.written) /\ j.written \in BOOLEAN
    BY <1>1, <1>3 DEF EndJob, Job
  <2>2. turns' \in SUBSET TurnRow /\ SameTurns
    BY <1>1, <2>1, DiagnosticsKeepTurns
  <2>3. RowsBounded'
    BY <1>1, <2>2, BoundsKept
  <2>4. QED
    BY <1>1, <1>2, <2>1, <2>2, <2>3 DEF BatchesFilled
<1>4. CASE Consolidate(j, TRUE, memories)
  <2>1. clock' \in Nat /\ clock <= clock' /\ turnSeq' = turnSeq
    BY <1>1
  <2>2. turns' \in SUBSET TurnRow /\ RowsBounded' /\ jobs' \in SUBSET Job /\ BatchesFilled'
    BY <1>1, <1>4, <2>1, ConsolidateTypes
  <2>3. QED
    BY <1>2, <2>2
<1>5. QED
  BY <1>3, <1>4 DEF IndexRaises

\* Every step of a job keeps the store, the jobs and the index typed.
LEMMA JobStepTypes ==
    ASSUME TypeInv, NEW j \in jobs, JobStep(j)
    PROVE  StoreTypeOK' /\ MemoryTypeOK' /\ RowsBounded' /\ BatchesFilled'
<1>1. StoreTypeOK /\ MemoryTypeOK /\ RowsBounded /\ BatchesFilled
  BY DEF TypeInv, TypeOK
<1>2. /\ j \in Job /\ jobs \in SUBSET Job /\ vectors \in SUBSET Point
      /\ scheduled \in SUBSET Nat /\ lapsed \in Nat
  BY <1>1 DEF MemoryTypeOK
<1>3. /\ session \in SessionRow /\ turns \in SUBSET TurnRow /\ memories \in SUBSET MemoryRow
      /\ turnSeq \in Nat /\ clock \in Nat
  BY <1>1 DEF StoreTypeOK
<1>4. /\ j.turn \in Nat /\ j.scene \in Scenes /\ j.actor \in Personas /\ j.written \in BOOLEAN
      /\ j.batch \in SUBSET MemoryRow /\ j.fresh \in Nat /\ j.kind \in Kinds
  BY <1>2 DEF Job
<1>5. CASE AbandonJob(j)
  <2>1. jobs' = jobs \ {j} /\ UNCHANGED <<storeVars, scheduled, vectors, lapsed>>
    BY <1>5 DEF AbandonJob
  <2>2. QED
    BY <1>1, <2>1 DEF StoreTypeOK, MemoryTypeOK, RowsBounded, BatchesFilled, storeVars
<1>6. CASE StartCuration(j)
  <2>1. /\ Replace(j, [j EXCEPT !.phase = "curating"])
        /\ UNCHANGED <<storeVars, scheduled, vectors, lapsed>>
    BY <1>6 DEF StartCuration
  <2> DEFINE k == [j EXCEPT !.phase = "curating"]
  <2>2. k \in Job /\ k.phase = "curating"
    BY <1>2 DEF Job, JobPhases
  <2>3. jobs' \in SUBSET Job /\ BatchesFilled'
    <3> HIDE DEF k
    <3>1. Replace(j, k)
      BY <2>1 DEF k
    <3>2. QED
      BY <2>2, <3>1, ReplaceTypes
  <2>4. QED
    BY <1>1, <2>1, <2>3 DEF StoreTypeOK, MemoryTypeOK, RowsBounded, storeVars
<1>7. CASE GateCuration(j) \/ CurateNothing(j)
  <2>1. /\ Consolidate(j, FALSE, memories)
        /\ UNCHANGED <<session, memories, turnSeq, clock, scheduled, vectors, lapsed>>
    BY <1>7 DEF GateCuration, CurateNothing
  <2>2. clock' \in Nat /\ clock <= clock' /\ turnSeq' = turnSeq
    BY <1>3, <2>1
  <2>3. turns' \in SUBSET TurnRow /\ RowsBounded' /\ jobs' \in SUBSET Job /\ BatchesFilled'
    BY <1>3, <2>1, <2>2, ConsolidateTypes
  <2>4. QED
    BY <1>2, <1>3, <2>1, <2>3 DEF StoreTypeOK, MemoryTypeOK
<1>8. ASSUME NEW kind \in {"minor", "durable"}, CurateMemory(j, kind)
      PROVE  StoreTypeOK' /\ MemoryTypeOK' /\ RowsBounded' /\ BatchesFilled'
  <2> DEFINE k == [j EXCEPT !.phase = "indexing", !.fresh = clock + 1, !.kind = kind]
  <2>1. /\ AppendMemory(j.turn, j.scene, j.actor, kind, {})
        /\ Replace(j, k)
        /\ UNCHANGED <<session, turns, turnSeq, scheduled, vectors, lapsed>>
    BY <1>8 DEF CurateMemory
  <2>2. kind \in Kinds /\ k \in Job /\ k.phase = "indexing"
    <3>1. kind \in Kinds
      BY DEF Kinds
    <3>2. clock + 1 \in Nat /\ "indexing" \in JobPhases
      BY <1>3 DEF JobPhases
    <3>3. QED
      BY <1>2, <3>1, <3>2 DEF Job
  <2>3. jobs' \in SUBSET Job /\ BatchesFilled'
    BY <2>1, <2>2, ReplaceTypes
  <2>4. memories' \in SUBSET MemoryRow /\ clock' = clock + 1 /\ clock' \in Nat
    BY <1>1, <1>4, <2>1, <2>2, AppendMemoryTypes
  <2>5. RowsBounded'
    BY <1>1, <1>3, <2>1, <2>4, BoundsKept
  <2>6. QED
    BY <1>2, <1>3, <2>1, <2>3, <2>4, <2>5 DEF StoreTypeOK, MemoryTypeOK
<1>9. CASE UpsertMemory(j)
  <2> DEFINE k == [j EXCEPT !.phase = "capping"]
  <2>1. j.phase = "indexing" /\ UNCHANGED <<session, memories, turnSeq, clock, scheduled>>
    BY <1>9 DEF UpsertMemory
  <2>2. vectors' \in SUBSET Point
    <3>1. vectors \cup PointsOf(j.kind, j.fresh) \in SUBSET Point
          /\ UpsertFailures(j.fresh) \in SUBSET SUBSET Point
      BY <1>2, <1>4, UpsertTypes
    <3>2. QED
      BY <1>9, <3>1 DEF UpsertMemory
  <2>3. CASE Replace(j, k) /\ UNCHANGED <<turns, lapsed>>
    <3>1. k \in Job /\ k.phase = "capping"
      BY <1>2 DEF Job, JobPhases
    <3>2. jobs' \in SUBSET Job /\ BatchesFilled'
      <4> HIDE DEF k
      <4>1. Replace(j, k)
        BY <2>3
      <4>2. QED
        BY <3>1, <4>1, ReplaceTypes
    <3>3. QED
      BY <1>1, <1>2, <1>3, <2>1, <2>2, <2>3, <3>2 DEF StoreTypeOK, MemoryTypeOK, RowsBounded
  <2>4. CASE IndexRaises(j)
    <3>1. /\ turns' \in SUBSET TurnRow /\ RowsBounded'
          /\ jobs' \in SUBSET Job /\ BatchesFilled' /\ lapsed' \in Nat
      BY <2>1, <2>4, IndexRaisesTypes
    <3>2. QED
      BY <1>2, <1>3, <2>1, <2>2, <3>1 DEF StoreTypeOK, MemoryTypeOK
  <2>5. QED
    BY <1>9, <2>3, <2>4 DEF UpsertMemory
<1>10. CASE PersistSummary(j)
  <2> DEFINE k == [j EXCEPT !.phase = "marking", !.fresh = clock + 1, !.kind = "summary"]
             ids == {m.created : m \in j.batch}
  <2>1. /\ j.phase = "folding"
        /\ AppendMemory(EarliestSource(j.batch), First(j.batch).scene, First(j.batch).actor,
                        "summary", ids)
        /\ Replace(j, k)
        /\ UNCHANGED <<session, turns, turnSeq, scheduled, vectors, lapsed>>
    BY <1>10 DEF PersistSummary
  <2>2. j.batch # {}
    BY <1>1, <2>1 DEF BatchesFilled
  <2>3. First(j.batch) \in j.batch /\ EarliestSource(j.batch) \in {m.source : m \in j.batch}
    BY <1>4, <2>2, BatchChoices
  <2>4. /\ EarliestSource(j.batch) \in Nat /\ First(j.batch).scene \in Scenes
        /\ First(j.batch).actor \in Personas /\ ids \in SUBSET Nat /\ "summary" \in Kinds
    BY <1>4, <2>3 DEF MemoryRow, Kinds
  <2>5. k \in Job /\ k.batch # {}
    <3>1. clock + 1 \in Nat /\ "marking" \in JobPhases
      BY <1>3 DEF JobPhases
    <3>2. QED
      BY <1>2, <2>2, <2>4, <3>1 DEF Job
  <2>6. jobs' \in SUBSET Job /\ BatchesFilled'
    BY <2>1, <2>5, ReplaceTypes
  <2>7. memories' \in SUBSET MemoryRow /\ clock' = clock + 1 /\ clock' \in Nat
    <3> HIDE DEF ids
    <3>1. QED
      BY <1>1, <2>1, <2>4, AppendMemoryTypes
  <2>8. RowsBounded'
    BY <1>1, <1>3, <2>1, <2>7, BoundsKept
  <2>9. QED
    BY <1>2, <1>3, <2>1, <2>6, <2>7, <2>8 DEF StoreTypeOK, MemoryTypeOK
<1>11. CASE SkipSummary(j)
  <2>1. /\ jobs' = jobs \ {j} /\ AppendMemoryOutcome(j.turn, j.written)
        /\ UNCHANGED <<session, memories, turnSeq, clock, scheduled, vectors, lapsed>>
    BY <1>11 DEF SkipSummary, EndJob
  <2>2. turns' \in SUBSET TurnRow /\ SameTurns
    BY <1>1, <2>1, DiagnosticsKeepTurns
  <2>3. RowsBounded'
    BY <1>1, <1>3, <2>1, <2>2, BoundsKept
  <2>4. QED
    BY <1>1, <1>2, <1>3, <2>1, <2>2, <2>3 DEF StoreTypeOK, MemoryTypeOK, BatchesFilled
<1>12. CASE MarkFolded(j)
  <2> DEFINE k == [j EXCEPT !.phase = "indexing"]
  <2>1. /\ j.phase = "marking" /\ MarkConsolidated({m.created : m \in j.batch}) /\ Replace(j, k)
        /\ UNCHANGED <<session, turns, turnSeq, clock, scheduled, vectors, lapsed>>
    BY <1>12 DEF MarkFolded
  <2>2. k \in Job /\ k.batch # {}
    BY <1>1, <1>2, <2>1 DEF Job, JobPhases, BatchesFilled
  <2>3. jobs' \in SUBSET Job /\ BatchesFilled'
    BY <2>1, <2>2, ReplaceTypes
  <2>4. memories' \in SUBSET MemoryRow
    BY <1>1, <2>1, MarkConsolidatedTypes
  <2>5. QED
    BY <1>1, <1>2, <1>3, <2>1, <2>3, <2>4 DEF StoreTypeOK, MemoryTypeOK, RowsBounded
<1>13. CASE UnindexFolded(j)
  <2> DEFINE ids == {m.created : m \in j.batch}
  <2>1. /\ BestEffort(vectors \ PointsOfAll(ids), UnindexFailures(vectors, ids))
        /\ jobs' = jobs \ {j} /\ AppendMemoryOutcome(j.turn, j.written)
        /\ UNCHANGED <<session, memories, turnSeq, clock, scheduled, lapsed>>
    BY <1>13 DEF UnindexFolded, EndJob
  <2>2. turns' \in SUBSET TurnRow /\ SameTurns
    BY <1>1, <2>1, DiagnosticsKeepTurns
  <2>3. RowsBounded'
    BY <1>1, <1>3, <2>1, <2>2, BoundsKept
  <2>4. vectors' \in SUBSET Point
    <3> HIDE DEF ids
    <3>1. UnindexFailures(vectors, ids) \in SUBSET SUBSET Point
      BY <1>2 DEF UnindexFailures
    <3>2. vectors \ PointsOfAll(ids) \in SUBSET Point
      BY <1>2
    <3>3. QED
      BY <2>1, <3>1, <3>2, BestEffortTypes
  <2>5. QED
    BY <1>1, <1>2, <1>3, <2>1, <2>2, <2>3, <2>4 DEF StoreTypeOK, MemoryTypeOK, BatchesFilled
<1>14. CASE EnforceCap(j)
  <2> DEFINE k == [j EXCEPT !.phase = "unindexing"]
  <2>1. UNCHANGED <<session, memories, turnSeq, clock, scheduled>>
    BY <1>14 DEF EnforceCap
  <2>2. vectors' \in SUBSET Point
    <3>1. Capped(memories) \in SUBSET Point
      BY <1>2 DEF Capped
    <3>2. QED
      BY <1>2, <1>14, <3>1 DEF EnforceCap
  <2>3. CASE Replace(j, k) /\ UNCHANGED turns /\ lapsed' = 0
    <3>1. k \in Job /\ k.phase = "unindexing"
      BY <1>2 DEF Job, JobPhases
    <3>2. jobs' \in SUBSET Job /\ BatchesFilled'
      <4> HIDE DEF k
      <4>1. Replace(j, k)
        BY <2>3
      <4>2. QED
        BY <3>1, <4>1, ReplaceTypes
    <3>3. QED
      BY <1>1, <1>2, <1>3, <2>1, <2>2, <2>3, <3>2 DEF StoreTypeOK, MemoryTypeOK, RowsBounded
  <2>4. CASE Consolidate(j, TRUE, memories) /\ lapsed' = 0
    <3>1. clock' \in Nat /\ clock <= clock' /\ turnSeq' = turnSeq
      BY <1>3, <2>1
    <3>2. turns' \in SUBSET TurnRow /\ RowsBounded' /\ jobs' \in SUBSET Job /\ BatchesFilled'
      BY <1>3, <2>4, <3>1, ConsolidateTypes
    <3>3. QED
      BY <1>2, <1>3, <2>1, <2>2, <2>4, <3>2 DEF StoreTypeOK, MemoryTypeOK
  <2>5. CASE IndexRaises(j)
    <3>1. /\ turns' \in SUBSET TurnRow /\ RowsBounded'
          /\ jobs' \in SUBSET Job /\ BatchesFilled' /\ lapsed' \in Nat
      BY <2>1, <2>5, IndexRaisesTypes
    <3>2. QED
      BY <1>2, <1>3, <2>1, <2>2, <3>1 DEF StoreTypeOK, MemoryTypeOK
  <2>6. QED
    BY <1>14, <2>3, <2>4, <2>5 DEF EnforceCap
<1>15. QED
  BY <1>5, <1>6, <1>7, <1>8, <1>9, <1>10, <1>11, <1>12, <1>13, <1>14 DEF JobStep
-----------------------------------------------------------------------------

\* Schedule adds one fresh, well-typed job.
LEMMA ScheduleTypes ==
    ASSUME TypeInv, NEW n \in Nat, NEW s \in Scenes, NEW a \in Personas, Schedule(n, s, a)
    PROVE  jobs' \in SUBSET Job /\ scheduled' \in SUBSET Nat /\ BatchesFilled'
<1> DEFINE k == [turn |-> n, scene |-> s, actor |-> a, phase |-> "scheduled",
                 written |-> FALSE, batch |-> {}, fresh |-> 0, kind |-> "minor"]
<1>1. jobs \in SUBSET Job /\ scheduled \in SUBSET Nat /\ BatchesFilled
  BY DEF TypeInv, TypeOK, MemoryTypeOK
<1>2. k \in Job /\ k.phase = "scheduled"
  BY DEF Job, JobPhases, Kinds
<1>3. jobs' = jobs \cup {k} /\ scheduled' = scheduled \cup {n}
  BY DEF Schedule
<1> HIDE DEF k
<1>4. QED
  BY <1>1, <1>2, <1>3 DEF BatchesFilled

\* Restoring the persona after a reroll moves it to a persona a turn had.
LEMMA RestorePersonaTypes ==
    ASSUME TypeInv, NEW row, RestorePersona(row)
    PROVE  session' \in SessionRow
<1>1. session \in SessionRow /\ turns \in SUBSET TurnRow /\ StoreTypeOK /\ RowsBounded
  BY DEF TypeInv, TypeOK, StoreTypeOK
<1>2. CASE UNCHANGED session
  BY <1>1, <1>2
<1>3. CASE SuccessTurns # {} /\ UpdateActivePersona(LastTurn(SuccessTurns).persona)
  <2>1. SuccessTurns \in SUBSET turns
    BY DEF SuccessTurns
  <2>2. LastTurn(SuccessTurns) \in SuccessTurns
    BY <1>1, <1>3, <2>1, LastOfTurns
  <2>3. LastTurn(SuccessTurns).persona \in Personas
    BY <1>1, <2>1, <2>2 DEF TurnRow
  <2>4. QED
    BY <1>1, <1>3, <2>3 DEF UpdateActivePersona, SessionRow
<1>4. QED
  BY <1>2, <1>3 DEF RestorePersona

\* What a step of a request keeps typed.
LEMMA RequestStepTypes ==
    ASSUME TypeInv, NEW r \in Requests, RequestStep(r) \/ Disconnect(r)
    PROVE  TypeInv'
<1>1. StoreTypeOK /\ MemoryTypeOK /\ RowsBounded /\ BatchesFilled
  BY DEF TypeInv, TypeOK
<1>2. /\ req \in [Requests -> Request] /\ rerolls \in [Rerolls -> Reroll]
      /\ purge \in {"none", "due", "done"} /\ crashes \in Nat
  BY DEF TypeInv, TypeOK
<1>3. /\ req[r].scene \in Scenes /\ req[r].persona \in Personas
      /\ req[r].outcome \in Outcomes /\ req[r].turn \in Nat
  BY <1>2 DEF Request
<1>4. /\ session \in SessionRow /\ turns \in SUBSET TurnRow /\ memories \in SUBSET MemoryRow
      /\ turnSeq \in Nat /\ clock \in Nat
  BY <1>1 DEF StoreTypeOK
<1>5. CASE ProviderError(r)
  <2>1. req' = [req EXCEPT ![r].pc = "failed"] /\ UNCHANGED <<storeVars, memoryVars, rerolls, purge, crashes>>
    BY <1>5 DEF ProviderError
  <2>2. req' \in [Requests -> Request]
    BY <1>2, <2>1 DEF Request, RequestPcs
  <2>3. QED
    BY <1>1, <1>2, <2>1, <2>2 DEF TypeInv, TypeOK, StoreTypeOK, MemoryTypeOK, RowsBounded,
       BatchesFilled, storeVars, memoryVars
<1>6. CASE Disconnect(r)
  <2>1. req' = [req EXCEPT ![r].pc = "disconnected"] /\ UNCHANGED <<storeVars, memoryVars, rerolls, purge, crashes>>
    BY <1>6 DEF Disconnect
  <2>2. req' \in [Requests -> Request]
    BY <1>2, <2>1 DEF Request, RequestPcs
  <2>3. QED
    BY <1>1, <1>2, <2>1, <2>2 DEF TypeInv, TypeOK, StoreTypeOK, MemoryTypeOK, RowsBounded,
       BatchesFilled, storeVars, memoryVars
<1>7. ASSUME NEW o \in Outcomes, PersistTurn(r, o)  PROVE TypeInv'
  <2>1. UNCHANGED <<session, memories, memoryVars, rerolls, purge, crashes>>
    BY <1>7 DEF PersistTurn
  <2>2. CASE SessionLive
    <3>1. /\ AppendTurn(req[r].scene, req[r].persona, o)
          /\ req' = [req EXCEPT ![r].pc = "activity", ![r].outcome = o, ![r].turn = turnSeq + 1]
      BY <1>7, <2>2 DEF PersistTurn
    <3>2. turns' \in SUBSET TurnRow /\ turnSeq' \in Nat /\ clock' \in Nat /\ RowsBounded'
      BY <1>1, <1>3, <3>1, AppendTurnTypes
    <3>3. req' \in [Requests -> Request]
      <4>1. turnSeq + 1 \in Nat /\ "activity" \in RequestPcs
        BY <1>4 DEF RequestPcs
      <4>2. [req[r] EXCEPT !.pc = "activity", !.outcome = o, !.turn = turnSeq + 1] \in Request
        BY <1>2, <4>1 DEF Request
      <4>3. req' = [req EXCEPT ![r] = [req[r] EXCEPT !.pc = "activity", !.outcome = o,
                                                     !.turn = turnSeq + 1]]
        BY <1>2, <3>1
      <4>4. QED
        BY <1>2, <4>2, <4>3
    <3>4. QED
      BY <1>1, <1>2, <2>1, <3>2, <3>3 DEF TypeInv, TypeOK, StoreTypeOK, MemoryTypeOK,
         BatchesFilled, memoryVars
  <2>3. CASE ~SessionLive
    <3>1. /\ req' = [req EXCEPT ![r].pc = StoreErrorPc(o), ![r].outcome = o]
          /\ UNCHANGED <<turns, turnSeq, clock>>
      BY <1>7, <2>3 DEF PersistTurn
    <3>2. StoreErrorPc(o) \in RequestPcs
      BY DEF StoreErrorPc, RequestPcs
    <3>3. req' \in [Requests -> Request]
      BY <1>2, <3>1, <3>2 DEF Request
    <3>4. QED
      BY <1>1, <1>2, <2>1, <3>1, <3>3 DEF TypeInv, TypeOK, StoreTypeOK, MemoryTypeOK,
         RowsBounded, BatchesFilled, memoryVars
  <2>4. QED
    BY <2>2, <2>3
<1>8. CASE CommitActivity(r)
  <2>1. /\ req' = [req EXCEPT ![r].pc =
                     IF SessionLive THEN "diagnostics" ELSE StoreErrorPc(req[r].outcome)]
        /\ UpdateActivePersona(req[r].persona) \/ UNCHANGED session
        /\ UNCHANGED <<turns, memories, turnSeq, clock, memoryVars, rerolls, purge, crashes>>
    BY <1>8 DEF CommitActivity
  <2>2. StoreErrorPc(req[r].outcome) \in RequestPcs /\ "diagnostics" \in RequestPcs
    BY DEF StoreErrorPc, RequestPcs
  <2>3. req' \in [Requests -> Request]
    BY <1>2, <2>1, <2>2 DEF Request
  <2>4. session' \in SessionRow
    BY <1>3, <1>4, <2>1 DEF UpdateActivePersona, SessionRow
  <2>5. QED
    BY <1>1, <1>2, <2>1, <2>3, <2>4 DEF TypeInv, TypeOK, StoreTypeOK, MemoryTypeOK,
       RowsBounded, BatchesFilled, memoryVars
<1>9. CASE ReturnTurn(r)
  <2>1. /\ UpdateTurnDiagnostics(req[r].turn)
        /\ Schedule(req[r].turn, req[r].scene, req[r].persona) \/ UNCHANGED <<jobs, scheduled>>
        /\ UNCHANGED <<session, memories, turnSeq, clock, vectors, lapsed, rerolls, purge, crashes>>
    BY <1>9 DEF ReturnTurn
  <2>2. req' \in [Requests -> Request]
    <3>1. req' = [req EXCEPT ![r].pc = IF req[r].mode = "post" THEN "done" ELSE "ready"]
      BY <1>9 DEF ReturnTurn
    <3>2. QED
      BY <1>2, <3>1 DEF Request, RequestPcs
  <2>3. turns' \in SUBSET TurnRow /\ SameTurns
    BY <1>1, <2>1, DiagnosticsKeepTurns
  <2>4. RowsBounded'
    BY <1>1, <1>4, <2>1, <2>3, BoundsKept
  <2>5. jobs' \in SUBSET Job /\ scheduled' \in SUBSET Nat /\ BatchesFilled'
    <3>1. CASE Schedule(req[r].turn, req[r].scene, req[r].persona)
      BY <1>3, <3>1, ScheduleTypes
    <3>2. CASE UNCHANGED <<jobs, scheduled>>
      BY <1>1, <3>2 DEF MemoryTypeOK, BatchesFilled
    <3>3. QED
      BY <2>1, <3>1, <3>2
  <2>6. QED
    BY <1>1, <1>2, <2>1, <2>2, <2>3, <2>4, <2>5 DEF TypeInv, TypeOK, StoreTypeOK, MemoryTypeOK
<1>10. CASE ScheduleStreamed(r)
  <2>1. /\ Schedule(req[r].turn, req[r].scene, req[r].persona) \/ UNCHANGED <<jobs, scheduled>>
        /\ req' = [req EXCEPT ![r].pc = "done"]
        /\ UNCHANGED <<storeVars, vectors, lapsed, rerolls, purge, crashes>>
    BY <1>10 DEF ScheduleStreamed
  <2>2. req' \in [Requests -> Request]
    BY <1>2, <2>1 DEF Request, RequestPcs
  <2>3. jobs' \in SUBSET Job /\ scheduled' \in SUBSET Nat /\ BatchesFilled'
    <3>1. CASE Schedule(req[r].turn, req[r].scene, req[r].persona)
      BY <1>3, <3>1, ScheduleTypes
    <3>2. CASE UNCHANGED <<jobs, scheduled>>
      BY <1>1, <3>2 DEF MemoryTypeOK, BatchesFilled
    <3>3. QED
      BY <2>1, <3>1, <3>2
  <2>4. QED
    BY <1>1, <1>2, <2>1, <2>2, <2>3 DEF TypeInv, TypeOK, StoreTypeOK, MemoryTypeOK,
       RowsBounded, storeVars
<1>11. QED
  BY <1>5, <1>6, <1>7, <1>8, <1>9, <1>10 DEF RequestStep

\* What a step of a reroll keeps typed.
LEMMA RerollStepTypes ==
    ASSUME TypeInv, NEW d \in Rerolls, StartReroll(d) \/ RerollStep(d)
    PROVE  TypeInv'
<1>1. StoreTypeOK /\ MemoryTypeOK /\ RowsBounded /\ BatchesFilled
  BY DEF TypeInv, TypeOK
<1>2. /\ req \in [Requests -> Request] /\ rerolls \in [Rerolls -> Reroll]
      /\ purge \in {"none", "due", "done"} /\ crashes \in Nat
  BY DEF TypeInv, TypeOK
<1>3. rerolls[d] \in Reroll
  BY <1>2
<1>4. /\ session \in SessionRow /\ turns \in SUBSET TurnRow /\ memories \in SUBSET MemoryRow
      /\ turnSeq \in Nat /\ clock \in Nat
  BY <1>1 DEF StoreTypeOK
<1>5. CASE StartReroll(d)
  <2>1. /\ rerolls' = [rerolls EXCEPT
                         ![d].pc = IF DrainSnapshot = {} THEN "deleting" ELSE "draining",
                         ![d].waiting = DrainSnapshot, ![d].known = scheduled]
        /\ UNCHANGED <<storeVars, memoryVars, req, purge, crashes>>
    BY <1>5 DEF StartReroll
  <2>2. DrainSnapshot \in SUBSET Nat /\ scheduled \in SUBSET Nat
    BY <1>1 DEF DrainSnapshot, PendingTurns, MemoryTypeOK, Job
  <2>3. rerolls' \in [Rerolls -> Reroll]
    <3>1. PICK pc \in RerollPcs :
              rerolls' = [rerolls EXCEPT ![d].pc = pc, ![d].waiting = DrainSnapshot,
                                         ![d].known = scheduled]
      BY <2>1 DEF RerollPcs
    <3>2. QED
      BY <1>2, <2>2, <3>1 DEF Reroll
  <2>4. QED
    BY <1>1, <1>2, <2>1, <2>3 DEF TypeInv, TypeOK, StoreTypeOK, MemoryTypeOK, RowsBounded,
       BatchesFilled, storeVars, memoryVars
<1>6. CASE ResumeReroll(d)
  <2>1. rerolls' = [rerolls EXCEPT ![d].pc = "deleting"] /\ UNCHANGED <<storeVars, memoryVars, req, purge, crashes>>
    BY <1>6 DEF ResumeReroll
  <2>2. rerolls' \in [Rerolls -> Reroll]
    BY <1>2, <2>1 DEF Reroll, RerollPcs
  <2>3. QED
    BY <1>1, <1>2, <2>1, <2>2 DEF TypeInv, TypeOK, StoreTypeOK, MemoryTypeOK, RowsBounded,
       BatchesFilled, storeVars, memoryVars
<1>7. CASE DeleteLastTurn(d)
  <2>1. UNCHANGED <<session, memories, turnSeq, clock, memoryVars, req, purge, crashes>>
    BY <1>7 DEF DeleteLastTurn
  <2>2. turns' \subseteq turns
    BY <1>7 DEF DeleteLastTurn
  <2>3. rerolls' \in [Rerolls -> Reroll]
    <3>1. CASE SessionLive /\ turns # {}
      <4>1. rerolls' = [rerolls EXCEPT ![d].pc = "restoring", ![d].row = LastTurn(turns)]
        BY <1>7, <3>1 DEF DeleteLastTurn
      <4>2. LastTurn(turns) \in TurnRow
        BY <1>1, <1>4, <3>1, LastOfTurns
      <4>3. QED
        BY <1>2, <4>1, <4>2 DEF Reroll, RerollPcs
    <3>2. CASE ~(SessionLive /\ turns # {})
      <4>1. rerolls' = [rerolls EXCEPT ![d].pc = "refused"]
        BY <1>7, <3>2 DEF DeleteLastTurn
      <4>2. QED
        BY <1>2, <4>1 DEF Reroll, RerollPcs
    <3>3. QED
      BY <3>1, <3>2
  <2>4. RowsBounded'
    BY <1>1, <1>4, <2>1, <2>2, BoundsKept
  <2>5. QED
    BY <1>1, <1>2, <1>4, <2>1, <2>2, <2>3, <2>4 DEF TypeInv, TypeOK, StoreTypeOK, MemoryTypeOK,
       BatchesFilled, memoryVars
<1>8. CASE RestoreAfterDelete(d)
  <2>1. /\ RestorePersona(rerolls[d].row)
        /\ rerolls' = [rerolls EXCEPT ![d].pc = "sweeping"]
        /\ UNCHANGED <<turns, memories, turnSeq, clock, memoryVars, req, purge, crashes>>
    BY <1>8 DEF RestoreAfterDelete
  <2>2. session' \in SessionRow
    BY <2>1, RestorePersonaTypes
  <2>3. rerolls' \in [Rerolls -> Reroll]
    BY <1>2, <2>1 DEF Reroll, RerollPcs
  <2>4. QED
    BY <1>1, <1>2, <2>1, <2>2, <2>3 DEF TypeInv, TypeOK, StoreTypeOK, MemoryTypeOK, RowsBounded,
       BatchesFilled, memoryVars
<1>9. CASE SweepMemories(d)
  <2> DEFINE kept == MemoriesBefore(rerolls[d].row.created)
             swept == {m.created : m \in memories \ kept}
  <2>1. /\ memories' = kept
        /\ rerolls' = [rerolls EXCEPT ![d].pc = "unindexing", ![d].swept = swept]
        /\ UNCHANGED <<session, turns, turnSeq, clock, memoryVars, req, purge, crashes>>
    BY <1>9 DEF SweepMemories
  <2>2. memories' \subseteq memories /\ swept \in SUBSET Nat
    BY <1>4, <2>1 DEF MemoriesBefore, MemoryRow
  <2> HIDE DEF swept
  <2>3. rerolls' \in [Rerolls -> Reroll]
    BY <1>2, <2>1, <2>2 DEF Reroll, RerollPcs
  <2>4. QED
    BY <1>1, <1>2, <2>1, <2>2, <2>3 DEF TypeInv, TypeOK, StoreTypeOK, MemoryTypeOK,
       RowsBounded, BatchesFilled, memoryVars
<1>10. CASE UnindexSwept(d)
  <2> DEFINE swept == rerolls[d].swept
  <2>1. /\ BestEffort(vectors \ PointsOfAll(swept), UnindexFailures(vectors, swept))
        /\ rerolls' = [rerolls EXCEPT ![d].pc = "done", ![d].swept = {}]
        /\ UNCHANGED <<storeVars, jobs, scheduled, lapsed, req, purge, crashes>>
    BY <1>10 DEF UnindexSwept
  <2>2. vectors' \in SUBSET Point
    <3> HIDE DEF swept
    <3>1. vectors \ PointsOfAll(swept) \in SUBSET Point
      BY <1>1 DEF MemoryTypeOK
    <3>2. UnindexFailures(vectors, swept) \in SUBSET SUBSET Point
      BY <1>1 DEF UnindexFailures, MemoryTypeOK
    <3>3. QED
      BY <2>1, <3>1, <3>2, BestEffortTypes
  <2>3. rerolls' \in [Rerolls -> Reroll]
    BY <1>2, <2>1 DEF Reroll, RerollPcs
  <2>4. QED
    BY <1>1, <1>2, <2>1, <2>2, <2>3 DEF TypeInv, TypeOK, StoreTypeOK, MemoryTypeOK,
       RowsBounded, BatchesFilled, storeVars
<1>11. QED
  BY <1>5, <1>6, <1>7, <1>8, <1>9, <1>10 DEF RerollStep

\* What a step from outside the loop keeps typed.
LEMMA OutsideTypes ==
    ASSUME TypeInv,
           (\E s \in Scenes : SwitchScene(s)) \/ DeleteSession \/ PurgeVectors \/ Crash
    PROVE  TypeInv'
<1>1. StoreTypeOK /\ MemoryTypeOK /\ RowsBounded /\ BatchesFilled
  BY DEF TypeInv, TypeOK
<1>2. /\ req \in [Requests -> Request] /\ rerolls \in [Rerolls -> Reroll]
      /\ purge \in {"none", "due", "done"} /\ crashes \in Nat
  BY DEF TypeInv, TypeOK
<1>3. ASSUME NEW s \in Scenes, SwitchScene(s)  PROVE TypeInv'
  <2>1. /\ UpdateActiveScene(s)
        /\ UNCHANGED <<turns, memories, turnSeq, clock, memoryVars, req, rerolls, purge, crashes>>
    BY <1>3 DEF SwitchScene
  <2>2. session' \in SessionRow
    BY <1>1, <2>1 DEF UpdateActiveScene, StoreTypeOK, SessionRow
  <2>3. QED
    BY <1>1, <1>2, <2>1, <2>2 DEF TypeInv, TypeOK, StoreTypeOK, MemoryTypeOK, RowsBounded,
       BatchesFilled, memoryVars
<1>4. CASE DeleteSession
  <2>1. /\ DeleteSessionRow /\ purge' = "due"
        /\ UNCHANGED <<memoryVars, req, rerolls, crashes>>
    BY <1>4 DEF DeleteSession
  <2>2. /\ session' \in SessionRow /\ turns' = {} /\ memories' = {}
        /\ UNCHANGED <<turnSeq, clock>>
    BY <1>1, <2>1 DEF DeleteSessionRow, StoreTypeOK, SessionRow
  <2>3. QED
    BY <1>1, <1>2, <2>1, <2>2 DEF TypeInv, TypeOK, StoreTypeOK, MemoryTypeOK, RowsBounded,
       BatchesFilled, memoryVars
<1>5. CASE PurgeVectors
  <2>1. /\ BestEffort({}, {vectors, {v \in vectors : v[1] # "session_memory"}})
        /\ purge' = "done" /\ UNCHANGED <<storeVars, jobs, scheduled, lapsed, req, rerolls, crashes>>
    BY <1>5 DEF PurgeVectors
  <2>2. vectors' \in SUBSET Point
    BY <1>1, <2>1 DEF BestEffort, MemoryTypeOK
  <2>3. QED
    BY <1>1, <1>2, <2>1, <2>2 DEF TypeInv, TypeOK, StoreTypeOK, MemoryTypeOK, RowsBounded,
       BatchesFilled, storeVars
<1>6. CASE Crash
  <2>1. /\ crashes' = crashes + 1 /\ jobs' = {} /\ lapsed' \in {lapsed, lapsed + 1}
        /\ UNCHANGED <<storeVars, scheduled, vectors, purge>>
    BY <1>6 DEF Crash
  <2>2. req' \in [Requests -> Request]
    <3>1. \A r \in Requests : [req[r] EXCEPT !.pc = "lost"] \in Request
      BY <1>2 DEF Request, RequestPcs
    <3>2. req' = [r \in Requests |->
                    IF req[r].pc = "new" \/ RequestEnded(r) THEN req[r]
                    ELSE [req[r] EXCEPT !.pc = "lost"]]
      BY <1>6 DEF Crash
    <3>3. QED
      BY <1>2, <3>1, <3>2
  <2>3. rerolls' \in [Rerolls -> Reroll]
    <3>1. \A d \in Rerolls : [rerolls[d] EXCEPT !.pc = "lost"] \in Reroll
      BY <1>2 DEF Reroll, RerollPcs
    <3>2. rerolls' = [d \in Rerolls |->
                        IF rerolls[d].pc = "new" \/ RerollEnded(d) THEN rerolls[d]
                        ELSE [rerolls[d] EXCEPT !.pc = "lost"]]
      BY <1>6 DEF Crash
    <3>3. QED
      BY <1>2, <3>1, <3>2
  <2>4. QED
    BY <1>1, <1>2, <2>1, <2>2, <2>3 DEF TypeInv, TypeOK, StoreTypeOK, MemoryTypeOK, RowsBounded,
       BatchesFilled, storeVars
<1>7. QED
  BY <1>3, <1>4, <1>5, <1>6

-----------------------------------------------------------------------------

\* The initial state is typed.
LEMMA InitTypes == Init => TypeInv
<1>1. SUFFICES ASSUME Init PROVE TypeInv
  OBVIOUS
<1>2. StoreTypeOK
  BY <1>1, WorldAssumption DEF Init, StoreInit, StoreTypeOK, SessionRow
<1>3. MemoryTypeOK
  BY <1>1 DEF Init, MemoryInit, MemoryTypeOK
<1>4. req \in [Requests -> Request]
  BY <1>1, WorldAssumption DEF Init, Request, RequestPcs, Modes, Outcomes
<1>5. rerolls \in [Rerolls -> Reroll]
  <2>1. NoRow \in TurnRow
    BY WorldAssumption DEF NoRow, TurnRow, Outcomes, Diagnostics
  <2>2. QED
    BY <1>1, <2>1 DEF Init, Reroll, RerollPcs
<1>6. purge \in {"none", "due", "done"} /\ crashes \in Nat
  BY <1>1 DEF Init
<1>7. RowsBounded /\ BatchesFilled
  BY <1>1 DEF Init, StoreInit, MemoryInit, RowsBounded, BatchesFilled
<1>8. QED
  BY <1>2, <1>3, <1>4, <1>5, <1>6, <1>7 DEF TypeInv, TypeOK

\* Every step keeps the state typed.
LEMMA NextTypes == TypeInv /\ [Next]_vars => TypeInv'
<1>1. SUFFICES ASSUME TypeInv, [Next]_vars PROVE TypeInv'
  OBVIOUS
<1>2. ASSUME NEW r \in Requests, NEW mode \in Modes, NEW p \in Personas,
             SubmitTurn(r, mode, p)
      PROVE  TypeInv'
  <2>1. /\ req \in [Requests -> Request] /\ session \in SessionRow
        /\ req' = [req EXCEPT ![r] =
                     IF SessionLive
                     THEN [@ EXCEPT !.pc = "generating", !.mode = mode,
                                    !.scene = session.scene, !.persona = p,
                                    !.switched = (p # session.persona)]
                     ELSE [@ EXCEPT !.pc = "failed", !.mode = mode]]
        /\ UNCHANGED <<storeVars, memoryVars, rerolls, purge, crashes>>
    BY <1>1, <1>2 DEF SubmitTurn, TypeInv, TypeOK, StoreTypeOK
  <2>2. session.scene \in Scenes /\ req[r] \in Request /\ (p # session.persona) \in BOOLEAN
    BY <2>1 DEF SessionRow
  <2>3. [req[r] EXCEPT !.pc = "failed", !.mode = mode] \in Request
    BY <2>2 DEF Request, RequestPcs
  <2>4. [req[r] EXCEPT !.pc = "generating", !.mode = mode, !.scene = session.scene,
                       !.persona = p, !.switched = (p # session.persona)] \in Request
    BY <2>2 DEF Request, RequestPcs
  <2>5. req' \in [Requests -> Request]
    BY <2>1, <2>3, <2>4
  <2>6. QED
    BY <1>1, <2>1, <2>5 DEF TypeInv, TypeOK, StoreTypeOK, MemoryTypeOK, RowsBounded,
       BatchesFilled, storeVars, memoryVars
<1>3. CASE RunJob
  <2>1. PICK j \in jobs : JobStep(j)
    BY <1>3 DEF RunJob
  <2>2. StoreTypeOK' /\ MemoryTypeOK' /\ RowsBounded' /\ BatchesFilled'
    BY <1>1, <2>1, JobStepTypes
  <2>3. QED
    BY <1>1, <1>3, <2>2 DEF RunJob, TypeInv, TypeOK
<1>4. CASE UNCHANGED vars
  BY <1>1, <1>4 DEF vars, storeVars, memoryVars, TypeInv, TypeOK, StoreTypeOK, MemoryTypeOK,
     RowsBounded, BatchesFilled
<1>5. QED
  BY <1>1, <1>2, <1>3, <1>4, RequestStepTypes, RerollStepTypes, OutsideTypes DEF Next

\* Type correctness, for every session whatever its size: a reroll of the last
\* turn, a fold's summary and a restored persona are always taken from rows
\* that exist (delete_last_turn, restore_persona_after_turn_delete,
\* _persist_consolidation).
THEOREM TypeCorrect == Spec => []TypeOK
<1>1. Spec => []TypeInv
  BY InitTypes, NextTypes, PTL DEF Spec
<1>2. TypeInv => TypeOK
  BY DEF TypeInv
<1>3. QED
  BY <1>1, <1>2, PTL

-----------------------------------------------------------------------------
(* Turn numbering *)

\* The five things a step can do to the rows of turns.
TurnsStep ==
    \/ UNCHANGED turns
    \/ \E s \in Scenes, p \in Personas, o \in Outcomes : AppendTurn(s, p, o)
    \/ \E id : UpdateTurnDiagnostics(id)
    \/ \E id, w : AppendMemoryOutcome(id, w)
    \/ turns # {} /\ turns' = turns \ {LastTurn(turns)}
    \/ turns' = {}

LEMMA ConsolidateTurnsStep ==
    ASSUME NEW j, NEW w, NEW rows, Consolidate(j, w, rows)
    PROVE  TurnsStep
BY DEF Consolidate, EndJob, TurnsStep

LEMMA JobTurnsStep ==
    ASSUME NEW j \in jobs, JobStep(j)
    PROVE  TurnsStep
<1>1. CASE AbandonJob(j) \/ StartCuration(j)
  BY <1>1 DEF AbandonJob, StartCuration, TurnsStep, storeVars
<1>2. CASE GateCuration(j) \/ CurateNothing(j)
  BY <1>2, ConsolidateTurnsStep DEF GateCuration, CurateNothing
<1>6. CASE UpsertMemory(j) \/ EnforceCap(j)
  <2>1. UNCHANGED turns \/ EndJob(j, j.written) \/ Consolidate(j, TRUE, memories)
    BY <1>6 DEF UpsertMemory, EnforceCap, IndexRaises
  <2>2. UNCHANGED <<turnSeq, clock>>
    BY <1>6 DEF UpsertMemory, EnforceCap
  <2>3. QED
    BY <2>1, <2>2, ConsolidateTurnsStep DEF EndJob, TurnsStep
<1>3. CASE \E kind \in {"minor", "durable"} : CurateMemory(j, kind)
  BY <1>3 DEF CurateMemory, TurnsStep
<1>4. CASE PersistSummary(j) \/ MarkFolded(j)
  BY <1>4 DEF PersistSummary, MarkFolded, TurnsStep
<1>5. CASE SkipSummary(j) \/ UnindexFolded(j)
  BY <1>5 DEF SkipSummary, UnindexFolded, EndJob, TurnsStep
<1>7. QED
  BY <1>1, <1>2, <1>3, <1>4, <1>5, <1>6 DEF JobStep

LEMMA NextTurnsStep ==
    ASSUME TypeInv, [Next]_vars
    PROVE  TurnsStep
<1>1. CASE \E r \in Requests, mode \in Modes, p \in Personas : SubmitTurn(r, mode, p)
  BY <1>1 DEF SubmitTurn, storeVars, TurnsStep
<1>2. ASSUME NEW r \in Requests, RequestStep(r) \/ Disconnect(r)  PROVE TurnsStep
  <2>1. CASE ProviderError(r) \/ ScheduleStreamed(r) \/ Disconnect(r)
    BY <2>1 DEF ProviderError, ScheduleStreamed, Disconnect, storeVars, TurnsStep
  <2>2. ASSUME NEW o \in Outcomes, PersistTurn(r, o)  PROVE TurnsStep
    <3>1. req[r].scene \in Scenes /\ req[r].persona \in Personas
      BY DEF TypeInv, TypeOK, Request
    <3>2. UNCHANGED turns \/ AppendTurn(req[r].scene, req[r].persona, o)
      BY <2>2 DEF PersistTurn
    <3>3. QED
      BY <3>1, <3>2 DEF TurnsStep
  <2>3. CASE CommitActivity(r)
    BY <2>3 DEF CommitActivity, TurnsStep
  <2>4. CASE ReturnTurn(r)
    BY <2>4 DEF ReturnTurn, TurnsStep
  <2>5. QED
    BY <1>2, <2>1, <2>2, <2>3, <2>4 DEF RequestStep
<1>3. ASSUME NEW d \in Rerolls, StartReroll(d) \/ RerollStep(d)  PROVE TurnsStep
  <2>1. CASE StartReroll(d) \/ ResumeReroll(d) \/ RestoreAfterDelete(d)
              \/ SweepMemories(d) \/ UnindexSwept(d)
    BY <2>1 DEF StartReroll, ResumeReroll, RestoreAfterDelete, SweepMemories, UnindexSwept, storeVars,
       TurnsStep
  <2>2. CASE DeleteLastTurn(d)
    BY <2>2 DEF DeleteLastTurn, TurnsStep
  <2>3. QED
    BY <1>3, <2>1, <2>2 DEF RerollStep
<1>4. CASE RunJob
  BY <1>4, JobTurnsStep DEF RunJob
<1>5. CASE (\E s \in Scenes : SwitchScene(s)) \/ DeleteSession \/ PurgeVectors \/ Crash
  BY <1>5 DEF SwitchScene, DeleteSession, DeleteSessionRow, PurgeVectors, Crash, storeVars,
     TurnsStep
<1>6. CASE UNCHANGED vars
  BY <1>6 DEF vars, storeVars, TurnsStep
<1>7. QED
  BY <1>1, <1>2, <1>3, <1>4, <1>5, <1>6 DEF Next

-----------------------------------------------------------------------------

\* append_turn: the new row is the last by number, by id and by stamp.
LEMMA AppendTurnInOrder ==
    ASSUME TypeInv, TurnsInOrder, NEW s, NEW p, NEW o, AppendTurn(s, p, o)
    PROVE  TurnsInOrder'
<1> DEFINE row == [id |-> turnSeq + 1, index |-> NextIndex, scene |-> s, persona |-> p,
                   outcome |-> o, created |-> clock + 1, diagnostics |-> "unset"]
<1>1. turns \in SUBSET TurnRow /\ turnSeq \in Nat /\ clock \in Nat /\ StoreTypeOK /\ RowsBounded
  BY DEF TypeInv, TypeOK, StoreTypeOK
<1>2. turns' = turns \cup {row}
  BY DEF AppendTurn
<1>3. NextIndex \in Nat /\ \A t \in turns : t.index < NextIndex
  <2>1. CASE turns = {}
    BY <2>1 DEF NextIndex
  <2>2. CASE turns # {}
    <3>1. LastTurn(turns) \in turns /\ \A u \in turns : u.index <= LastTurn(turns).index
      BY <1>1, <2>2, LastOfTurns
    <3>2. NextIndex = LastTurn(turns).index + 1
      BY <2>2 DEF NextIndex
    <3>3. \A u \in turns : u.index \in Nat
      BY <1>1 DEF TurnRow
    <3>4. \A t \in turns : t.index < NextIndex
      BY <3>1, <3>2, <3>3
    <3>5. QED
      BY <1>1, <3>4, NextIndexBounded
  <2>3. QED
    BY <2>1, <2>2
<1>4. \A t \in turns : /\ t.index \in Nat /\ t.id \in Nat /\ t.created \in Nat
                       /\ t.id < turnSeq + 1 /\ t.created < clock + 1
  BY <1>1 DEF TurnRow, RowsBounded
<1>5. \A i \in 1 .. NextIndex : \E u \in turns' : u.index = i
  <2>1. SUFFICES ASSUME NEW i \in 1 .. NextIndex, i # NextIndex
                 PROVE  \E u \in turns : u.index = i
    <3>1. row \in turns' /\ row.index = NextIndex
      BY <1>2
    <3> HIDE DEF row
    <3>2. QED
      BY <1>2, <3>1
  <2>2. turns # {}
    <3>1. SUFFICES ASSUME turns = {} PROVE FALSE
      OBVIOUS
    <3>2. NextIndex = 1
      BY <3>1 DEF NextIndex
    <3>3. i \in 1 .. 1 /\ i # 1
      BY <2>1, <3>2
    <3>4. QED
      BY <3>3
  <2>3. LastTurn(turns) \in turns /\ NextIndex = LastTurn(turns).index + 1
    BY <1>1, <2>2, LastOfTurns DEF NextIndex
  <2>4. i \in 1 .. LastTurn(turns).index
    BY <1>4, <2>1, <2>3
  <2>5. QED
    BY <2>3, <2>4 DEF TurnsInOrder
<1>6. ASSUME NEW t \in turns', NEW i \in 1 .. t.index
      PROVE  \E u \in turns' : u.index = i
  BY <1>2, <1>5, <1>6 DEF TurnsInOrder
<1>7. ASSUME NEW t \in turns', NEW u \in turns'
      PROVE  /\ t.index = u.index => t = u
             /\ t.index < u.index => t.id < u.id /\ t.created < u.created
  <2>1. CASE t \in turns /\ u \in turns
    BY <2>1 DEF TurnsInOrder
  <2>2. CASE t \in turns /\ u = row
    BY <1>3, <1>4, <2>2
  <2>3. CASE t = row /\ u \in turns
    BY <1>3, <1>4, <2>3
  <2>4. CASE t = row /\ u = row
    BY <1>3, <2>4
  <2>5. QED
    BY <1>2, <2>1, <2>2, <2>3, <2>4
<1>8. QED
  BY <1>6, <1>7 DEF TurnsInOrder

\* Rewriting the rows one by one, keeping number, id and stamp, keeps the order.
LEMMA RewriteInOrder ==
    ASSUME TurnsInOrder, NEW f, turns' = {f[t] : t \in turns},
           \A t \in turns : f[t].index = t.index /\ f[t].id = t.id /\ f[t].created = t.created
    PROVE  TurnsInOrder'
<1>1. ASSUME NEW t \in turns', NEW i \in 1 .. t.index
      PROVE  \E u \in turns' : u.index = i
  <2>1. PICK t0 \in turns : t = f[t0]
    OBVIOUS
  <2>2. PICK u0 \in turns : u0.index = i
    BY <2>1 DEF TurnsInOrder
  <2>3. QED
    BY <2>2
<1>2. ASSUME NEW t \in turns', NEW u \in turns'
      PROVE  /\ t.index = u.index => t = u
             /\ t.index < u.index => t.id < u.id /\ t.created < u.created
  <2>1. PICK t0 \in turns, u0 \in turns : t = f[t0] /\ u = f[u0]
    OBVIOUS
  <2>2. /\ t0.index = u0.index => t0 = u0
        /\ t0.index < u0.index => t0.id < u0.id /\ t0.created < u0.created
    BY DEF TurnsInOrder
  <2>3. QED
    BY <2>1, <2>2
<1>3. QED
  BY <1>1, <1>2 DEF TurnsInOrder

\* Neither the turn's own diagnostics nor a late job's outcome disturb it.
LEMMA DiagnosticsInOrder ==
    ASSUME TypeInv, TurnsInOrder, NEW id, NEW w,
           UpdateTurnDiagnostics(id) \/ AppendMemoryOutcome(id, w)
    PROVE  TurnsInOrder'
<1> DEFINE f == [t \in turns |-> IF t.id = id THEN [t EXCEPT !.diagnostics = "unwritten"] ELSE t]
           g == [t \in turns |->
                   IF t.id = id /\ t.diagnostics # "unset"
                   THEN [t EXCEPT !.diagnostics = IF w THEN "written" ELSE "unwritten"]
                   ELSE t]
<1>1. turns \in SUBSET TurnRow
  BY DEF TypeInv, TypeOK, StoreTypeOK
<1>2. \A t \in turns : f[t].index = t.index /\ f[t].id = t.id /\ f[t].created = t.created
  BY <1>1 DEF TurnRow
<1>3. \A t \in turns : g[t].index = t.index /\ g[t].id = t.id /\ g[t].created = t.created
  BY <1>1 DEF TurnRow
<1>4. CASE UpdateTurnDiagnostics(id)
  <2>1. turns' = {f[t] : t \in turns}
    BY <1>4 DEF UpdateTurnDiagnostics
  <2> HIDE DEF f
  <2>2. QED
    BY <1>2, <2>1, RewriteInOrder
<1>5. CASE AppendMemoryOutcome(id, w)
  <2>1. turns' = {g[t] : t \in turns}
    BY <1>5 DEF AppendMemoryOutcome
  <2> HIDE DEF g
  <2>2. QED
    BY <1>3, <2>1, RewriteInOrder
<1>6. QED
  BY <1>4, <1>5

\* delete_last_turn: what remains is numbered without a gap because the row
\* taken has the greatest number.
LEMMA DeleteLastInOrder ==
    ASSUME TypeInv, TurnsInOrder, turns # {}, turns' = turns \ {LastTurn(turns)}
    PROVE  TurnsInOrder'
<1>1. StoreTypeOK /\ RowsBounded /\ \A t \in turns : t.index \in Nat
  BY DEF TypeInv, TypeOK, StoreTypeOK, TurnRow
<1>2. LastTurn(turns) \in turns /\ \A u \in turns : u.index <= LastTurn(turns).index
  BY <1>1, LastOfTurns
<1>3. ASSUME NEW t \in turns', NEW i \in 1 .. t.index
      PROVE  \E u \in turns' : u.index = i
  <2>1. t \in turns /\ t # LastTurn(turns)
    OBVIOUS
  <2>2. t.index # LastTurn(turns).index
    BY <1>2, <2>1 DEF TurnsInOrder
  <2>3. PICK u \in turns : u.index = i
    BY <2>1 DEF TurnsInOrder
  <2>4. u.index < LastTurn(turns).index
    BY <1>1, <1>2, <2>1, <2>2, <2>3
  <2>5. u # LastTurn(turns)
    BY <1>1, <2>4
  <2>6. QED
    BY <2>3, <2>5
<1>4. QED
  BY <1>3 DEF TurnsInOrder

LEMMA NextInOrder == TypeInv /\ TurnsInOrder /\ [Next]_vars => TurnsInOrder'
<1>1. SUFFICES ASSUME TypeInv, TurnsInOrder, [Next]_vars  PROVE TurnsInOrder'
  OBVIOUS
<1>2. TurnsStep
  BY <1>1, NextTurnsStep
<1>3. CASE UNCHANGED turns
  BY <1>1, <1>3 DEF TurnsInOrder
<1>4. CASE turns' = {}
  BY <1>4 DEF TurnsInOrder
<1>5. QED
  BY <1>1, <1>2, <1>3, <1>4, AppendTurnInOrder, DiagnosticsInOrder, DeleteLastInOrder
     DEF TurnsStep

\* Turns that finish in any order, rerolls that free the highest number and
\* jobs that write diagnostics late leave the rows numbered 1..n, ordered the
\* same by turn_index, id and created_at (append_turn, delete_last_turn): the
\* row a reroll takes is the newest one, and its stamp bounds the sweep.
THEOREM TurnNumbering == Spec => []TurnsInOrder
<1>1. Init => TypeInv /\ TurnsInOrder
  BY InitTypes DEF Init, StoreInit, TurnsInOrder
<1>2. QED
  BY <1>1, NextTypes, NextInOrder, PTL DEF Spec

-----------------------------------------------------------------------------
(* One coroutine at a time *)

Idle(R, D, J) ==
    /\ \A r \in R : ~RequestRuns(r)
    /\ \A d \in D : ~RerollRuns(d)
    /\ \A j \in J : ~JobRuns(j)

\* A coroutine that runs, or that resumes on an idle loop, is alone.
LEMMA Alone ==
    ASSUME OneRunner
    PROVE  /\ \A r \in Requests : RequestRuns(r) \/ LoopFree => Idle(Requests \ {r}, Rerolls, jobs)
           /\ \A d \in Rerolls : RerollRuns(d) \/ LoopFree => Idle(Requests, Rerolls \ {d}, jobs)
           /\ \A j \in jobs : JobRuns(j) \/ LoopFree => Idle(Requests, Rerolls, jobs \ {j})
BY DEF OneRunner, LoopFree, Idle

\* It may run on or give way; the others still do not run.
LEMMA RequestAlone ==
    ASSUME NEW r \in Requests, Idle(Requests \ {r}, Rerolls, jobs),
           \A s \in Requests : s # r => req'[s] = req[s],
           UNCHANGED rerolls, \A k \in jobs' : k \in jobs \/ k.phase = "scheduled"
    PROVE  OneRunner'
BY DEF Idle, OneRunner, RequestRuns, RerollRuns, JobRuns

LEMMA RerollAlone ==
    ASSUME NEW d \in Rerolls, Idle(Requests, Rerolls \ {d}, jobs),
           \A e \in Rerolls : e # d => rerolls'[e] = rerolls[e], UNCHANGED <<req, jobs>>
    PROVE  OneRunner'
BY DEF Idle, OneRunner, RequestRuns, RerollRuns, JobRuns

LEMMA JobAlone ==
    ASSUME NEW j \in jobs, Idle(Requests, Rerolls, jobs \ {j}), NEW k,
           jobs' \subseteq (jobs \ {j}) \cup {k}, UNCHANGED <<req, rerolls>>
    PROVE  OneRunner'
BY DEF Idle, OneRunner, RequestRuns, RerollRuns, JobRuns

\* Nobody starts to run.
LEMMA NobodyStarts ==
    ASSUME OneRunner,
           \A r \in Requests : RequestRuns(r)' => RequestRuns(r),
           \A d \in Rerolls : RerollRuns(d)' => RerollRuns(d),
           jobs' \subseteq jobs
    PROVE  OneRunner'
BY DEF OneRunner, JobRuns

LEMMA RequestStepRuns ==
    ASSUME TypeInv, OneRunner, NEW r \in Requests, RequestStep(r) \/ Disconnect(r)
    PROVE  OneRunner'
<1>1. req \in [Requests -> Request]
  BY DEF TypeInv, TypeOK
<1>2. RequestRuns(r) \/ LoopFree
  BY DEF RequestStep, Disconnect, ProviderError, PersistTurn, CommitActivity, ReturnTurn,
     ScheduleStreamed, RequestRuns
<1>3. Idle(Requests \ {r}, Rerolls, jobs)
  BY <1>2, Alone
<1>4. UNCHANGED rerolls /\ \A k \in jobs' : k \in jobs \/ k.phase = "scheduled"
  <2>1. ASSUME NEW n, NEW s, NEW a, Schedule(n, s, a)
        PROVE  \A k \in jobs' : k \in jobs \/ k.phase = "scheduled"
    BY <2>1 DEF Schedule
  <2>2. CASE Disconnect(r) \/ ProviderError(r) \/ CommitActivity(r)
    BY <2>2 DEF Disconnect, ProviderError, CommitActivity, memoryVars
  <2>3. CASE \E o \in Outcomes : PersistTurn(r, o)
    BY <2>3 DEF PersistTurn, memoryVars
  <2>4. CASE ReturnTurn(r)
    BY <2>1, <2>4 DEF ReturnTurn
  <2>5. CASE ScheduleStreamed(r)
    BY <2>1, <2>5 DEF ScheduleStreamed
  <2>6. QED
    BY <2>2, <2>3, <2>4, <2>5 DEF RequestStep
<1>5. \A s \in Requests : s # r => req'[s] = req[s]
  BY <1>1 DEF RequestStep, Disconnect, ProviderError, PersistTurn, CommitActivity, ReturnTurn,
     ScheduleStreamed
<1>6. QED
  BY <1>3, <1>4, <1>5, RequestAlone

LEMMA RerollStepRuns ==
    ASSUME TypeInv, OneRunner, NEW d \in Rerolls, StartReroll(d) \/ RerollStep(d)
    PROVE  OneRunner'
<1>1. rerolls \in [Rerolls -> Reroll]
  BY DEF TypeInv, TypeOK
<1>2. RerollRuns(d) \/ LoopFree
  BY DEF RerollStep, StartReroll, ResumeReroll, DeleteLastTurn, RestoreAfterDelete,
     SweepMemories, UnindexSwept, RerollRuns
<1>3. Idle(Requests, Rerolls \ {d}, jobs)
  BY <1>2, Alone
<1>4. UNCHANGED <<req, jobs>>
  BY DEF RerollStep, StartReroll, ResumeReroll, DeleteLastTurn, RestoreAfterDelete,
     SweepMemories, UnindexSwept, memoryVars
<1>5. \A e \in Rerolls : e # d => rerolls'[e] = rerolls[e]
  BY <1>1 DEF RerollStep, StartReroll, ResumeReroll, DeleteLastTurn, RestoreAfterDelete,
     SweepMemories, UnindexSwept
<1>6. QED
  BY <1>3, <1>4, <1>5, RerollAlone

LEMMA JobStepRuns ==
    ASSUME OneRunner, NEW j \in jobs, JobStep(j), UNCHANGED <<req, rerolls>>
    PROVE  OneRunner'
<1>1. JobRuns(j) \/ LoopFree
  BY DEF JobStep, UpsertMemory, EnforceCap, IndexRaises,
     MarkFolded, UnindexFolded, JobRuns
<1>2. Idle(Requests, Rerolls, jobs \ {j})
  BY <1>1, Alone
<1>3. \E k : jobs' \subseteq (jobs \ {j}) \cup {k}
  BY DEF JobStep, AbandonJob, StartCuration, GateCuration, CurateNothing, CurateMemory,
     PersistSummary, SkipSummary, UpsertMemory, EnforceCap, IndexRaises,
     MarkFolded, UnindexFolded, Consolidate, EndJob,
     Replace
<1>4. QED
  BY <1>2, <1>3, JobAlone

LEMMA NextRuns ==
    ASSUME TypeInv, OneRunner, [Next]_vars
    PROVE  OneRunner'
<1>1. ASSUME NEW r \in Requests, NEW mode \in Modes, NEW p \in Personas,
             SubmitTurn(r, mode, p)
      PROVE  OneRunner'
  <2>1. LoopFree /\ UNCHANGED <<jobs, rerolls>>
    BY <1>1 DEF SubmitTurn, memoryVars
  <2>2. \A s \in Requests : s # r => req'[s] = req[s]
    BY <1>1 DEF SubmitTurn, TypeInv, TypeOK
  <2>3. QED
    BY <2>1, <2>2, Alone, RequestAlone
<1>2. CASE RunJob
  BY <1>2, JobStepRuns DEF RunJob
<1>3. CASE (\E s \in Scenes : SwitchScene(s)) \/ DeleteSession \/ PurgeVectors \/ UNCHANGED vars
  <2>1. UNCHANGED <<req, rerolls, jobs>>
    BY <1>3 DEF SwitchScene, DeleteSession, PurgeVectors, vars, memoryVars
  <2>2. QED
    BY <2>1, NobodyStarts DEF RequestRuns, RerollRuns
<1>4. CASE Crash
  <2>1. jobs' \subseteq jobs
    BY <1>4 DEF Crash
  <2>2. ASSUME NEW r \in Requests, RequestRuns(r)'  PROVE RequestRuns(r)
    <3>1. req'[r] = req[r] \/ req'[r] = [req[r] EXCEPT !.pc = "lost"]
      BY <1>4 DEF Crash
    <3>2. QED
      BY <2>2, <3>1 DEF TypeInv, TypeOK, Request, RequestRuns
  <2>3. ASSUME NEW d \in Rerolls, RerollRuns(d)'  PROVE RerollRuns(d)
    <3>1. rerolls'[d] = rerolls[d] \/ rerolls'[d] = [rerolls[d] EXCEPT !.pc = "lost"]
      BY <1>4 DEF Crash
    <3>2. QED
      BY <2>3, <3>1 DEF TypeInv, TypeOK, Reroll, RerollRuns
  <2>4. QED
    BY <2>1, <2>2, <2>3, NobodyStarts
<1>5. QED
  BY <1>1, <1>2, <1>3, <1>4, RequestStepRuns, RerollStepRuns DEF Next

-----------------------------------------------------------------------------
(* The row a request is about to commit its persona for *)

\* Nobody but the request that runs can be about to commit.
LEMMA OneCommits ==
    ASSUME OneRunner, NEW r \in Requests, req[r].pc = "activity"
    PROVE  /\ ~LoopFree
           /\ \A d \in Rerolls : ~RerollRuns(d)
BY DEF OneRunner, LoopFree, RequestRuns

\* Rows that stay, whatever becomes of their diagnostics, keep standing.
LEMMA RowsStay ==
    ASSUME RowStands, SameTurns \/ turns \subseteq turns', SessionLive' => SessionLive,
           \A r \in Requests : req'[r].pc = "activity" => req'[r] = req[r]
    PROVE  RowStands'
BY DEF RowStands, SameTurns, SameTurn

\* Rows may go while nobody is about to commit.
LEMMA NobodyCommits ==
    ASSUME \A r \in Requests : req[r].pc # "activity", UNCHANGED req
    PROVE  RowStands'
BY DEF RowStands

LEMMA RequestStepStands ==
    ASSUME TypeInv, OneRunner, RowStands, NEW r \in Requests, RequestStep(r) \/ Disconnect(r)
    PROVE  RowStands'
<1>1. req \in [Requests -> Request] /\ session \in SessionRow /\ StoreTypeOK
  BY DEF TypeInv, TypeOK, StoreTypeOK
<1>2. SessionLive' => SessionLive
  <2>1. CASE CommitActivity(r)
    BY <1>1, <2>1 DEF CommitActivity, UpdateActivePersona, SessionLive, SessionRow
  <2>2. CASE ~CommitActivity(r)
    <3>1. UNCHANGED session
      BY <2>2 DEF RequestStep, Disconnect, ProviderError, PersistTurn, ReturnTurn,
         ScheduleStreamed, storeVars
    <3>2. QED
      BY <3>1 DEF SessionLive
  <2>3. QED
    BY <2>1, <2>2
<1>3. \A s \in Requests : s # r => req'[s] = req[s]
  BY <1>1 DEF RequestStep, Disconnect, ProviderError, PersistTurn, CommitActivity, ReturnTurn,
     ScheduleStreamed
<1>4. ASSUME NEW o \in Outcomes, PersistTurn(r, o), SessionLive  PROVE RowStands'
  <2> DEFINE row == [id |-> turnSeq + 1, index |-> NextIndex, scene |-> req[r].scene,
                     persona |-> req[r].persona, outcome |-> o, created |-> clock + 1,
                     diagnostics |-> "unset"]
  <2>1. /\ req' = [req EXCEPT ![r].pc = "activity", ![r].outcome = o, ![r].turn = turnSeq + 1]
        /\ turns' = turns \cup {row} /\ UNCHANGED session
    BY <1>4 DEF PersistTurn, AppendTurn
  <2>2. /\ req'[r].turn = turnSeq + 1 /\ req'[r].persona = req[r].persona
        /\ req'[r].outcome = o
    BY <1>1, <2>1 DEF Request
  <2>3. row \in turns' /\ row.id = req'[r].turn /\ row.persona = req'[r].persona
        /\ row.outcome = req'[r].outcome
    BY <2>1, <2>2
  <2> HIDE DEF row
  <2>4. ASSUME NEW s \in Requests, s # r, req'[s].pc = "activity", SessionLive'
        PROVE  \E t \in turns' : /\ t.id = req'[s].turn /\ t.persona = req'[s].persona
                                 /\ t.outcome = req'[s].outcome
    <3>1. req'[s] = req[s] /\ SessionLive
      BY <1>2, <1>3, <2>4
    <3>2. \E t \in turns : /\ t.id = req[s].turn /\ t.persona = req[s].persona
                           /\ t.outcome = req[s].outcome
      BY <2>4, <3>1 DEF RowStands
    <3>3. QED
      BY <2>1, <3>1, <3>2
  <2>5. QED
    BY <2>3, <2>4 DEF RowStands
<1>5. CASE ~(\E o \in Outcomes : PersistTurn(r, o) /\ SessionLive)
  <2>1. req'[r].pc # "activity"
    <3>1. ASSUME NEW o \in Outcomes, PersistTurn(r, o)  PROVE req'[r].pc # "activity"
      <4>1. req' = [req EXCEPT ![r].pc = StoreErrorPc(o), ![r].outcome = o]
        BY <1>5, <3>1 DEF PersistTurn
      <4>2. StoreErrorPc(o) # "activity"
        BY DEF StoreErrorPc
      <4>3. QED
        BY <1>1, <4>1, <4>2 DEF Request
    <3>2. CASE CommitActivity(r)
      BY <1>1, <3>2 DEF CommitActivity, StoreErrorPc, Request
    <3>3. CASE ReturnTurn(r)
      BY <1>1, <3>3 DEF ReturnTurn, Request
    <3>4. CASE Disconnect(r) \/ ProviderError(r) \/ ScheduleStreamed(r)
      BY <1>1, <3>4 DEF Disconnect, ProviderError, ScheduleStreamed, Request
    <3>5. QED
      BY <3>1, <3>2, <3>3, <3>4 DEF RequestStep
  <2>2. SameTurns
    <3>1. UpdateTurnDiagnostics(req[r].turn) \/ UNCHANGED turns
      BY <1>5 DEF RequestStep, Disconnect, ProviderError, PersistTurn, CommitActivity,
         ReturnTurn, ScheduleStreamed, storeVars
    <3>2. QED
      BY <1>1, <3>1, DiagnosticsKeepTurns
  <2>3. QED
    BY <1>2, <1>3, <2>1, <2>2, RowsStay
<1>6. QED
  BY <1>4, <1>5

LEMMA RerollStepStands ==
    ASSUME TypeInv, OneRunner, RowStands, NEW d \in Rerolls, StartReroll(d) \/ RerollStep(d)
    PROVE  RowStands'
<1>1. RerollRuns(d) \/ LoopFree
  BY DEF RerollStep, StartReroll, ResumeReroll, DeleteLastTurn, RestoreAfterDelete,
     SweepMemories, UnindexSwept, RerollRuns
<1>2. \A r \in Requests : req[r].pc # "activity"
  BY <1>1, OneCommits
<1>3. UNCHANGED req
  BY DEF RerollStep, StartReroll, ResumeReroll, DeleteLastTurn, RestoreAfterDelete,
     SweepMemories, UnindexSwept
<1>4. QED
  BY <1>2, <1>3, NobodyCommits

LEMMA JobStepStands ==
    ASSUME TypeInv, RowStands, NEW j \in jobs, JobStep(j), UNCHANGED req
    PROVE  RowStands'
<1>1. StoreTypeOK
  BY DEF TypeInv, TypeOK
<1>2. UNCHANGED session
  BY DEF JobStep, AbandonJob, StartCuration, GateCuration, CurateNothing, CurateMemory,
     PersistSummary, SkipSummary, UpsertMemory, EnforceCap, IndexRaises,
     MarkFolded, UnindexFolded, storeVars
<1>3. \E w : AppendMemoryOutcome(j.turn, w) \/ UNCHANGED turns
  BY DEF JobStep, AbandonJob, StartCuration, GateCuration, CurateNothing, CurateMemory,
     PersistSummary, SkipSummary, UpsertMemory, EnforceCap, IndexRaises,
     MarkFolded, UnindexFolded, storeVars, Consolidate,
     EndJob
<1>4. SameTurns
  BY <1>1, <1>3, DiagnosticsKeepTurns
<1>5. QED
  BY <1>2, <1>4, RowsStay DEF SessionLive

LEMMA NextStands ==
    ASSUME TypeInv, OneRunner, RowStands, [Next]_vars
    PROVE  RowStands'
<1>1. StoreTypeOK /\ req \in [Requests -> Request] /\ session \in SessionRow
  BY DEF TypeInv, TypeOK, StoreTypeOK
<1>2. ASSUME NEW r \in Requests, NEW mode \in Modes, NEW p \in Personas,
             SubmitTurn(r, mode, p)
      PROVE  RowStands'
  <2>1. /\ \A s \in Requests : s # r => req'[s] = req[s]
        /\ req'[r].pc # "activity"
    BY <1>1, <1>2 DEF SubmitTurn, Request
  <2>2. UNCHANGED <<turns, session>>
    BY <1>2 DEF SubmitTurn, storeVars
  <2>3. QED
    BY <2>1, <2>2, RowsStay DEF SessionLive
<1>3. CASE RunJob
  BY <1>3, JobStepStands DEF RunJob
<1>4. CASE (\E s \in Scenes : SwitchScene(s)) \/ PurgeVectors \/ UNCHANGED vars
  <2>1. UNCHANGED <<req, turns>>
    BY <1>4 DEF SwitchScene, PurgeVectors, vars, storeVars
  <2>2. SessionLive' => SessionLive
    BY <1>1, <1>4 DEF SwitchScene, UpdateActiveScene, PurgeVectors, vars, storeVars,
       SessionLive, SessionRow
  <2>3. QED
    BY <2>1, <2>2, RowsStay
<1>5. CASE DeleteSession
  <2>1. ~SessionLive'
    BY <1>1, <1>5 DEF DeleteSession, DeleteSessionRow, SessionLive, SessionRow
  <2>2. QED
    BY <2>1 DEF RowStands
<1>6. CASE Crash
  <2>1. \A r \in Requests : req'[r] = req[r] \/ req'[r] = [req[r] EXCEPT !.pc = "lost"]
    BY <1>6 DEF Crash
  <2>2. \A r \in Requests : req'[r].pc = "activity" => req'[r] = req[r]
    BY <1>1, <2>1 DEF Request
  <2>3. UNCHANGED <<turns, session>>
    BY <1>6 DEF Crash, storeVars
  <2>4. QED
    BY <2>2, <2>3, RowsStay DEF SessionLive
<1>7. QED
  BY <1>2, <1>3, <1>4, <1>5, <1>6, RequestStepStands, RerollStepStands DEF Next

-----------------------------------------------------------------------------
(* The pointer *)

PersonaStep ==
    session'.persona # session.persona
    => \E t \in turns' : t.outcome = "success" /\ t.persona = session'.persona

LEMMA NextMovesPersona ==
    ASSUME TypeInv, RowStands, [Next]_vars
    PROVE  PersonaStep
<1>1. StoreTypeOK /\ RowsBounded /\ session \in SessionRow
  BY DEF TypeInv, TypeOK, StoreTypeOK
<1>2. CASE session'.persona = session.persona
  BY <1>2 DEF PersonaStep
<1>3. ASSUME NEW r \in Requests, CommitActivity(r)  PROVE PersonaStep
  <2>1. CASE SessionLive /\ CommitsPersona(r)
    <3>1. /\ req[r].pc = "activity" /\ session' = [session EXCEPT !.persona = req[r].persona]
          /\ UNCHANGED turns
      BY <1>3, <2>1 DEF CommitActivity, UpdateActivePersona
    <3>2. PICK t \in turns : t.persona = req[r].persona /\ t.outcome = "success"
      BY <2>1, <3>1 DEF RowStands, CommitsPersona
    <3>3. QED
      BY <1>1, <3>1, <3>2 DEF PersonaStep, SessionRow
  <2>2. CASE ~(SessionLive /\ CommitsPersona(r))
    BY <1>3, <2>2 DEF CommitActivity, PersonaStep
  <2>3. QED
    BY <2>1, <2>2
<1>4. ASSUME NEW d \in Rerolls, RestoreAfterDelete(d)  PROVE PersonaStep
  <2>1. RestorePersona(rerolls[d].row) /\ UNCHANGED turns
    BY <1>4 DEF RestoreAfterDelete
  <2>2. CASE UNCHANGED session
    BY <2>2 DEF PersonaStep
  <2>3. CASE SuccessTurns # {} /\ UpdateActivePersona(LastTurn(SuccessTurns).persona)
    <3>1. SuccessTurns \in SUBSET turns
      BY DEF SuccessTurns
    <3>2. LastTurn(SuccessTurns) \in SuccessTurns
      BY <1>1, <2>3, <3>1, LastOfTurns
    <3>3. LastTurn(SuccessTurns) \in turns' /\ LastTurn(SuccessTurns).outcome = "success"
      BY <2>1, <3>2 DEF SuccessTurns
    <3>4. session'.persona = LastTurn(SuccessTurns).persona
      BY <1>1, <2>3 DEF UpdateActivePersona, SessionRow
    <3>5. QED
      BY <3>3, <3>4 DEF PersonaStep
  <2>4. QED
    BY <2>1, <2>2, <2>3 DEF RestorePersona
<1>5. ASSUME ~\E r \in Requests : CommitActivity(r), ~\E d \in Rerolls : RestoreAfterDelete(d)
      PROVE  session'.persona = session.persona
  <2>1. CASE \E r \in Requests, mode \in Modes, p \in Personas : SubmitTurn(r, mode, p)
    BY <2>1 DEF SubmitTurn, storeVars
  <2>2. CASE \E r \in Requests : RequestStep(r) \/ Disconnect(r)
    BY <1>5, <2>2 DEF RequestStep, Disconnect, ProviderError, PersistTurn, ReturnTurn,
       ScheduleStreamed, storeVars
  <2>3. CASE \E d \in Rerolls : StartReroll(d) \/ RerollStep(d)
    BY <1>5, <2>3 DEF RerollStep, StartReroll, ResumeReroll, DeleteLastTurn, SweepMemories, UnindexSwept,
       storeVars
  <2>4. CASE RunJob
    BY <2>4 DEF RunJob, JobStep, AbandonJob, StartCuration, GateCuration, CurateNothing,
       CurateMemory, PersistSummary, SkipSummary, UpsertMemory, EnforceCap, IndexRaises,
     MarkFolded, UnindexFolded, storeVars
  <2>5. CASE (\E s \in Scenes : SwitchScene(s)) \/ DeleteSession
    BY <1>1, <2>5 DEF SwitchScene, UpdateActiveScene, DeleteSession, DeleteSessionRow, SessionRow
  <2>6. CASE PurgeVectors \/ Crash \/ UNCHANGED vars
    BY <2>6 DEF PurgeVectors, Crash, vars, storeVars
  <2>7. QED
    BY <2>1, <2>2, <2>3, <2>4, <2>5, <2>6 DEF Next
<1>6. QED
  BY <1>2, <1>3, <1>4, <1>5

\* The active persona only moves to the persona of a successful turn that is in
\* the history at that moment: an override is committed after its turn's row and
\* before any reroll can take it (run_turn), and a reroll falls back to a turn
\* that is there (restore_persona_after_turn_delete).
THEOREM PersonaMoves == Spec => PersonaMovesWithHistory
<1>1. Init => TypeInv /\ PersonaInv
  <2>1. Init => OneRunner /\ RowStands
    BY DEF Init, MemoryInit, OneRunner, RowStands, RequestRuns, RerollRuns
  <2>2. QED
    BY <2>1, InitTypes DEF PersonaInv
<1>2. TypeInv /\ PersonaInv /\ [Next]_vars => TypeInv' /\ PersonaInv'
  BY NextTypes, NextRuns, NextStands DEF PersonaInv
<1>3. TypeInv /\ PersonaInv /\ [Next]_vars => [PersonaStep]_vars
  BY NextMovesPersona DEF PersonaInv
<1>4. QED
  BY <1>1, <1>2, <1>3, PTL DEF Spec, PersonaMovesWithHistory, PersonaStep

-----------------------------------------------------------------------------
(* One client at a time *)

\* A step after which nobody asks who did not ask before.
LEMMA AskersShrink ==
    ASSUME OneClient,
           \A r \in Requests : RequestAsks(r)' => RequestAsks(r),
           \A d \in Rerolls : RerollAsks(d)' => RerollAsks(d)
    PROVE  OneClient'
BY DEF OneClient

LEMMA NextOneClient ==
    ASSUME Sequential, TypeInv, OneClient, [Next]_vars
    PROVE  OneClient'
<1>1. req \in [Requests -> Request] /\ rerolls \in [Rerolls -> Reroll]
  BY DEF TypeInv, TypeOK
<1>2. ClientMayAsk => /\ \A r \in Requests : ~RequestAsks(r)
                      /\ \A d \in Rerolls : ~RerollAsks(d)
  BY DEF ClientMayAsk, InFlight, RequestAsks, RerollAsks
<1>3. ASSUME NEW r \in Requests, NEW mode \in Modes, NEW p \in Personas, SubmitTurn(r, mode, p)
      PROVE  OneClient'
  <2>1. /\ \A s \in Requests : s # r => req'[s] = req[s]
        /\ UNCHANGED rerolls /\ ClientMayAsk
    BY <1>1, <1>3 DEF SubmitTurn
  <2>2. /\ \A s \in Requests : s # r => ~RequestAsks(s)'
        /\ \A d \in Rerolls : ~RerollAsks(d)'
    BY <1>2, <2>1 DEF RequestAsks, RerollAsks, RequestEnded, RerollEnded
  <2>3. QED
    BY <2>2 DEF OneClient
<1>4. ASSUME NEW r \in Requests, RequestStep(r) \/ Disconnect(r)  PROVE OneClient'
  <2>1. RequestAsks(r) /\ UNCHANGED rerolls
    BY <1>4 DEF RequestStep, Disconnect, ProviderError, PersistTurn, CommitActivity, ReturnTurn,
       ScheduleStreamed, RequestAsks, RequestEnded
  <2>2. \A s \in Requests : s # r => req'[s] = req[s]
    BY <1>1, <1>4 DEF RequestStep, Disconnect, ProviderError, PersistTurn, CommitActivity,
       ReturnTurn, ScheduleStreamed
  <2>3. QED
    BY <2>1, <2>2, AskersShrink DEF RequestAsks, RerollAsks, RequestEnded, RerollEnded
<1>5. ASSUME NEW d \in Rerolls, StartReroll(d)  PROVE OneClient'
  <2>1. /\ \A e \in Rerolls : e # d => rerolls'[e] = rerolls[e]
        /\ UNCHANGED req /\ ClientMayAsk
    BY <1>1, <1>5 DEF StartReroll
  <2>2. /\ \A r \in Requests : ~RequestAsks(r)'
        /\ \A e \in Rerolls : e # d => ~RerollAsks(e)'
    BY <1>2, <2>1 DEF RequestAsks, RerollAsks, RequestEnded, RerollEnded
  <2>3. QED
    BY <2>2 DEF OneClient
<1>6. ASSUME NEW d \in Rerolls, RerollStep(d)  PROVE OneClient'
  <2>1. RerollAsks(d) /\ UNCHANGED req
    BY <1>6 DEF RerollStep, ResumeReroll, DeleteLastTurn, RestoreAfterDelete, SweepMemories, UnindexSwept,
       RerollAsks, RerollEnded
  <2>2. \A e \in Rerolls : e # d => rerolls'[e] = rerolls[e]
    BY <1>1, <1>6 DEF RerollStep, ResumeReroll, DeleteLastTurn, RestoreAfterDelete, SweepMemories, UnindexSwept
  <2>3. QED
    BY <2>1, <2>2, AskersShrink DEF RequestAsks, RerollAsks, RequestEnded, RerollEnded
<1>7. CASE RunJob \/ (\E s \in Scenes : SwitchScene(s)) \/ DeleteSession \/ PurgeVectors
           \/ UNCHANGED vars
  <2>1. UNCHANGED <<req, rerolls>>
    BY <1>7 DEF RunJob, SwitchScene, DeleteSession, PurgeVectors, vars
  <2>2. QED
    BY <2>1, AskersShrink DEF RequestAsks, RerollAsks, RequestEnded, RerollEnded
<1>8. CASE Crash
  <2>1. ASSUME NEW r \in Requests, RequestAsks(r)'  PROVE RequestAsks(r)
    <3>1. req'[r] = req[r] \/ (req[r].pc # "new" /\ ~RequestEnded(r))
      BY <1>8 DEF Crash
    <3>2. QED
      BY <2>1, <3>1 DEF RequestAsks, RequestEnded
  <2>2. ASSUME NEW d \in Rerolls, RerollAsks(d)'  PROVE RerollAsks(d)
    <3>1. rerolls'[d] = rerolls[d] \/ (rerolls[d].pc # "new" /\ ~RerollEnded(d))
      BY <1>8 DEF Crash
    <3>2. QED
      BY <2>2, <3>1 DEF RerollAsks, RerollEnded
  <2>3. QED
    BY <2>1, <2>2, AskersShrink
<1>9. QED
  BY <1>3, <1>4, <1>5, <1>6, <1>7, <1>8 DEF Next

\* A request that asks is the only one, and no reroll asks; and the other way round.
LEMMA AsksAlone ==
    ASSUME OneClient
    PROVE  /\ \A r \in Requests : RequestAsks(r)
                => /\ \A s \in Requests : s # r => ~RequestAsks(s)
                   /\ \A d \in Rerolls : ~RerollAsks(d)
           /\ \A d \in Rerolls : RerollAsks(d)
                => /\ \A r \in Requests : ~RequestAsks(r)
                   /\ \A e \in Rerolls : e # d => ~RerollAsks(e)
BY DEF OneClient


-----------------------------------------------------------------------------
(* The rows of a deleted session *)

LEMMA NextDeleted ==
    ASSUME TypeInv, DeletedIsEmpty, [Next]_vars
    PROVE  DeletedIsEmpty'
<1>1. session \in SessionRow /\ StoreTypeOK
  BY DEF TypeInv, TypeOK, StoreTypeOK
<1>2. ASSUME SessionLive' <=> SessionLive, ~SessionLive => turns' = {} /\ memories' = {}
      PROVE  DeletedIsEmpty'
  BY <1>2 DEF DeletedIsEmpty
<1>3. ASSUME UNCHANGED <<turns, memories>>, SessionLive' <=> SessionLive
      PROVE  DeletedIsEmpty'
  BY <1>3 DEF DeletedIsEmpty
<1>4. ASSUME NEW p, UpdateActivePersona(p) PROVE SessionLive' <=> SessionLive
  BY <1>1, <1>4 DEF UpdateActivePersona, SessionLive, SessionRow
<1>5. CASE \E r \in Requests, mode \in Modes, p \in Personas : SubmitTurn(r, mode, p)
  BY <1>3, <1>5 DEF SubmitTurn, storeVars, SessionLive
<1>6. ASSUME NEW r \in Requests, RequestStep(r) \/ Disconnect(r)  PROVE DeletedIsEmpty'
  <2>1. CASE ProviderError(r) \/ Disconnect(r) \/ ScheduleStreamed(r)
    BY <1>3, <2>1 DEF ProviderError, Disconnect, ScheduleStreamed, storeVars, SessionLive
  <2>2. CASE \E o \in Outcomes : PersistTurn(r, o)
    BY <1>2, <2>2 DEF PersistTurn, SessionLive, DeletedIsEmpty
  <2>3. CASE CommitActivity(r)
    <3>1. UNCHANGED <<turns, memories>>
      BY <2>3 DEF CommitActivity
    <3>2. UpdateActivePersona(req[r].persona) \/ UNCHANGED session
      BY <2>3 DEF CommitActivity
    <3>3. QED
      BY <1>3, <1>4, <3>1, <3>2 DEF SessionLive
  <2>4. CASE ReturnTurn(r)
    <3>1. UNCHANGED <<session, memories>> /\ (turns = {} => turns' = {})
      BY <2>4 DEF ReturnTurn, UpdateTurnDiagnostics
    <3>2. QED
      BY <1>2, <3>1 DEF SessionLive, DeletedIsEmpty
  <2>5. QED
    BY <1>6, <2>1, <2>2, <2>3, <2>4 DEF RequestStep
<1>7. ASSUME NEW d \in Rerolls, StartReroll(d) \/ RerollStep(d)  PROVE DeletedIsEmpty'
  <2>1. CASE StartReroll(d) \/ ResumeReroll(d)
    BY <1>3, <2>1 DEF StartReroll, ResumeReroll, storeVars, SessionLive
  <2>2. CASE DeleteLastTurn(d)
    BY <1>2, <2>2 DEF DeleteLastTurn, SessionLive, DeletedIsEmpty
  <2>3. CASE RestoreAfterDelete(d)
    <3>1. UNCHANGED <<turns, memories>>
      BY <2>3 DEF RestoreAfterDelete
    <3>2. (\E p : UpdateActivePersona(p)) \/ UNCHANGED session
      BY <2>3 DEF RestoreAfterDelete, RestorePersona
    <3>3. QED
      BY <1>3, <1>4, <3>1, <3>2 DEF SessionLive
  <2>4. CASE SweepMemories(d)
    <3>1. UNCHANGED <<session, turns>> /\ memories' \subseteq memories
      BY <2>4 DEF SweepMemories, MemoriesBefore
    <3>2. QED
      BY <1>2, <3>1 DEF SessionLive, DeletedIsEmpty
  <2>5. CASE UnindexSwept(d)
    BY <1>2, <2>5 DEF UnindexSwept, storeVars, SessionLive, DeletedIsEmpty
  <2>6. QED
    BY <1>7, <2>1, <2>2, <2>3, <2>4, <2>5 DEF RerollStep
<1>8. ASSUME NEW j \in jobs, JobStep(j)  PROVE DeletedIsEmpty'
  <2>1. UNCHANGED session
    BY <1>8 DEF JobStep, AbandonJob, StartCuration, GateCuration, CurateNothing, CurateMemory,
       PersistSummary, SkipSummary, UpsertMemory, EnforceCap, IndexRaises,
     MarkFolded, UnindexFolded, storeVars
  <2>2. turns = {} => turns' = {}
    BY <1>8 DEF JobStep, AbandonJob, StartCuration, GateCuration, CurateNothing, CurateMemory,
       PersistSummary, SkipSummary, UpsertMemory, EnforceCap, IndexRaises,
     MarkFolded, UnindexFolded, storeVars,
       Consolidate, EndJob, AppendMemoryOutcome
  <2>3. ~SessionLive /\ memories = {} => memories' = {}
    BY <1>8 DEF JobStep, AbandonJob, StartCuration, GateCuration, CurateNothing, CurateMemory,
       PersistSummary, SkipSummary, UpsertMemory, EnforceCap, IndexRaises,
     MarkFolded, UnindexFolded, storeVars,
       MarkConsolidated
  <2>4. QED
    BY <1>2, <2>1, <2>2, <2>3 DEF SessionLive, DeletedIsEmpty
<1>9. CASE \E s \in Scenes : SwitchScene(s)
  <2>1. UNCHANGED <<turns, memories>> /\ (SessionLive' <=> SessionLive)
    BY <1>1, <1>9 DEF SwitchScene, UpdateActiveScene, SessionLive, SessionRow
  <2>2. QED
    BY <1>3, <2>1
<1>10. CASE DeleteSession
  BY <1>10 DEF DeleteSession, DeleteSessionRow, DeletedIsEmpty
<1>11. CASE PurgeVectors \/ Crash \/ UNCHANGED vars
  BY <1>3, <1>11 DEF PurgeVectors, Crash, vars, storeVars, SessionLive
<1>12. QED
  BY <1>5, <1>6, <1>7, <1>8, <1>9, <1>10, <1>11 DEF Next, RunJob

-----------------------------------------------------------------------------
(* The pointer and the newest successful turn *)

\* persona p is the newest successful turn's
NewestHas(p) == \E t \in SuccessTurns : IsLast(t, SuccessTurns) /\ t.persona = p

\* Diagnostics change neither what the newest turn is nor whose it is.
LEMMA NewestKept ==
    ASSUME SameTurns, session'.persona = session.persona
    PROVE  /\ PersonaIsLatest => PersonaIsLatest'
           /\ \A p : NewestHas(p) => NewestHas(p)'
<1>1. ASSUME NEW t \in SuccessTurns', IsLast(t, SuccessTurns)'
      PROVE  \E u \in SuccessTurns : IsLast(u, SuccessTurns) /\ u.persona = t.persona
  <2>1. t \in turns' /\ t.outcome = "success" /\ \A v \in SuccessTurns' : v.index <= t.index
    BY <1>1 DEF SuccessTurns, IsLast
  <2>2. PICK u \in turns : SameTurn(t, u)
    BY <2>1 DEF SameTurns
  <2>3. u \in SuccessTurns /\ u.persona = t.persona /\ u.index = t.index
    BY <2>1, <2>2 DEF SameTurn, SuccessTurns
  <2>4. ASSUME NEW v \in SuccessTurns  PROVE v.index <= u.index
    <3>1. PICK w \in turns' : SameTurn(w, v)
      BY DEF SameTurns, SuccessTurns
    <3>2. w \in SuccessTurns' /\ w.index = v.index
      BY <3>1 DEF SameTurn, SuccessTurns
    <3>3. QED
      BY <2>1, <2>3, <3>2
  <2>5. QED
    BY <2>3, <2>4 DEF IsLast
<1>2. ASSUME NEW p, NEW u \in SuccessTurns, IsLast(u, SuccessTurns), u.persona = p
      PROVE  NewestHas(p)'
  <2>1. u \in turns /\ u.outcome = "success" /\ \A v \in SuccessTurns : v.index <= u.index
    BY <1>2 DEF SuccessTurns, IsLast
  <2>2. PICK t \in turns' : SameTurn(t, u)
    BY <2>1 DEF SameTurns
  <2>3. t \in SuccessTurns' /\ t.persona = u.persona /\ t.index = u.index
    BY <2>1, <2>2 DEF SameTurn, SuccessTurns
  <2>4. ASSUME NEW v \in SuccessTurns'  PROVE v.index <= t.index
    <3>1. PICK w \in turns : SameTurn(v, w)
      BY DEF SameTurns, SuccessTurns
    <3>2. w \in SuccessTurns /\ w.index = v.index
      BY <3>1 DEF SameTurn, SuccessTurns
    <3>3. QED
      BY <2>1, <2>3, <3>2
  <2>5. QED
    BY <1>2, <2>3, <2>4 DEF IsLast, NewestHas
<1>3. PersonaIsLatest => PersonaIsLatest'
  BY <1>1 DEF PersonaIsLatest
<1>4. QED
  BY <1>2, <1>3 DEF NewestHas

\* A step that writes at most diagnostics, and neither begins nor ends the part
\* of a request or a reroll that PersonaInStep speaks of.
LEMMA QuietPersona ==
    ASSUME PersonaInStep, SameTurns, session'.persona = session.persona,
           SessionLive' <=> SessionLive,
           \A r \in Requests : req'[r].pc \in {"generating", "activity"} => req'[r] = req[r],
           \A r \in Requests : req[r].pc = "activity" => req'[r] = req[r],
           \A d \in Rerolls : rerolls'[d].pc = "restoring" => rerolls'[d] = rerolls[d],
           \A d \in Rerolls : rerolls[d].pc = "restoring" => rerolls'[d] = rerolls[d]
    PROVE  PersonaInStep'
<1>1. /\ PersonaIsLatest => PersonaIsLatest'
      /\ \A p : NewestHas(p) => NewestHas(p)'
  BY NewestKept
<1>2. \/ PersonaIsLatest'
      \/ \E r \in Requests : req'[r].pc = "activity" /\ req'[r].outcome = "success"
      \/ \E d \in Rerolls : rerolls'[d].pc = "restoring" /\ rerolls'[d].row.outcome = "success"
  BY <1>1 DEF PersonaInStep
<1>3. ASSUME NEW r \in Requests, SessionLive', req'[r].pc = "activity", req'[r].outcome = "success"
      PROVE  NewestHas(req[r].persona)'
  <2>1. req'[r] = req[r] /\ SessionLive
    BY <1>3
  <2>2. NewestHas(req[r].persona)
    BY <1>3, <2>1 DEF PersonaInStep, NewestHas
  <2>3. QED
    BY <1>1, <2>1, <2>2 DEF NewestHas
<1>4. QED
  BY <1>2, <1>3 DEF PersonaInStep, NewestHas

\* Nobody is between a turn row and the commit of its persona: the pointer is latest.
LEMMA SettledPersona ==
    ASSUME PersonaInStep,
           \A r \in Requests : req[r].pc # "activity" \/ req[r].outcome # "success",
           \A d \in Rerolls : rerolls[d].pc # "restoring" \/ rerolls[d].row.outcome # "success"
    PROVE  PersonaIsLatest
BY DEF PersonaInStep

\* After a step that settles the pointer nobody is in between.
LEMMA SettlePersona ==
    ASSUME PersonaIsLatest',
           \A r \in Requests : req'[r].pc \notin {"generating", "activity"},
           \A d \in Rerolls : rerolls'[d].pc # "restoring"
    PROVE  PersonaInStep'
BY DEF PersonaInStep


LEMMA SubmitFollows ==
    ASSUME Sequential, TypeInv, PersonaInStep, NEW r \in Requests, NEW mode \in Modes,
           NEW p \in Personas, SubmitTurn(r, mode, p)
    PROVE  PersonaInStep'
<1>1. req \in [Requests -> Request] /\ StoreTypeOK
  BY DEF TypeInv, TypeOK
<1>2. /\ ClientMayAsk /\ UNCHANGED <<session, turns, rerolls>>
      /\ \A s \in Requests : s # r => req'[s] = req[s]
  BY <1>1 DEF SubmitTurn, storeVars
<1>3. /\ \A s \in Requests : req[s].pc \notin {"generating", "activity"}
      /\ \A d \in Rerolls : rerolls[d].pc # "restoring"
  BY <1>2 DEF ClientMayAsk, InFlight, RequestEnded, RerollEnded
<1>4. PersonaIsLatest'
  <2>1. PersonaIsLatest
    BY <1>3, SettledPersona
  <2>2. SuccessTurns' = SuccessTurns
    BY <1>2 DEF SuccessTurns
  <2>3. QED
    BY <1>2, <2>1, <2>2 DEF PersonaIsLatest, IsLast
<1>5. /\ req'[r].pc \in {"generating", "failed"}
      /\ req'[r].pc = "generating" => req'[r].switched \/ session.persona = req'[r].persona
  <2>1. CASE SessionLive
    <3>1. req' = [req EXCEPT ![r] = [@ EXCEPT !.pc = "generating", !.mode = mode,
                                              !.scene = session.scene, !.persona = p,
                                              !.switched = (p # session.persona)]]
      BY <2>1 DEF SubmitTurn
    <3>2. /\ req'[r].pc = "generating" /\ req'[r].persona = p
          /\ req'[r].switched = (p # session.persona)
      BY <1>1, <3>1 DEF Request
    <3>3. QED
      BY <3>2
  <2>2. CASE ~SessionLive
    <3>1. req' = [req EXCEPT ![r] = [@ EXCEPT !.pc = "failed", !.mode = mode]]
      BY <2>2 DEF SubmitTurn
    <3>2. req'[r].pc = "failed"
      BY <1>1, <3>1 DEF Request
    <3>3. QED
      BY <3>2
  <2>3. QED
    BY <2>1, <2>2
<1>6. QED
  BY <1>2, <1>3, <1>4, <1>5 DEF PersonaInStep

LEMMA PersistFollows ==
    ASSUME TypeInv, TurnsInOrder, OneClient, PersonaInStep, NEW r \in Requests,
           NEW o \in Outcomes, PersistTurn(r, o), SessionLive
    PROVE  PersonaInStep'
<1> DEFINE row == [id |-> turnSeq + 1, index |-> NextIndex, scene |-> req[r].scene,
                   persona |-> req[r].persona, outcome |-> o, created |-> clock + 1,
                   diagnostics |-> "unset"]
<1>1. /\ req \in [Requests -> Request] /\ StoreTypeOK /\ RowsBounded
      /\ turns \in SUBSET TurnRow
  BY DEF TypeInv, TypeOK, StoreTypeOK
<1>2. /\ req[r].pc = "generating" /\ turns' = turns \cup {row}
      /\ req' = [req EXCEPT ![r].pc = "activity", ![r].outcome = o, ![r].turn = turnSeq + 1]
      /\ UNCHANGED <<session, rerolls>>
  BY DEF PersistTurn, AppendTurn
<1>3. /\ req'[r].pc = "activity" /\ req'[r].outcome = o
      /\ req'[r].persona = req[r].persona /\ req'[r].switched = req[r].switched
      /\ \A s \in Requests : s # r => req'[s] = req[s]
  BY <1>1, <1>2 DEF Request
<1>4. /\ \A s \in Requests : s # r => req[s].pc \notin {"generating", "activity"}
      /\ \A d \in Rerolls : rerolls[d].pc # "restoring"
  BY <1>2, AsksAlone DEF RequestAsks, RerollAsks, RequestEnded, RerollEnded
<1>5. /\ row.index = NextIndex /\ row.persona = req[r].persona /\ row.outcome = o
  OBVIOUS
<1> HIDE DEF row
<1>6. NextIndex \in Nat /\ \A t \in turns : t.index <= NextIndex
  <2>1. NextIndex \in Nat
    BY <1>1, NextIndexBounded
  <2>2. ASSUME NEW t \in turns  PROVE t.index <= NextIndex
    <3>1. LastTurn(turns) \in turns /\ t.index <= LastTurn(turns).index
      BY <1>1, LastOfTurns
    <3>2. NextIndex = LastTurn(turns).index + 1
      BY DEF NextIndex
    <3>3. t.index \in Nat /\ LastTurn(turns).index \in Nat
      BY <1>1, <3>1 DEF TurnRow
    <3>4. QED
      BY <3>1, <3>2, <3>3
  <2>3. QED
    BY <2>1, <2>2
<1>7. session.persona = session'.persona /\ (req[r].switched \/ session.persona = req[r].persona)
  BY <1>2 DEF PersonaInStep
<1>8. CASE o = "success"
  <2>1. row \in SuccessTurns' /\ \A t \in SuccessTurns' : t.index <= row.index
    BY <1>2, <1>5, <1>6, <1>8 DEF SuccessTurns
  <2>2. \E t \in SuccessTurns' : IsLast(t, SuccessTurns') /\ t.persona = req'[r].persona
    BY <1>3, <1>5, <2>1 DEF IsLast
  <2>3. QED
    BY <1>2, <1>3, <1>4, <1>7, <1>8, <2>2 DEF PersonaInStep, IsLast
<1>9. CASE o # "success"
  <2>1. SuccessTurns' = SuccessTurns
    BY <1>2, <1>5, <1>9 DEF SuccessTurns
  <2>2. PersonaIsLatest
    BY <1>2, <1>4, SettledPersona
  <2>3. PersonaIsLatest'
    BY <1>2, <2>1, <2>2 DEF PersonaIsLatest, IsLast
  <2>4. QED
    BY <1>2, <1>3, <1>4, <1>7, <1>9, <2>3 DEF PersonaInStep
<1>10. QED
  BY <1>8, <1>9

LEMMA CommitFollows ==
    ASSUME TypeInv, TypeInv', TurnsInOrder, TurnsInOrder', OneClient, DeletedIsEmpty,
           PersonaInStep, NEW r \in Requests, CommitActivity(r)
    PROVE  PersonaInStep'
<1>1. /\ req \in [Requests -> Request] /\ session \in SessionRow
      /\ StoreTypeOK /\ StoreTypeOK'
  BY DEF TypeInv, TypeOK, StoreTypeOK
<1>2. /\ req[r].pc = "activity" /\ UNCHANGED <<turns, rerolls>>
      /\ req' = [req EXCEPT ![r].pc =
                   IF SessionLive THEN "diagnostics" ELSE StoreErrorPc(req[r].outcome)]
  BY DEF CommitActivity
<1>3. req'[r].pc \in {"diagnostics", "failed", "done"} /\ \A s \in Requests : s # r => req'[s] = req[s]
  BY <1>1, <1>2 DEF Request, StoreErrorPc
<1>4. /\ \A s \in Requests : s # r => req[s].pc \notin {"generating", "activity"}
      /\ \A d \in Rerolls : rerolls[d].pc # "restoring"
  BY <1>2, AsksAlone DEF RequestAsks, RerollAsks, RequestEnded, RerollEnded
<1>5. /\ \A s \in Requests : req'[s].pc \notin {"generating", "activity"}
      /\ \A d \in Rerolls : rerolls'[d].pc # "restoring"
  BY <1>2, <1>3, <1>4
<1>6. SuccessTurns' = SuccessTurns
  BY <1>2 DEF SuccessTurns
<1>7. CASE ~SessionLive
  <2>1. SuccessTurns = {}
    BY <1>7 DEF DeletedIsEmpty, SuccessTurns
  <2>2. PersonaIsLatest'
    BY <1>6, <2>1 DEF PersonaIsLatest
  <2>3. QED
    BY <1>5, <2>2, SettlePersona
<1>8. CASE SessionLive /\ req[r].outcome = "success"
  <2>1. NewestHas(req[r].persona) /\ (req[r].switched \/ session.persona = req[r].persona)
    BY <1>2, <1>8 DEF PersonaInStep, NewestHas
  <2>2. session'.persona = req[r].persona
    <3>1. CASE req[r].switched
      <4>1. session' = [session EXCEPT !.persona = req[r].persona]
        BY <1>8, <3>1 DEF CommitActivity, CommitsPersona, UpdateActivePersona
      <4>2. QED
        BY <1>1, <4>1 DEF SessionRow
    <3>2. CASE ~req[r].switched
      BY <1>8, <2>1, <3>2 DEF CommitActivity, CommitsPersona
    <3>3. QED
      BY <3>1, <3>2
  <2>3. PICK u \in SuccessTurns : IsLast(u, SuccessTurns) /\ u.persona = req[r].persona
    BY <2>1 DEF NewestHas
  <2>4. ASSUME NEW t \in SuccessTurns, IsLast(t, SuccessTurns)  PROVE t.persona = u.persona
    <3>1. t \in turns /\ u \in turns /\ t.index <= u.index /\ u.index <= t.index
      BY <2>3, <2>4 DEF IsLast, SuccessTurns
    <3>2. t.index \in Nat /\ u.index \in Nat
      BY <1>1, <3>1 DEF StoreTypeOK, TurnRow
    <3>3. t.index = u.index
      BY <3>1, <3>2
    <3>4. QED
      BY <3>1, <3>3 DEF TurnsInOrder
  <2>5. PersonaIsLatest'
    BY <1>6, <2>2, <2>3, <2>4 DEF PersonaIsLatest, IsLast
  <2>6. QED
    BY <1>5, <2>5, SettlePersona
<1>9. CASE SessionLive /\ req[r].outcome # "success"
  <2>1. PersonaIsLatest
    BY <1>4, <1>9, SettledPersona
  <2>2. UNCHANGED session
    BY <1>9 DEF CommitActivity, CommitsPersona
  <2>3. PersonaIsLatest'
    BY <1>6, <2>1, <2>2 DEF PersonaIsLatest, IsLast
  <2>4. QED
    BY <1>5, <2>3, SettlePersona
<1>10. QED
  BY <1>7, <1>8, <1>9

LEMMA DeleteFollows ==
    ASSUME TypeInv, OneClient, PersonaInStep, NEW d \in Rerolls, DeleteLastTurn(d),
           SessionLive, turns # {}
    PROVE  PersonaInStep'
<1>1. rerolls \in [Rerolls -> Reroll] /\ StoreTypeOK /\ RowsBounded
  BY DEF TypeInv, TypeOK
<1>2. /\ rerolls[d].pc = "deleting" /\ turns' = turns \ {LastTurn(turns)}
      /\ rerolls' = [rerolls EXCEPT ![d].pc = "restoring", ![d].row = LastTurn(turns)]
      /\ UNCHANGED <<session, req>>
  BY DEF DeleteLastTurn
<1>3. /\ rerolls'[d].pc = "restoring" /\ rerolls'[d].row = LastTurn(turns)
      /\ \A e \in Rerolls : e # d => rerolls'[e] = rerolls[e]
  BY <1>1, <1>2 DEF Reroll
<1>4. /\ \A r \in Requests : req[r].pc \notin {"generating", "activity"}
      /\ \A e \in Rerolls : e # d => rerolls[e].pc # "restoring"
  BY <1>2, AsksAlone DEF RequestAsks, RerollAsks, RequestEnded, RerollEnded
<1>5. PersonaIsLatest
  BY <1>2, <1>4, SettledPersona
<1>6. LastTurn(turns) \in turns /\ \A u \in turns : u.index <= LastTurn(turns).index
  BY <1>1, LastOfTurns
<1>7. CASE LastTurn(turns).outcome = "success"
  <2>1. LastTurn(turns) \in SuccessTurns /\ IsLast(LastTurn(turns), SuccessTurns)
    BY <1>6, <1>7 DEF SuccessTurns, IsLast
  <2>2. session.persona = LastTurn(turns).persona
    BY <1>5, <2>1 DEF PersonaIsLatest
  <2>3. QED
    BY <1>2, <1>3, <1>4, <1>7, <2>2 DEF PersonaInStep
<1>8. CASE LastTurn(turns).outcome # "success"
  <2>1. SuccessTurns' = SuccessTurns
    BY <1>2, <1>8 DEF SuccessTurns
  <2>2. PersonaIsLatest'
    BY <1>2, <1>5, <2>1 DEF PersonaIsLatest, IsLast
  <2>3. QED
    BY <1>2, <1>3, <1>4, <1>8, <2>2 DEF PersonaInStep
<1>9. QED
  BY <1>7, <1>8

LEMMA RestoreFollows ==
    ASSUME TypeInv, TurnsInOrder, OneClient, DeletedIsEmpty, PersonaInStep,
           NEW d \in Rerolls, RestoreAfterDelete(d)
    PROVE  PersonaInStep'
<1> DEFINE row == rerolls[d].row
<1>1. /\ rerolls \in [Rerolls -> Reroll] /\ session \in SessionRow
      /\ StoreTypeOK /\ RowsBounded
  BY DEF TypeInv, TypeOK, StoreTypeOK
<1>2. /\ rerolls[d].pc = "restoring" /\ RestorePersona(row) /\ UNCHANGED <<turns, req>>
      /\ rerolls' = [rerolls EXCEPT ![d].pc = "sweeping"]
  BY DEF RestoreAfterDelete
<1>3. rerolls'[d].pc = "sweeping" /\ \A e \in Rerolls : e # d => rerolls'[e] = rerolls[e]
  BY <1>1, <1>2 DEF Reroll
<1>4. /\ \A r \in Requests : req[r].pc \notin {"generating", "activity"}
      /\ \A e \in Rerolls : e # d => rerolls[e].pc # "restoring"
  BY <1>2, AsksAlone DEF RequestAsks, RerollAsks, RequestEnded, RerollEnded
<1>5. SuccessTurns' = SuccessTurns /\ SuccessTurns \in SUBSET turns
  BY <1>2 DEF SuccessTurns
<1>6. PersonaIsLatest'
  <2>1. CASE SuccessTurns = {}
    BY <1>5, <2>1 DEF PersonaIsLatest
  <2>2. CASE SuccessTurns # {} /\ row.outcome # "success"
    <3>1. PersonaIsLatest
      BY <1>4, <2>2, SettledPersona
    <3>2. UNCHANGED session
      BY <1>2, <2>2 DEF RestorePersona
    <3>3. QED
      BY <1>5, <3>1, <3>2 DEF PersonaIsLatest, IsLast
  <2>3. CASE SuccessTurns # {} /\ row.outcome = "success"
    <3>1. SessionLive
      BY <2>3 DEF DeletedIsEmpty, SuccessTurns
    <3>2. session.persona = row.persona
      BY <1>2, <2>3, <3>1 DEF PersonaInStep
    <3>3. session' = [session EXCEPT !.persona = LastTurn(SuccessTurns).persona]
      BY <1>2, <2>3, <3>1, <3>2 DEF RestorePersona, UpdateActivePersona
    <3>4. session'.persona = LastTurn(SuccessTurns).persona
      BY <1>1, <3>3 DEF SessionRow
    <3>5. /\ LastTurn(SuccessTurns) \in SuccessTurns
          /\ \A u \in SuccessTurns : u.index <= LastTurn(SuccessTurns).index
      BY <1>1, <1>5, <2>3, LastOfTurns
    <3>6. ASSUME NEW t \in SuccessTurns, IsLast(t, SuccessTurns)
          PROVE  t = LastTurn(SuccessTurns)
      <4>1. /\ t \in turns /\ LastTurn(SuccessTurns) \in turns
            /\ t.index <= LastTurn(SuccessTurns).index /\ LastTurn(SuccessTurns).index <= t.index
        BY <1>5, <3>5, <3>6 DEF IsLast
      <4>2. t.index \in Nat /\ LastTurn(SuccessTurns).index \in Nat
        BY <1>1, <4>1 DEF StoreTypeOK, TurnRow
      <4>3. t.index = LastTurn(SuccessTurns).index
        BY <4>1, <4>2
      <4>4. QED
        BY <4>1, <4>3 DEF TurnsInOrder
    <3>7. QED
      BY <1>5, <3>4, <3>6 DEF PersonaIsLatest, IsLast
  <2>4. QED
    BY <2>1, <2>2, <2>3
<1>7. QED
  BY <1>2, <1>3, <1>4, <1>6, SettlePersona

\* The steps of a job touch neither the pointer nor what the newest turn is.
LEMMA JobStepFollows ==
    ASSUME StoreTypeOK, PersonaInStep, NEW j \in jobs, JobStep(j), UNCHANGED <<req, rerolls>>
    PROVE  PersonaInStep'
<1>1. UNCHANGED session
  BY DEF JobStep, AbandonJob, StartCuration, GateCuration, CurateNothing, CurateMemory,
     PersistSummary, SkipSummary, UpsertMemory, EnforceCap, IndexRaises,
     MarkFolded, UnindexFolded, storeVars
<1>2. \E w : AppendMemoryOutcome(j.turn, w) \/ UNCHANGED turns
  BY DEF JobStep, AbandonJob, StartCuration, GateCuration, CurateNothing, CurateMemory,
     PersistSummary, SkipSummary, UpsertMemory, EnforceCap, IndexRaises,
     MarkFolded, UnindexFolded, storeVars, Consolidate,
     EndJob
<1>3. SameTurns
  BY <1>2, DiagnosticsKeepTurns
<1>4. QED
  BY <1>1, <1>3, QuietPersona DEF SessionLive

LEMMA RequestStepFollows ==
    ASSUME TypeInv, TypeInv', TurnsInOrder, TurnsInOrder', OneClient, DeletedIsEmpty,
           PersonaInStep, NEW r \in Requests, RequestStep(r) \/ Disconnect(r)
    PROVE  PersonaInStep'
<1>1. req \in [Requests -> Request] /\ StoreTypeOK
  BY DEF TypeInv, TypeOK
<1>2. CASE ProviderError(r) \/ Disconnect(r) \/ ScheduleStreamed(r)
  <2>1. UNCHANGED <<session, turns, rerolls>>
    BY <1>2 DEF ProviderError, Disconnect, ScheduleStreamed, storeVars
  <2>2. /\ req[r].pc \in {"generating", "ready"} /\ req'[r].pc \in {"failed", "disconnected", "done"}
        /\ \A s \in Requests : s # r => req'[s] = req[s]
    BY <1>1, <1>2 DEF ProviderError, Disconnect, ScheduleStreamed, Request
  <2>3. SameTurns
    BY <1>1, <2>1, DiagnosticsKeepTurns
  <2>4. QED
    BY <2>1, <2>2, <2>3, QuietPersona DEF SessionLive
<1>3. ASSUME NEW o \in Outcomes, PersistTurn(r, o)  PROVE PersonaInStep'
  <2>1. CASE SessionLive
    BY <1>3, <2>1, PersistFollows
  <2>2. CASE ~SessionLive
    <3>1. UNCHANGED <<session, turns, rerolls>> /\ req[r].pc = "generating"
          /\ req' = [req EXCEPT ![r].pc = StoreErrorPc(o), ![r].outcome = o]
      BY <1>3, <2>2 DEF PersistTurn
    <3>2. /\ req'[r].pc \in {"failed", "done"}
          /\ \A s \in Requests : s # r => req'[s] = req[s]
      BY <1>1, <3>1 DEF Request, StoreErrorPc
    <3>3. SameTurns
      BY <1>1, <3>1, DiagnosticsKeepTurns
    <3>4. QED
      BY <3>1, <3>2, <3>3, QuietPersona DEF SessionLive
  <2>3. QED
    BY <2>1, <2>2
<1>4. CASE CommitActivity(r)
  BY <1>4, CommitFollows
<1>5. CASE ReturnTurn(r)
  <2>1. UNCHANGED <<session, rerolls>> /\ UpdateTurnDiagnostics(req[r].turn)
    BY <1>5 DEF ReturnTurn
  <2>2. /\ req[r].pc = "diagnostics" /\ req'[r].pc \in {"done", "ready"}
        /\ \A s \in Requests : s # r => req'[s] = req[s]
    BY <1>1, <1>5 DEF ReturnTurn, Request
  <2>3. SameTurns
    BY <1>1, <2>1, DiagnosticsKeepTurns
  <2>4. QED
    BY <2>1, <2>2, <2>3, QuietPersona DEF SessionLive
<1>6. QED
  BY <1>2, <1>3, <1>4, <1>5 DEF RequestStep

LEMMA RerollStepFollows ==
    ASSUME TypeInv, TurnsInOrder, OneClient, DeletedIsEmpty, PersonaInStep,
           NEW d \in Rerolls, StartReroll(d) \/ RerollStep(d)
    PROVE  PersonaInStep'
<1>1. rerolls \in [Rerolls -> Reroll] /\ StoreTypeOK
  BY DEF TypeInv, TypeOK
<1>2. CASE DeleteLastTurn(d) /\ SessionLive /\ turns # {}
  BY <1>2, DeleteFollows
<1>3. CASE RestoreAfterDelete(d)
  BY <1>3, RestoreFollows
<1>4. CASE \/ StartReroll(d) \/ ResumeReroll(d) \/ SweepMemories(d) \/ UnindexSwept(d)
           \/ DeleteLastTurn(d) /\ ~(SessionLive /\ turns # {})
  <2>1. UNCHANGED <<session, turns, req>>
    BY <1>4 DEF StartReroll, ResumeReroll, SweepMemories, UnindexSwept, DeleteLastTurn, storeVars
  <2>2. /\ rerolls[d].pc # "restoring" /\ rerolls'[d].pc # "restoring"
        /\ \A e \in Rerolls : e # d => rerolls'[e] = rerolls[e]
    <3>1. CASE StartReroll(d)
      BY <1>1, <3>1 DEF StartReroll, Reroll
    <3>2. CASE ResumeReroll(d)
      BY <1>1, <3>2 DEF ResumeReroll, Reroll
    <3>3. CASE SweepMemories(d)
      BY <1>1, <3>3 DEF SweepMemories, Reroll
    <3>4. CASE DeleteLastTurn(d) /\ ~(SessionLive /\ turns # {})
      BY <1>1, <3>4 DEF DeleteLastTurn, Reroll
    <3>5. CASE UnindexSwept(d)
      BY <1>1, <3>5 DEF UnindexSwept, Reroll
    <3>6. QED
      BY <1>4, <3>1, <3>2, <3>3, <3>4, <3>5
  <2>3. SameTurns
    BY <1>1, <2>1, DiagnosticsKeepTurns
  <2>4. /\ session'.persona = session.persona /\ (SessionLive' <=> SessionLive) /\ req' = req
        /\ \A e \in Rerolls : rerolls'[e].pc = "restoring" => rerolls'[e] = rerolls[e]
        /\ \A e \in Rerolls : rerolls[e].pc = "restoring" => rerolls'[e] = rerolls[e]
    BY <2>1, <2>2 DEF SessionLive
  <2>5. QED
    BY <2>3, <2>4, QuietPersona
<1>5. QED
  BY <1>2, <1>3, <1>4 DEF RerollStep

LEMMA NextFollows ==
    ASSUME Sequential, MaxCrashes = 0, TypeInv, TypeInv', TurnsInOrder, TurnsInOrder',
           OneClient, DeletedIsEmpty, DeletedIsEmpty', PersonaInStep, [Next]_vars
    PROVE  PersonaInStep'
<1>1. StoreTypeOK /\ session \in SessionRow
  BY DEF TypeInv, TypeOK, StoreTypeOK
<1>2. CASE RunJob
  BY <1>1, <1>2, JobStepFollows DEF RunJob
<1>3. CASE (\E s \in Scenes : SwitchScene(s)) \/ PurgeVectors \/ UNCHANGED vars
  <2>1. UNCHANGED <<req, rerolls, turns>>
    BY <1>3 DEF SwitchScene, PurgeVectors, vars, storeVars
  <2>2. session'.persona = session.persona /\ (SessionLive' <=> SessionLive)
    BY <1>1, <1>3 DEF SwitchScene, UpdateActiveScene, PurgeVectors, vars, storeVars,
       SessionLive, SessionRow
  <2>3. SameTurns
    BY <1>1, <2>1, DiagnosticsKeepTurns
  <2>4. QED
    BY <2>1, <2>2, <2>3, QuietPersona
<1>4. CASE DeleteSession
  <2>1. ~SessionLive'
    BY <1>1, <1>4 DEF DeleteSession, DeleteSessionRow, SessionLive, SessionRow
  <2>2. SuccessTurns' = {}
    BY <1>4 DEF DeleteSession, DeleteSessionRow, SuccessTurns
  <2>3. QED
    BY <2>1, <2>2 DEF PersonaInStep, PersonaIsLatest
<1>5. CASE Crash
  BY <1>5 DEF Crash, TypeInv, TypeOK
<1>6. QED
  BY <1>2, <1>3, <1>4, <1>5, SubmitFollows, RequestStepFollows, RerollStepFollows DEF Next

LEMMA InitFollows ==
    ASSUME Init
    PROVE  OneClient /\ DeletedIsEmpty /\ PersonaInStep
<1>1. /\ turns = {} /\ SessionLive
      /\ \A r \in Requests : req[r].pc = "new"
      /\ \A d \in Rerolls : rerolls[d].pc = "new"
  BY DEF Init, StoreInit, SessionLive
<1>2. PersonaIsLatest
  BY <1>1 DEF PersonaIsLatest, SuccessTurns
<1>3. QED
  BY <1>1, <1>2 DEF OneClient, RequestAsks, RerollAsks, DeletedIsEmpty, PersonaInStep

\* With one client and no crash, the active persona is between requests always
\* the newest successful turn's, through overrides, failed turns and rerolls
\* (run_turn's commit, restore_persona_after_turn_delete). Each hypothesis is
\* needed: a second client's turn commits after a newer one, and a crash between
\* the row and its commit leaves the pointer behind.
THEOREM PersonaFollows ==
    ASSUME Sequential, MaxCrashes = 0
    PROVE  Spec => []PersonaFollowsHistory
<1> DEFINE I == TypeInv /\ TurnsInOrder /\ OneClient /\ DeletedIsEmpty /\ PersonaInStep
<1>1. Init => I
  BY InitTypes, InitFollows DEF Init, StoreInit, TurnsInOrder
<1>2. I /\ [Next]_vars => I'
  BY NextTypes, NextInOrder, NextOneClient, NextDeleted, NextFollows
<1>3. I => PersonaFollowsHistory
  <2>1. SUFFICES ASSUME I, ~InFlight, SuccessTurns # {}
                 PROVE  session.persona = LastTurn(SuccessTurns).persona
    BY DEF PersonaFollowsHistory
  <2>2. PersonaIsLatest
    BY <2>1, SettledPersona DEF InFlight, RequestEnded, RerollEnded
  <2>3. SuccessTurns \in SUBSET turns /\ StoreTypeOK /\ RowsBounded
    BY <2>1 DEF SuccessTurns, TypeInv, TypeOK
  <2>4. /\ LastTurn(SuccessTurns) \in SuccessTurns
        /\ \A u \in SuccessTurns : u.index <= LastTurn(SuccessTurns).index
    BY <2>1, <2>3, LastOfTurns
  <2>5. QED
    BY <2>2, <2>4 DEF PersonaIsLatest, IsLast
<1>4. QED
  BY <1>1, <1>2, <1>3, PTL DEF Spec

=============================================================================
