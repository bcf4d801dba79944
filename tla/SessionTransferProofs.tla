------------------------ MODULE SessionTransferProofs ------------------------
(***************************************************************************)
(* Proofs about SessionTransfer, for every set of session ids, any number  *)
(* of turns, commands and failures, any floor and any cap.                 *)
(*                                                                         *)
(* The first lemmas say what each step writes, field by field (Wrote); the  *)
(* invariants then argue over those.                                       *)
(***************************************************************************)
EXTENDS SessionTransfer, SequenceTheorems, TLAPS

SessionOf(status, turns, memories) ==
    [status |-> status, turns |-> turns, memories |-> memories]

\* the whole effect of a step on the SQLite file, as one record or by its fields
Put(i, status, turns, memories) ==
    db' = [db EXCEPT ![i] = SessionOf(status, turns, memories)]

Wrote(i, status, turns, memories) ==
    /\ db' \in [Ids -> Session]
    /\ db'[i].status = status
    /\ db'[i].turns = turns
    /\ db'[i].memories = memories
    /\ \A k \in Ids : k # i => db'[k] = db[k]

-----------------------------------------------------------------------------
(* What each step writes *)

\* What any step leaves in the counters of commands and failures, and what it lets
\* the observations be.
LEMMA BookTyped ==
    ASSUME TypeOK,
           StartCommand \/ Fail \/ Beside \/ UNCHANGED <<spent, calm, alone>>
    PROVE  spent' \in [commands : Nat, failures : Nat] /\ {calm', alone'} \subseteq BOOLEAN
  <1>1. /\ spent.commands \in Nat /\ spent.failures \in Nat
        /\ spent \in [commands : Nat, failures : Nat]
    BY DEF TypeOK
  <1>2. CASE StartCommand
    <2>1. spent' \in [commands : Nat, failures : Nat]
      BY <1>1, <1>2 DEF StartCommand
    <2>2. {calm', alone'} \subseteq BOOLEAN
      BY <1>2 DEF StartCommand, TypeOK
    <2> QED BY <2>1, <2>2
  <1>3. CASE Fail
    <2>1. spent' \in [commands : Nat, failures : Nat]
      BY <1>1, <1>3 DEF Fail
    <2> QED BY <1>3, <2>1 DEF Fail
  <1>4. CASE UNCHANGED <<spent, calm, alone>>
    BY <1>4 DEF TypeOK
  <1>5. CASE Beside
    BY <1>5, <1>1 DEF Beside, StillCalm, TypeOK
  <1> QED BY <1>2, <1>3, <1>4, <1>5

\* The fields of the running command.
LEMMA ToolFields ==
    ASSUME TypeOK
    PROVE  /\ tool \in Tool
           /\ tool.step \in Steps /\ tool.id \in Ids /\ tool.turns \in Seq(TurnRow)
           /\ tool.memories \in SUBSET MemoryRow /\ tool.ids \in SUBSET Ids
           /\ tool.since \in Nat
  BY DEF TypeOK, Tool

\* An absent session and a new one are sessions.
LEMMA AbsentTyped == Absent \in Session /\ Created \in Session
  <1>1. <<>> \in Seq(TurnRow)
    BY EmptySeq
  <1> QED
    BY <1>1 DEF Absent, Created, Session

\* An idle tool is a tool.
LEMMA IdleTyped == TransferAssumption => Idle \in Tool
  <1>1. <<>> \in Seq(TurnRow)
    BY EmptySeq
  <1> QED
    BY <1>1 DEF TransferAssumption, Idle, Tool, Steps

\* The fields of a stored session.
LEMMA SessionFields ==
    ASSUME TypeOK, NEW i \in Ids
    PROVE  /\ db[i] \in Session
           /\ db[i].status \in {"none", "active"}
           /\ db[i].turns \in Seq(TurnRow)
           /\ db[i].memories \in SUBSET MemoryRow
  BY DEF TypeOK, Session

\* A write of one typed session gives its fields, and touches no other.
LEMMA SessionPut ==
    ASSUME TypeOK, NEW i \in Ids, NEW status \in {"none", "active"},
           NEW turns \in Seq(TurnRow), NEW memories \in SUBSET MemoryRow,
           Put(i, status, turns, memories)
    PROVE  Wrote(i, status, turns, memories)
  <1>1. SessionOf(status, turns, memories) \in Session
    BY DEF SessionOf, Session
  <1>2. db' \in [Ids -> Session] /\ db'[i] = SessionOf(status, turns, memories)
    BY <1>1 DEF TypeOK, Put
  <1>3. \A k \in Ids : k # i => db'[k] = db[k]
    BY DEF TypeOK, Put
  <1> QED
    BY <1>2, <1>3 DEF SessionOf, Wrote

\* Updates of a session, spelled out as records.
LEMMA SessionUpdates ==
    ASSUME NEW s \in Session, NEW x, NEW y
    PROVE  /\ [s EXCEPT !.turns = x] = SessionOf(s.status, x, s.memories)
           /\ [s EXCEPT !.memories = x] = SessionOf(s.status, s.turns, x)
           /\ [s EXCEPT !.status = x] = SessionOf(x, s.turns, s.memories)
           /\ [[s EXCEPT !.turns = x] EXCEPT !.memories = y] = SessionOf(s.status, x, y)
  <1>1. s = SessionOf(s.status, s.turns, s.memories)
    BY DEF Session, SessionOf
  <1>2. [s EXCEPT !.turns = x] = SessionOf(s.status, x, s.memories)
    BY DEF Session, SessionOf
  <1>3. [s EXCEPT !.memories = x] = SessionOf(s.status, s.turns, x)
    BY DEF Session, SessionOf
  <1>4. [s EXCEPT !.status = x] = SessionOf(x, s.turns, s.memories)
    BY DEF Session, SessionOf
  <1>5. [[s EXCEPT !.turns = x] EXCEPT !.memories = y] = SessionOf(s.status, x, y)
    <2>1. [SessionOf(s.status, x, s.memories) EXCEPT !.memories = y]
            = SessionOf(s.status, x, y)
      BY DEF SessionOf
    <2> QED
      BY <1>2, <2>1, Zenon
  <1> QED
    BY <1>2, <1>3, <1>4, <1>5

\* What playing a turn writes.
LEMMA PlayedRow ==
    ASSUME TypeOK, NEW i \in Ids, NEW outcome \in Outcomes, PlayTurn(i, outcome)
    PROVE  LET r == [text |-> played + 1, outcome |-> outcome, created |-> clock + 1]
           IN  /\ r \in TurnRow
               /\ Wrote(i, "active", Append(db[i].turns, r), db[i].memories)
  <1> DEFINE r == [text |-> played + 1, outcome |-> outcome, created |-> clock + 1]
  <1>1. r \in TurnRow
    BY DEF TurnRow, TypeOK
  <1>2. db[i] \in Session /\ db[i].status = "active"
    BY DEF TypeOK, PlayTurn
  <1>3. db' = [db EXCEPT ![i] = [db[i] EXCEPT !.turns = Append(db[i].turns, r)]]
    BY DEF PlayTurn
  <1>4. [db[i] EXCEPT !.turns = Append(db[i].turns, r)]
          = SessionOf("active", Append(db[i].turns, r), db[i].memories)
    <2> DEFINE new == Append(db[i].turns, r)
    <2> HIDE DEF new
    <2>1. [db[i] EXCEPT !.turns = new] = SessionOf(db[i].status, new, db[i].memories)
      BY <1>2, SessionUpdates
    <2> QED
      BY <1>2, <2>1 DEF new
  <1>5. Append(db[i].turns, r) \in Seq(TurnRow)
    <2>1. db[i].turns \in Seq(TurnRow)
      BY SessionFields
    <2> HIDE DEF r
    <2> QED
      BY <1>1, <2>1, AppendProperties
  <1> DEFINE turns == Append(db[i].turns, r)
  <1>6. Put(i, "active", turns, db[i].memories)
    BY <1>3, <1>4 DEF Put
  <1> HIDE DEF turns
  <1>7. Wrote(i, "active", turns, db[i].memories)
    BY <1>5, <1>6, SessionFields, SessionPut DEF turns
  <1> QED
    BY <1>1, <1>7 DEF turns

\* What a curated memory writes, in the store and in its job.
LEMMA CuratedRow ==
    ASSUME TypeOK, NEW j \in jobs, NEW importance \in Importances,
           CurateMemory(j, importance)
    PROVE  LET row == [text |-> j.text, importance |-> importance,
                       created |-> clock + 1, source |-> j.source]
               k == [session |-> j.session, source |-> j.source, text |-> j.text,
                     row |-> {row}]
           IN  /\ row \in MemoryRow /\ k \in Job
               /\ jobs' = (jobs \ {j}) \cup {k}
               /\ Wrote(j.session, "active", db[j.session].turns,
                        db[j.session].memories \cup {row})
  <1> DEFINE s == db[j.session]
             row == [text |-> j.text, importance |-> importance,
                     created |-> clock + 1, source |-> j.source]
             k == [session |-> j.session, source |-> j.source, text |-> j.text, row |-> {row}]
  <1>1. j \in Job
    BY DEF TypeOK
  <1>2. row \in MemoryRow
    BY <1>1 DEF MemoryRow, TypeOK, Job
  <1>3. k \in Job
    BY <1>1, <1>2 DEF Job
  <1>4. s \in Session /\ s.status = "active"
    BY <1>1 DEF TypeOK, CurateMemory, Job
  <1>5. db' = [db EXCEPT ![j.session] = [s EXCEPT !.memories = s.memories \cup {row}]]
    BY DEF CurateMemory
  <1> HIDE DEF s, row
  <1>6. [s EXCEPT !.memories = s.memories \cup {row}]
          = SessionOf("active", s.turns, s.memories \cup {row})
    <2> DEFINE memories == s.memories \cup {row}
    <2> HIDE DEF memories
    <2>1. [s EXCEPT !.memories = memories] = SessionOf(s.status, s.turns, memories)
      BY <1>4, SessionUpdates
    <2> QED
      BY <1>4, <2>1 DEF memories
  <1>7. [j EXCEPT !.row = {row}] = k
    BY <1>1 DEF Job
  <1> USE DEF s, row
  <1>8. jobs' = (jobs \ {j}) \cup {k}
    BY <1>7 DEF CurateMemory
  <1> DEFINE memories == s.memories \cup {row}
  <1> HIDE DEF row
  <1>9. Put(j.session, "active", s.turns, memories)
    BY <1>5, <1>6 DEF Put
  <1>10. memories \in SUBSET MemoryRow /\ s.turns \in Seq(TurnRow) /\ j.session \in Ids
    BY <1>1, <1>2, SessionFields DEF Job
  <1> HIDE DEF memories, s
  <1>11. Wrote(j.session, "active", s.turns, memories)
    BY <1>9, <1>10, SessionPut
  <1> QED
    BY <1>2, <1>3, <1>8, <1>11 DEF memories, s, row

\* What a reroll leaves.
LEMMA RerolledSession ==
    ASSUME TypeOK, NEW i \in Ids, Reroll(i)
    PROVE  LET swept == {m \in db[i].memories : m.created >= Last(db[i].turns).created}
           IN  /\ Wrote(i, db[i].status, Front(db[i].turns), db[i].memories \ swept)
               /\ points' = points \ UNION {PointsIn(c, i, swept) : c \in Collections}
  <1> DEFINE s == db[i]
             swept == {m \in s.memories : m.created >= Last(s.turns).created}
  <1>1. s \in Session /\ s.turns \in Seq(TurnRow) /\ s.turns # <<>>
    BY SessionFields DEF Reroll
  <1>2. Front(s.turns) \in Seq(TurnRow)
    BY <1>1 DEF Front
  <1>3. db' = [db EXCEPT ![i] = [[s EXCEPT !.turns = Front(s.turns)]
                                    EXCEPT !.memories = s.memories \ swept]]
    BY DEF Reroll
  <1>6. points' = points \ UNION {PointsIn(c, i, swept) : c \in Collections}
    BY DEF Reroll
  <1> HIDE DEF s, swept
  <1>4. [[s EXCEPT !.turns = Front(s.turns)] EXCEPT !.memories = s.memories \ swept]
          = SessionOf(s.status, Front(s.turns), s.memories \ swept)
    BY <1>1, SessionUpdates DEF SessionOf
  <1>5. db' = [db EXCEPT ![i] = SessionOf(s.status, Front(s.turns), s.memories \ swept)]
    BY <1>3, <1>4
  <1> DEFINE turns == Front(s.turns)
             memories == s.memories \ swept
  <1>7. Put(i, s.status, turns, memories)
    BY <1>5 DEF Put
  <1>8. memories \in SUBSET MemoryRow /\ s.status \in {"none", "active"}
    BY SessionFields DEF s, swept
  <1> HIDE DEF turns, memories
  <1>9. Wrote(i, s.status, turns, memories)
    BY <1>2, <1>7, <1>8, SessionPut DEF turns
  <1> QED
    BY <1>6, <1>9 DEF turns, memories, s, swept

\* What the first commit of an import writes.
LEMMA ImportStarted ==
    ASSUME TypeOK, NEW i \in Ids, StartImport(i)
    PROVE  Wrote(i, "active", db[i].turns, db[i].memories)
  <1>1. db[i] \in Session
    BY DEF TypeOK
  <1>2. db' = [db EXCEPT ![i] = [db[i] EXCEPT !.status = "active"]]
    BY DEF StartImport
  <1> QED
    BY <1>1, <1>2, SessionUpdates, SessionFields, SessionPut DEF Put

\* What the import of one turn writes.
LEMMA TurnImported ==
    ASSUME TypeOK, ImportTurn
    PROVE  LET s == db[tool.id]
               r == [text |-> Head(tool.turns).text, outcome |-> "success",
                     created |-> clock + 1]
           IN  /\ r \in TurnRow
               /\ Head(tool.turns) \in TurnRow
               /\ Tail(tool.turns) \in Seq(TurnRow)
               /\ Wrote(tool.id, s.status, Append(s.turns, r), s.memories)
  <1> DEFINE s == db[tool.id]
             r == [text |-> Head(tool.turns).text, outcome |-> "success",
                   created |-> clock + 1]
  <1>1. /\ tool.id \in Ids /\ clock \in Nat
        /\ tool.turns \in Seq(TurnRow) /\ tool.turns # <<>>
    BY ToolFields DEF ImportTurn, TypeOK
  <1>2. Head(tool.turns) \in TurnRow /\ Tail(tool.turns) \in Seq(TurnRow)
    BY <1>1
  <1>3. Imported(Head(tool.turns)) = r /\ r \in TurnRow
    BY <1>1, <1>2 DEF Imported, TurnRow, Outcomes
  <1>4. s \in Session
    BY <1>1 DEF TypeOK
  <1>5. db' = [db EXCEPT ![tool.id] = [s EXCEPT !.turns = Append(s.turns, r)]]
    BY <1>3 DEF ImportTurn
  <1>6. Append(s.turns, r) \in Seq(TurnRow)
    BY <1>1, <1>3, SessionFields, AppendProperties
  <1> HIDE DEF r
  <1>7. [s EXCEPT !.turns = Append(s.turns, r)]
          = SessionOf(s.status, Append(s.turns, r), s.memories)
    BY <1>4, SessionUpdates
  <1> DEFINE turns == Append(s.turns, r)
  <1>8. Put(tool.id, s.status, turns, s.memories)
    BY <1>5, <1>7 DEF Put
  <1>9. s.status \in {"none", "active"} /\ s.memories \in SUBSET MemoryRow
    BY <1>1, SessionFields
  <1> HIDE DEF turns, s
  <1>10. Wrote(tool.id, s.status, turns, s.memories)
    BY <1>1, <1>6, <1>8, <1>9, SessionPut DEF turns
  <1> QED
    BY <1>2, <1>3, <1>10 DEF turns, s, r

\* What the last commit of an import writes.
LEMMA MemoriesImported ==
    ASSUME TypeOK, ImportMemories
    PROVE  LET s == db[tool.id]
               rows == ImportedRows(tool.memories)
           IN  /\ rows \in SUBSET MemoryRow
               /\ Wrote(tool.id, s.status, s.turns, s.memories \cup rows)
  <1> DEFINE s == db[tool.id]
             rows == ImportedRows(tool.memories)
  <1>1. tool.id \in Ids /\ tool.memories \in SUBSET MemoryRow /\ clock \in Nat
    BY ToolFields DEF TypeOK
  <1>2. rows \in SUBSET MemoryRow
    BY <1>1 DEF ImportedRows, MemoryRow
  <1>3. s \in Session
    BY <1>1 DEF TypeOK
  <1>4. db' = [db EXCEPT ![tool.id] = [s EXCEPT !.memories = s.memories \cup rows]]
    BY DEF ImportMemories
  <1>5. [s EXCEPT !.memories = s.memories \cup rows]
          = SessionOf(s.status, s.turns, s.memories \cup rows)
    BY <1>3, SessionUpdates
  <1> HIDE DEF rows
  <1> DEFINE memories == s.memories \cup rows
  <1>6. Put(tool.id, s.status, s.turns, memories)
    BY <1>4, <1>5 DEF Put
  <1>7. /\ memories \in SUBSET MemoryRow
        /\ s.status \in {"none", "active"} /\ s.turns \in Seq(TurnRow)
    BY <1>1, <1>2, SessionFields
  <1> HIDE DEF memories, s
  <1>8. Wrote(tool.id, s.status, s.turns, memories)
    BY <1>1, <1>6, <1>7, SessionPut
  <1> QED
    BY <1>2, <1>8 DEF memories, s, rows

-----------------------------------------------------------------------------
(* Types *)

\* The initial state is typed.
LEMMA InitTyped == TransferAssumption /\ Init => TypeOK
  <1> SUFFICES ASSUME TransferAssumption, Init PROVE TypeOK
    OBVIOUS
  <1>1. db \in [Ids -> Session] /\ backup \in [Ids -> Session]
    BY AbsentTyped DEF Init
  <1>2. tool \in Tool
    BY IdleTyped DEF Init
  <1>3. file \in Envelope
    <2>1. <<>> \in Seq(TurnRow)
      BY EmptySeq
    <2> QED
      BY <2>1 DEF Init, Envelope, TransferAssumption
  <1>4. spent \in [commands : Nat, failures : Nat]
    BY DEF Init
  <1> QED
    BY <1>1, <1>2, <1>3, <1>4 DEF Init, TypeOK

\* The points of typed rows are points.
LEMMA PointsTyped ==
    ASSUME NEW c \in Collections, NEW i \in Ids, NEW rows \in SUBSET MemoryRow
    PROVE  PointsIn(c, i, rows) \subseteq Point
  BY DEF PointsIn, PointOf, Point, MemoryRow

\* Every step of the API keeps the types.
LEMMA ApiTyped ==
    ASSUME TransferAssumption, TypeOK, ApiStep
    PROVE  TypeOK'
  <1>0. Beside \/ Fail
    BY DEF ApiStep, CreateSession, PlayTurn, CurateNothing, CurateMemory, IndexMemory, MirrorStops,
       Reroll
  <1>b. spent' \in [commands : Nat, failures : Nat] /\ {calm', alone'} \subseteq BOOLEAN
    BY <1>0, BookTyped
  <1>1. ASSUME NEW i \in Ids, CreateSession(i) PROVE TypeOK'
    BY <1>1, <1>b, AbsentTyped DEF CreateSession, TypeOK
  <1>2. ASSUME NEW i \in Ids, NEW outcome \in Outcomes, PlayTurn(i, outcome) PROVE TypeOK'
    <2>2. db' \in [Ids -> Session]
      BY <1>2, PlayedRow DEF Wrote
    <2>4. jobs' \subseteq Job
      BY <1>2 DEF PlayTurn, Job, TypeOK
    <2> QED
      BY <1>2, <1>b, <2>2, <2>4 DEF PlayTurn, TypeOK
  <1>3. ASSUME NEW j \in jobs, CurateNothing(j) PROVE TypeOK'
    BY <1>3, <1>b DEF CurateNothing, TypeOK
  <1>4. ASSUME NEW j \in jobs, NEW importance \in Importances, CurateMemory(j, importance)
        PROVE TypeOK'
    <2>1. db' \in [Ids -> Session]
      BY <1>4, CuratedRow DEF Wrote
    <2>6. jobs' \subseteq Job
      BY <1>4, CuratedRow DEF TypeOK
    <2> QED
      BY <1>4, <1>b, <2>1, <2>6 DEF CurateMemory, TypeOK
  <1>5. ASSUME NEW j \in jobs, IndexMemory(j) \/ MirrorStops(j) PROVE TypeOK'
    <2> DEFINE eligible == {m \in j.row : m.importance >= IndexFloor}
    <2>1. /\ j.session \in Ids
          /\ eligible \in SUBSET MemoryRow /\ Lasting(eligible) \in SUBSET MemoryRow
      BY DEF TypeOK, Job, Lasting
    <2>2. PointsIn("session_memory", j.session, eligible) \subseteq Point
          /\ PointsIn("persona_memory", j.session, Lasting(eligible)) \subseteq Point
      BY <2>1, PointsTyped DEF Collections
    <2>3. points' \subseteq points \cup PointsIn("session_memory", j.session, eligible)
                          \cup PointsIn("persona_memory", j.session, Lasting(eligible))
      BY <1>5 DEF IndexMemory, IndexedByApi, MirrorStops, Upserted, Mirrored, Eligible
    <2>4. points' \subseteq Point
      BY <2>2, <2>3 DEF TypeOK
    <2> QED
      BY <1>5, <1>b, <2>4 DEF IndexMemory, MirrorStops, TypeOK
  <1>6. ASSUME NEW i \in Ids, Reroll(i) PROVE TypeOK'
    <2>1. points' \subseteq points /\ db' \in [Ids -> Session]
      BY <1>6, RerolledSession DEF Wrote
    <2> QED
      BY <1>6, <1>b, <2>1 DEF Reroll, TypeOK
  <1> QED
    BY <1>1, <1>2, <1>3, <1>4, <1>5, <1>6 DEF ApiStep

\* Every step of a command keeps the types.
LEMMA CommandTyped ==
    ASSUME TransferAssumption, TypeOK, Command
    PROVE  TypeOK'
  <1>a. <<>> \in Seq(TurnRow) /\ Idle \in Tool
    BY EmptySeq, IdleTyped
  <1>1. ASSUME Backup PROVE TypeOK'
    <2>1. spent' \in [commands : Nat, failures : Nat] /\ {calm', alone'} \subseteq BOOLEAN
      BY <1>1, BookTyped DEF Backup
    <2> QED
      BY <1>1, <2>1 DEF Backup, TakeBackup, TypeOK
  <1>2. ASSUME NEW i \in Ids,
               StartExport(i) \/ StartImport(i) \/ StartDelete(i) \/ StartReindex(i)
        PROVE  TypeOK'
    <2>1. spent' \in [commands : Nat, failures : Nat] /\ {calm', alone'} \subseteq BOOLEAN
      BY <1>2, BookTyped DEF StartExport, StartImport, StartDelete, StartReindex
    <2>2. CASE StartExport(i)
      <3>1. tool' \in Tool
        BY <1>a, <2>2 DEF StartExport, Tool, Steps, Idle
      <3> QED
        BY <2>1, <2>2, <3>1 DEF StartExport, TypeOK
    <2>3. CASE StartImport(i)
      <3>1. file.turns \in Seq(TurnRow) /\ file.memories \in SUBSET MemoryRow
        BY DEF TypeOK, Envelope
      <3>2. tool' \in Tool
        BY <1>a, <2>3, <3>1 DEF StartImport, Tool, Steps, Idle
      <3>4. db' \in [Ids -> Session]
        BY <2>3, ImportStarted DEF Wrote
      <3> QED
        BY <2>1, <2>3, <3>2, <3>4 DEF StartImport, TypeOK
    <2>4. CASE StartDelete(i)
      <3>1. tool' \in Tool
        BY <1>a, <2>4 DEF StartDelete, Tool, Steps, Idle, TypeOK
      <3> QED
        BY <2>1, <2>4, <3>1 DEF StartDelete, TakeBackup, TypeOK
    <2>5. CASE StartReindex(i)
      <3>1. tool' \in Tool
        BY <1>a, <2>5, SessionFields DEF StartReindex, Tool, Steps, Idle, TypeOK
      <3> QED
        BY <2>1, <2>5, <3>1 DEF StartReindex, TypeOK
    <2> QED
      BY <1>2, <2>2, <2>3, <2>4, <2>5
  <1>3. ASSUME ExportTurns PROVE TypeOK'
    <2>1. tool' \in Tool
      BY <1>3, ToolFields, SessionFields DEF ExportTurns, Tool, Steps
    <2> QED
      BY <1>3, <2>1, BookTyped DEF ExportTurns, Continue, TypeOK
  <1>4. ASSUME ExportMemories PROVE TypeOK'
    <2>1. file' \in Envelope
      BY <1>4, ToolFields, SessionFields DEF ExportMemories, Envelope
    <2> QED
      BY <1>4, <1>a, <2>1, BookTyped DEF ExportMemories, Continue, TypeOK
  <1>5. ASSUME ImportTurn PROVE TypeOK'
    <2>4. db' \in [Ids -> Session] /\ Tail(tool.turns) \in Seq(TurnRow)
      BY <1>5, TurnImported DEF Wrote
    <2>5. tool' \in Tool
      BY <1>5, <2>4, ToolFields DEF ImportTurn, Tool
    <2> QED
      BY <1>5, <2>4, <2>5, BookTyped DEF ImportTurn, Continue, TypeOK
  <1>6. ASSUME ImportMemories PROVE TypeOK'
    <2>4. db' \in [Ids -> Session]
      BY <1>6, MemoriesImported DEF Wrote
    <2> QED
      BY <1>6, <1>a, <2>4, BookTyped DEF ImportMemories, Continue, TypeOK
  <1>7. ASSUME StartReset PROVE TypeOK'
    <2>1. spent' \in [commands : Nat, failures : Nat] /\ {calm', alone'} \subseteq BOOLEAN
      BY <1>7, BookTyped DEF StartReset
    <2>2. tool' \in Tool
      BY <1>7, <1>a DEF StartReset, Tool, Steps, Idle, TypeOK, TransferAssumption
    <2> QED
      BY <1>7, <2>1, <2>2 DEF StartReset, TakeBackup, TypeOK
  <1>8. ASSUME ListSessions PROVE TypeOK'
    <2>1. tool' \in Tool
      BY <1>8, ToolFields DEF ListSessions, Tool, Steps
    <2> QED
      BY <1>8, <2>1, BookTyped DEF ListSessions, Continue, TypeOK
  <1>9. ASSUME DeleteRow \/ DeleteAllRows PROVE TypeOK'
    <2>1. db' \in [Ids -> Session]
      BY <1>9, AbsentTyped, SessionFields DEF DeleteRow, DeleteAllRows
    <2>2. tool' \in Tool
      BY <1>9, <1>a, ToolFields DEF DeleteRow, DeleteAllRows, Tool, Steps
    <2> QED
      BY <1>9, <2>1, <2>2, BookTyped DEF DeleteRow, DeleteAllRows, Continue, TypeOK
  <1>10. ASSUME NEW i \in Ids, NextPurge(i) PROVE tool' \in Tool
    BY <1>10, <1>a, ToolFields DEF NextPurge, Tool, Steps
  <1>11. ASSUME NEW i \in Ids, PurgeSession(i) PROVE TypeOK'
    <2>1. tool' \in Tool
      BY <1>11, ToolFields DEF PurgeSession, Tool, Steps
    <2> QED
      BY <1>11, <2>1, BookTyped DEF PurgeSession, WithoutSession, Continue, TypeOK
  <1>12. ASSUME PurgePersona PROVE TypeOK'
    <2>1. tool' \in Tool
      BY <1>10, <1>12, ToolFields DEF PurgePersona
    <2> QED
      BY <1>12, <2>1, BookTyped DEF PurgePersona, WithoutSession, Continue, TypeOK
  <1>13. ASSUME PurgeFails PROVE TypeOK'
    <2>1. tool' \in Tool
      BY <1>10, <1>13, ToolFields DEF PurgeFails
    <2>2. spent' \in [commands : Nat, failures : Nat] /\ {calm', alone'} \subseteq BOOLEAN
      BY <1>13, BookTyped DEF PurgeFails
    <2> QED
      BY <1>13, <2>1, <2>2 DEF PurgeFails, TypeOK
  <1>14. ASSUME ReindexSession PROVE TypeOK'
    <2>1. PointsIn("session_memory", tool.id, HeldRows) \subseteq Point
      BY ToolFields, PointsTyped DEF HeldRows, Collections
    <2>2. tool' \in Tool
      BY <1>14, ToolFields DEF ReindexSession, Tool, Steps
    <2> QED
      BY <1>14, <2>1, <2>2, BookTyped DEF ReindexSession, Continue, TypeOK
  <1>15. ASSUME ReindexPersona PROVE TypeOK'
    <2>1. Lasting(HeldRows) \in SUBSET MemoryRow
      BY ToolFields DEF HeldRows, Lasting
    <2>2. PointsIn("persona_memory", tool.id, Lasting(HeldRows)) \subseteq Point
      BY <2>1, ToolFields, PointsTyped DEF Collections
    <2> QED
      BY <1>15, <1>a, <2>2, BookTyped DEF ReindexPersona, Continue, TypeOK
  <1>16. ASSUME NEW all \in BOOLEAN, DropSessionMemory(all) PROVE TypeOK'
    <2>1. spent' \in [commands : Nat, failures : Nat] /\ {calm', alone'} \subseteq BOOLEAN
      BY <1>16, BookTyped DEF DropSessionMemory
    <2>2. tool' \in Tool
      BY <1>16, <1>a DEF DropSessionMemory, Tool, Steps, Idle, TransferAssumption
    <2> QED
      BY <1>16, <2>1, <2>2 DEF DropSessionMemory, TypeOK
  <1>17. ASSUME DropPersonaMemory PROVE TypeOK'
    <2>1. spent' \in [commands : Nat, failures : Nat] /\ {calm', alone'} \subseteq BOOLEAN
      BY <1>17, BookTyped DEF DropPersonaMemory, Continue
    <2> QED
      BY <1>17, <1>a, <2>1 DEF DropPersonaMemory, TypeOK
  <1>18. ASSUME KillCommand PROVE TypeOK'
    <2>1. spent' \in [commands : Nat, failures : Nat] /\ {calm', alone'} \subseteq BOOLEAN
      BY <1>18, BookTyped DEF KillCommand
    <2> QED
      BY <1>18, <1>a, <2>1 DEF KillCommand, TypeOK
  <1> QED
    BY <1>1, <1>2, <1>3, <1>4, <1>5, <1>6, <1>7, <1>8, <1>9, <1>11, <1>12, <1>13, <1>14,
       <1>15, <1>16, <1>17, <1>18 DEF Command

\* Every step keeps the types.
LEMMA TypeStep == TransferAssumption /\ TypeOK /\ [Next]_vars => TypeOK'
  <1>1. CASE UNCHANGED vars
    BY <1>1 DEF vars, TypeOK
  <1> QED
    BY <1>1, ApiTyped, CommandTyped DEF Next

\* Rows, points, held values and files keep their types under any order of
\* API steps, commands and kills (repositories.py, cli.py).
THEOREM TransferTypes == Spec => []TypeOK
  <1>1. TypeOK /\ [Next]_vars => TypeOK'
    BY TypeStep, TransferAssumption
  <1>2. Init => TypeOK
    BY InitTyped, TransferAssumption
  <1> QED
    BY <1>1, <1>2, PTL DEF Spec

-----------------------------------------------------------------------------
(* The safety backup *)

\* what a step writes is what was there, or is stamped with the next stamp
Stamped(i) ==
    /\ \A m \in db'[i].memories :
          m \in db[i].memories \/ (m.created = clock + 1 /\ clock' = clock + 1)
    /\ \A k \in DOMAIN db'[i].turns :
          \/ Contains(db[i].turns, db'[i].turns[k])
          \/ db'[i].turns[k].created = clock + 1 /\ clock' = clock + 1

\* A session whose rows are none or the old ones is stamped.
LEMMA KeptStamped ==
    ASSUME NEW i \in Ids, db'[i] = db[i] \/ db'[i] = Absent
    PROVE  Stamped(i)
  <1>1. CASE db'[i] = db[i]
    BY <1>1 DEF Stamped, Contains
  <1>2. CASE db'[i] = Absent
    <2>1. db'[i].memories = {} /\ db'[i].turns = <<>>
      BY <1>2 DEF Absent
    <2> QED
      BY <2>1 DEF Stamped
  <1> QED
    BY <1>1, <1>2

\* An appended row with the next stamp is stamped.
LEMMA AppendStamped ==
    ASSUME TypeOK, NEW i \in Ids, NEW r \in TurnRow, r.created = clock + 1,
           clock' = clock + 1, db'[i].turns = Append(db[i].turns, r),
           db'[i].memories = db[i].memories
    PROVE  Stamped(i)
  <1>1. db[i].turns \in Seq(TurnRow)
    BY SessionFields
  <1>2. \A k \in DOMAIN db'[i].turns :
            \/ k \in DOMAIN db[i].turns /\ db'[i].turns[k] = db[i].turns[k]
            \/ db'[i].turns[k] = r
    BY <1>1, AppendProperties
  <1> QED
    BY <1>2 DEF Stamped, Contains

\* The commands that write to the SQLite file.
LEMMA CommandWrites ==
    ASSUME Command
    PROVE  \/ UNCHANGED db
           \/ \E i \in Ids : StartImport(i)
           \/ ImportTurn \/ ImportMemories \/ DeleteRow \/ DeleteAllRows
  BY DEF Command, Backup, StartExport, StartDelete, StartReindex, ExportTurns, ExportMemories,
     StartReset, ListSessions, PurgeSession, PurgePersona, PurgeFails, ReindexSession,
     ReindexPersona, DropSessionMemory, DropPersonaMemory, KillCommand

\* Every row a step adds carries the stamp it draws.
LEMMA NewRowsAreStamped ==
    ASSUME TypeOK, TransferAssumption, Next, NEW i \in Ids
    PROVE  Stamped(i)
  <1>0. CASE UNCHANGED db
    BY <1>0, KeptStamped
  <1>1. ASSUME NEW k \in Ids, CreateSession(k) PROVE Stamped(i)
    <2>1. CASE k = i
      <3>1. db'[i].memories = {} /\ db'[i].turns = <<>>
        BY <1>1, <2>1 DEF CreateSession, TypeOK, Created
      <3> QED
        BY <3>1 DEF Stamped
    <2>2. CASE k # i
      BY <1>1, <2>2, KeptStamped DEF CreateSession, TypeOK
    <2> QED
      BY <2>1, <2>2
  <1>2. ASSUME NEW k \in Ids, NEW outcome \in Outcomes, PlayTurn(k, outcome) PROVE Stamped(i)
    <2> DEFINE r == [text |-> played + 1, outcome |-> outcome, created |-> clock + 1]
    <2>1. r \in TurnRow /\ Wrote(k, "active", Append(db[k].turns, r), db[k].memories)
      BY <1>2, PlayedRow
    <2>2. r.created = clock + 1 /\ clock' = clock + 1
      BY <1>2 DEF PlayTurn
    <2> HIDE DEF r
    <2> QED
      BY <2>1, <2>2, AppendStamped, KeptStamped DEF Wrote
  <1>3. ASSUME NEW j \in jobs, NEW importance \in Importances, CurateMemory(j, importance)
        PROVE  Stamped(i)
    <2> DEFINE row == [text |-> j.text, importance |-> importance, created |-> clock + 1,
                       source |-> j.source]
    <2>1. Wrote(j.session, "active", db[j.session].turns, db[j.session].memories \cup {row})
      BY <1>3, CuratedRow
    <2>2. row.created = clock + 1 /\ clock' = clock + 1
      BY <1>3 DEF CurateMemory
    <2> HIDE DEF row
    <2>3. CASE i = j.session
      <3>1. db[i].turns \in Seq(TurnRow)
        BY SessionFields
      <3>2. /\ db'[i].turns = db[i].turns
            /\ db'[i].memories = db[i].memories \cup {row}
        BY <2>1, <2>3 DEF Wrote
      <3>3. \A k \in DOMAIN db[i].turns : Contains(db[i].turns, db[i].turns[k])
        BY <3>1 DEF Contains
      <3> QED
        BY <2>2, <3>2, <3>3 DEF Stamped
    <2>4. CASE i # j.session
      BY <2>1, <2>4, KeptStamped DEF Wrote
    <2> QED
      BY <2>3, <2>4
  <1>4. ASSUME NEW k \in Ids, Reroll(k) PROVE Stamped(i)
    <2> DEFINE swept == {m \in db[k].memories : m.created >= Last(db[k].turns).created}
               turns == Front(db[k].turns)
    <2>1. Wrote(k, db[k].status, turns, db[k].memories \ swept)
      BY <1>4, RerolledSession
    <2>2. db[k].turns \in Seq(TurnRow) /\ db[k].turns # <<>>
      BY <1>4, SessionFields DEF Reroll
    <2>3. \A n \in DOMAIN turns : n \in DOMAIN db[k].turns /\ turns[n] = db[k].turns[n]
      BY <2>2 DEF Front
    <2> HIDE DEF turns, swept
    <2>4. CASE i = k
      <3>1. db'[i].turns = turns /\ db'[i].memories = db[i].memories \ swept
        BY <2>1, <2>4 DEF Wrote
      <3>2. \A n \in DOMAIN turns : Contains(db[i].turns, turns[n])
        BY <2>3, <2>4 DEF Contains
      <3>3. \A m \in db'[i].memories : m \in db[i].memories
        BY <3>1
      <3> QED
        BY <3>1, <3>2, <3>3 DEF Stamped
    <2>5. CASE i # k
      BY <2>1, <2>5, KeptStamped DEF Wrote
    <2> QED
      BY <2>4, <2>5
  <1>5. ASSUME NEW k \in Ids, StartImport(k) PROVE Stamped(i)
    <2>1. Wrote(k, "active", db[k].turns, db[k].memories)
      BY <1>5, ImportStarted
    <2>2. CASE i = k
      <3>1. db'[i].turns = db[i].turns /\ db'[i].memories = db[i].memories
        BY <2>1, <2>2 DEF Wrote
      <3>2. \A n \in DOMAIN db[i].turns : Contains(db[i].turns, db[i].turns[n])
        BY DEF Contains
      <3> QED
        BY <3>1, <3>2 DEF Stamped
    <2>3. CASE i # k
      BY <2>1, <2>3, KeptStamped DEF Wrote
    <2> QED
      BY <2>2, <2>3
  <1>6. ASSUME ImportTurn PROVE Stamped(i)
    <2> DEFINE s == db[tool.id]
               r == [text |-> Head(tool.turns).text, outcome |-> "success",
                     created |-> clock + 1]
    <2>1. r \in TurnRow /\ Wrote(tool.id, s.status, Append(s.turns, r), s.memories)
      BY <1>6, TurnImported
    <2>2. r.created = clock + 1 /\ clock' = clock + 1 /\ tool.id \in Ids
      BY <1>6, ToolFields DEF ImportTurn
    <2> HIDE DEF r
    <2> QED
      BY <2>1, <2>2, AppendStamped, KeptStamped DEF Wrote
  <1>7. ASSUME ImportMemories PROVE Stamped(i)
    <2> DEFINE s == db[tool.id]
               rows == ImportedRows(tool.memories)
    <2>1. Wrote(tool.id, s.status, s.turns, s.memories \cup rows)
      BY <1>7, MemoriesImported
    <2>2. clock' = clock + 1 /\ \A m \in rows : m.created = clock + 1
      BY <1>7 DEF ImportMemories, ImportedRows
    <2> HIDE DEF rows
    <2>3. CASE i = tool.id
      <3>1. db[i].turns \in Seq(TurnRow)
        BY SessionFields
      <3>2. db'[i].turns = db[i].turns /\ db'[i].memories = db[i].memories \cup rows
        BY <2>1, <2>3 DEF Wrote
      <3>3. ASSUME NEW k \in DOMAIN db'[i].turns
            PROVE  Contains(db[i].turns, db'[i].turns[k])
        <4>1. k \in 1..Len(db[i].turns) /\ db'[i].turns[k] = db[i].turns[k]
          BY <3>1, <3>2, <3>3
        <4> QED
          BY <4>1 DEF Contains
      <3>4. ASSUME NEW m \in db'[i].memories
            PROVE  m \in db[i].memories \/ (m.created = clock + 1 /\ clock' = clock + 1)
        BY <2>2, <3>2, <3>4
      <3> QED
        BY <3>3, <3>4 DEF Stamped
    <2>4. CASE i # tool.id
      BY <2>1, <2>4, KeptStamped DEF Wrote
    <2> QED
      BY <2>3, <2>4
  <1>8. ASSUME DeleteRow \/ DeleteAllRows PROVE Stamped(i)
    BY <1>8, KeptStamped DEF DeleteRow, DeleteAllRows
  <1>9. ASSUME ApiStep PROVE Stamped(i)
    <2>1. ASSUME NEW j \in jobs, CurateNothing(j) \/ IndexMemory(j) \/ MirrorStops(j) PROVE UNCHANGED db
      BY <2>1 DEF CurateNothing, IndexMemory, MirrorStops
    <2> QED
      BY <1>0, <1>1, <1>2, <1>3, <1>4, <1>9, <2>1 DEF ApiStep
  <1>10. ASSUME Command PROVE Stamped(i)
    BY <1>0, <1>5, <1>6, <1>7, <1>8, <1>10, CommandWrites
  <1> QED
    BY <1>9, <1>10 DEF Next

\* no row is stamped ahead of the clock
PastRows(i) ==
    /\ \A m \in db[i].memories : m.created <= clock
    /\ \A k \in DOMAIN db[i].turns : db[i].turns[k].created <= clock

\* what a deletion is about to remove, and the backup must hold
Saved(i) ==
    /\ \A m \in db[i].memories : m.created <= tool.since => m \in backup[i].memories
    /\ \A k \in DOMAIN db[i].turns : db[i].turns[k].created <= tool.since
                                        => Contains(backup[i].turns, db[i].turns[k])

Deleting == {"delete_row", "reset_list", "reset_rows"}

BackedUp ==
    /\ \A i \in Ids : PastRows(i)
    /\ tool.step \in Deleting => tool.since <= clock /\ \A i \in Ids : Saved(i)

\* How the clock and the running command move.
LEMMA ClockMoves ==
    ASSUME TypeOK, Next
    PROVE  clock' \in {clock, clock + 1}
  BY DEF Next, ApiStep, CreateSession, PlayTurn, CurateNothing, CurateMemory, IndexMemory,
     MirrorStops, Reroll, Command, Backup, StartExport, StartImport, StartDelete, StartReindex, ExportTurns,
     ExportMemories, ImportTurn, ImportMemories, StartReset, ListSessions, DeleteRow,
     DeleteAllRows, PurgeSession, PurgePersona, PurgeFails, ReindexSession, ReindexPersona,
     DropSessionMemory, DropPersonaMemory, KillCommand

\* Which commands lead to which next step.
LEMMA CommandMoves ==
    ASSUME TypeOK, TransferAssumption, Command
    PROVE  /\ tool'.step \in Deleting =>
                StartReset \/ ListSessions \/ \E i \in Ids : StartDelete(i)
           /\ tool'.step = "import" => ImportTurn \/ \E i \in Ids : StartImport(i)
           /\ tool'.step = "reindex_session" => \E i \in Ids : StartReindex(i)
           /\ tool'.step = "reindex_persona" => ReindexSession
           /\ tool'.step = "purge_session" =>
                DeleteRow \/ DeleteAllRows \/ PurgePersona \/ PurgeFails
           /\ tool'.step = "purge_persona" => \E i \in Ids : PurgeSession(i)
  <1>1. CASE \/ Backup \/ ExportMemories \/ ImportMemories \/ ReindexPersona
             \/ DropPersonaMemory \/ KillCommand
    <2>1. tool'.step = "idle"
      BY <1>1 DEF Backup, StartCommand, ExportMemories, ImportMemories, ReindexPersona,
         DropPersonaMemory, KillCommand, Idle
    <2> QED
      BY <2>1 DEF Deleting
  <1>2. ASSUME NEW i \in Ids,
               StartExport(i) \/ StartImport(i) \/ StartDelete(i) \/ StartReindex(i)
        PROVE  \/ StartExport(i) /\ tool'.step = "export_turns"
               \/ StartImport(i) /\ tool'.step = "import"
               \/ StartDelete(i) /\ tool'.step = "delete_row"
               \/ StartReindex(i) /\ tool'.step = "reindex_session"
    BY <1>2 DEF StartExport, StartImport, StartDelete, StartReindex, Idle
  <1>3. CASE ExportTurns \/ ReindexSession \/ ListSessions \/ DeleteRow \/ ImportTurn
    <2>1. \/ ExportTurns /\ tool'.step = "export_memories"
          \/ ReindexSession /\ tool'.step = "reindex_persona"
          \/ ListSessions /\ tool'.step = "reset_rows"
          \/ DeleteRow /\ tool'.step = "purge_session"
          \/ ImportTurn /\ tool'.step = "import"
      <3>1. CASE ImportTurn
        BY <3>1, ToolFields DEF ImportTurn, Continue, Tool
      <3> QED
        BY <1>3, <3>1, ToolFields DEF ExportTurns, ReindexSession, ListSessions, DeleteRow,
           Tool
    <2> QED
      BY <2>1 DEF Deleting
  <1>4. CASE StartReset
    <2>1. tool'.step = "reset_list"
      BY <1>4 DEF StartReset, Idle
    <2> QED
      BY <1>4, <2>1
  <1>5. CASE DeleteAllRows
    <2>1. tool'.step \in {"idle", "purge_session"}
      BY <1>5, ToolFields DEF DeleteAllRows, Idle, Tool
    <2> QED
      BY <1>5, <2>1 DEF Deleting
  <1>6. CASE PurgePersona \/ PurgeFails
    <2>1. ASSUME NEW i \in Ids, NextPurge(i) PROVE tool'.step \in {"idle", "purge_session"}
      BY <2>1, ToolFields DEF NextPurge, Idle, Tool
    <2>2. tool'.step \in {"idle", "purge_session"}
      BY <1>6, <2>1, ToolFields DEF PurgePersona, PurgeFails
    <2> QED
      BY <1>6, <2>2 DEF Deleting
  <1>7. ASSUME NEW i \in Ids, PurgeSession(i) PROVE tool'.step = "purge_persona"
    BY <1>7, ToolFields DEF PurgeSession, Tool
  <1>8. ASSUME NEW all \in BOOLEAN, DropSessionMemory(all)
        PROVE  tool'.step \in {"idle", "drop_persona"}
    BY <1>8 DEF DropSessionMemory, Idle
  <1>9. CASE \E i \in Ids : StartExport(i) \/ StartImport(i) \/ StartDelete(i) \/ StartReindex(i)
    BY <1>2, <1>9 DEF Deleting
  <1>10. CASE (\E i \in Ids : PurgeSession(i)) \/ \E all \in BOOLEAN : DropSessionMemory(all)
    BY <1>7, <1>8, <1>10 DEF Deleting
  <1> QED
    BY <1>1, <1>3, <1>4, <1>5, <1>6, <1>9, <1>10 DEF Command

\* The API leaves the command alone, and ends its calm.
LEMMA ApiMoves ==
    ASSUME ApiStep
    PROVE  UNCHANGED <<tool, file, backup>> /\ ~alone' /\ (calm' => StillCalm)
  <1>1. UNCHANGED <<tool, file, backup>>
    BY DEF ApiStep, CreateSession, PlayTurn, CurateNothing, CurateMemory, IndexMemory, MirrorStops,
       Reroll
  <1>2. Beside \/ Fail
    BY DEF ApiStep, CreateSession, PlayTurn, CurateNothing, CurateMemory, IndexMemory, MirrorStops,
       Reroll
  <1> QED
    BY <1>1, <1>2 DEF Beside, Fail

\* A deletion starts from a backup of the database as it is, and then keeps it.
LEMMA DeletionMoves ==
    ASSUME TypeOK, TransferAssumption, Next, tool'.step \in Deleting
    PROVE  \/ tool.step \in Deleting /\ tool'.since = tool.since /\ backup' = backup
           \/ backup' = db /\ db' = db /\ tool'.since = clock
  <1>1. CASE ApiStep
    BY <1>1, ApiMoves
  <1>2. CASE ListSessions
    BY <1>2, ToolFields DEF ListSessions, Continue, Tool, Deleting
  <1>3. CASE StartReset \/ \E i \in Ids : StartDelete(i)
    BY <1>3 DEF StartReset, StartDelete, TakeBackup, Idle
  <1> QED
    BY <1>1, <1>2, <1>3, CommandMoves DEF Next

\* The rows of the database stay behind the clock, and the backup holds what is
\* about to go.
LEMMA BackedUpStep ==
    ASSUME TypeOK, TransferAssumption, BackedUp, [Next]_vars
    PROVE  BackedUp'
  <1>0. CASE UNCHANGED vars
    BY <1>0 DEF vars, BackedUp, PastRows, Saved
  <1>a. clock \in Nat
    BY DEF TypeOK
  <1>1. CASE Next
    <2>1. clock' \in {clock, clock + 1}
      BY <1>1, ClockMoves
    <2>2. ASSUME NEW i \in Ids PROVE PastRows(i)'
      <3>1. Stamped(i) /\ db[i].turns \in Seq(TurnRow) /\ db[i].memories \in SUBSET MemoryRow
        BY <1>1, NewRowsAreStamped, SessionFields
      <3>2. ASSUME NEW m \in db'[i].memories PROVE m.created <= clock'
        BY <1>a, <2>1, <3>1, <3>2 DEF Stamped, BackedUp, PastRows, MemoryRow
      <3>3. ASSUME NEW k \in DOMAIN db'[i].turns PROVE db'[i].turns[k].created <= clock'
        <4>1. CASE Contains(db[i].turns, db'[i].turns[k])
          <5>1. PICK n \in DOMAIN db[i].turns : db[i].turns[n] = db'[i].turns[k]
            BY <3>1, <4>1 DEF Contains
          <5>2. db[i].turns[n].created <= clock /\ db[i].turns[n] \in TurnRow
            BY <3>1 DEF BackedUp, PastRows
          <5> QED
            BY <1>a, <2>1, <5>1, <5>2 DEF TurnRow
        <4> QED
          BY <1>a, <3>1, <4>1 DEF Stamped
      <3> QED
        BY <3>2, <3>3 DEF PastRows
    <2>3. ASSUME tool'.step \in Deleting, NEW i \in Ids PROVE Saved(i)'
      <3>1. /\ Stamped(i) /\ db[i].turns \in Seq(TurnRow)
            /\ tool.since \in Nat
        BY <1>1, NewRowsAreStamped, SessionFields, ToolFields
      <3>2. CASE tool.step \in Deleting /\ tool'.since = tool.since /\ backup' = backup
        <4>1. Saved(i) /\ tool.since <= clock
          BY <3>2 DEF BackedUp
        <4>2. ASSUME NEW m \in db'[i].memories, m.created <= tool'.since
              PROVE  m \in backup'[i].memories
          BY <1>a, <3>1, <3>2, <4>1, <4>2 DEF Stamped, Saved
        <4>3. ASSUME NEW k \in DOMAIN db'[i].turns, db'[i].turns[k].created <= tool'.since
              PROVE  Contains(backup'[i].turns, db'[i].turns[k])
          <5>1. Contains(db[i].turns, db'[i].turns[k])
            BY <1>a, <3>1, <3>2, <4>1, <4>3 DEF Stamped
          <5>2. PICK n \in DOMAIN db[i].turns : db[i].turns[n] = db'[i].turns[k]
            BY <3>1, <5>1 DEF Contains
          <5> QED
            BY <3>2, <4>1, <4>3, <5>2 DEF Saved
        <4> QED
          BY <4>2, <4>3 DEF Saved
      <3>3. CASE backup' = db /\ db' = db /\ tool'.since = clock
        <4>1. db'[i] = db[i] /\ backup'[i] = db[i]
          BY <3>3
        <4>2. \A k \in DOMAIN db[i].turns : Contains(db[i].turns, db[i].turns[k])
          BY <3>1 DEF Contains
        <4> QED
          BY <4>1, <4>2 DEF Saved
      <3> QED
        BY <1>1, <2>3, <3>2, <3>3, DeletionMoves
    <2>4. ASSUME tool'.step \in Deleting PROVE tool'.since <= clock'
      <3>1. tool'.since \in {tool.since, clock}
            /\ (tool.step \in Deleting \/ tool'.since = clock)
        BY <1>1, <2>4, DeletionMoves
      <3> QED
        BY <1>a, <2>1, <3>1, ToolFields DEF BackedUp
    <2> QED
      BY <2>2, <2>3, <2>4 DEF BackedUp
  <1> QED
    BY <1>0, <1>1

\* Only a deletion takes a session away.
LEMMA OnlyDeletionsRemove ==
    ASSUME TypeOK, TransferAssumption, Next, NEW i \in Ids,
           db[i].status = "active", db'[i].status = "none"
    PROVE  tool.step \in Deleting
  <1>0. db' # db
    OBVIOUS
  <1>1. CASE ApiStep
    <2>1. ASSUME NEW k \in Ids, CreateSession(k) PROVE FALSE
      BY <2>1 DEF CreateSession, TypeOK, Created
    <2>3. ASSUME NEW k \in Ids, NEW outcome \in Outcomes, PlayTurn(k, outcome) PROVE FALSE
      BY <2>3, PlayedRow DEF Wrote
    <2>4. ASSUME NEW j \in jobs, NEW importance \in Importances, CurateMemory(j, importance)
          PROVE  FALSE
      BY <2>4, CuratedRow DEF Wrote
    <2>5. ASSUME NEW k \in Ids, Reroll(k) PROVE FALSE
      BY <2>5, RerolledSession DEF Wrote
    <2>6. ASSUME NEW j \in jobs, CurateNothing(j) \/ IndexMemory(j) \/ MirrorStops(j) PROVE FALSE
      BY <1>0, <2>6 DEF CurateNothing, IndexMemory, MirrorStops
    <2> QED
      BY <1>1, <2>1, <2>3, <2>4, <2>5, <2>6 DEF ApiStep
  <1>2. CASE Command
    <2>1. CASE DeleteRow \/ DeleteAllRows
      BY <2>1 DEF DeleteRow, DeleteAllRows, Continue, Deleting
    <2>2. ASSUME NEW k \in Ids, StartImport(k) PROVE FALSE
      BY <2>2, ImportStarted DEF Wrote
    <2>3. ASSUME ImportTurn PROVE FALSE
      BY <2>3, TurnImported DEF Wrote
    <2>4. ASSUME ImportMemories PROVE FALSE
      BY <2>4, MemoriesImported DEF Wrote
    <2> QED
      BY <1>0, <1>2, <2>1, <2>2, <2>3, <2>4, CommandWrites
  <1> QED
    BY <1>1, <1>2 DEF Next

\* What delete-session and reset-db remove is in the safety backup, except what
\* the API wrote since: for any number of sessions, whatever runs in between.
THEOREM DeletionsAreBackedUp == Spec => SafetyNet
  <1> DEFINE Kept(i) ==
        db[i].status = "active" /\ db'[i].status = "none" =>
          /\ \A m \in db[i].memories : m.created <= tool.since => m \in backup[i].memories
          /\ \A k \in DOMAIN db[i].turns : db[i].turns[k].created <= tool.since
                                              => Contains(backup[i].turns, db[i].turns[k])
  <1>1. Init => TypeOK /\ BackedUp
    <2> SUFFICES ASSUME Init PROVE TypeOK /\ BackedUp
      OBVIOUS
    <2>1. \A i \in Ids : db[i].memories = {} /\ db[i].turns = <<>>
      BY DEF Init, Created, Absent
    <2>2. tool.step = "idle"
      BY DEF Init, Idle
    <2> QED
      BY <2>1, <2>2, InitTyped, TransferAssumption DEF BackedUp, PastRows, Deleting
  <1>2. TypeOK /\ BackedUp /\ [Next]_vars => (TypeOK /\ BackedUp)'
    BY TypeStep, BackedUpStep, TransferAssumption
  <1>3. TypeOK /\ BackedUp /\ [Next]_vars => [\A i \in Ids : Kept(i)]_vars
    <2> SUFFICES ASSUME TypeOK, BackedUp, Next, NEW i \in Ids,
                        db[i].status = "active", db'[i].status = "none"
                 PROVE  Saved(i)
      BY DEF Saved
    <2> QED
      BY OnlyDeletionsRemove, TransferAssumption DEF BackedUp
  <1> QED
    BY <1>1, <1>2, <1>3, PTL DEF Spec, SafetyNet

-----------------------------------------------------------------------------
(* Reindex and import *)

\* a reindex that runs alone holds what is stored, and has done its first half
Reindexing ==
    alone /\ tool.step \in {"reindex_session", "reindex_persona"} =>
        /\ tool.memories = db[tool.id].memories
        /\ tool.step = "reindex_persona" =>
              PointsIn("session_memory", tool.id, tool.memories) \subseteq points

\* Nothing changes under a reindex that runs alone.
LEMMA ReindexingStep ==
    ASSUME TypeOK, TransferAssumption, Reindexing, [Next]_vars
    PROVE  Reindexing'
  <1>1. CASE UNCHANGED vars
    BY <1>1 DEF vars, Reindexing
  <1>2. CASE ApiStep
    BY <1>2, ApiMoves DEF Reindexing
  <1>3. CASE Command
    <2> SUFFICES ASSUME alone', tool'.step \in {"reindex_session", "reindex_persona"}
                 PROVE  /\ tool'.memories = db'[tool'.id].memories
                        /\ tool'.step = "reindex_persona" =>
                              PointsIn("session_memory", tool'.id, tool'.memories)
                                \subseteq points'
      BY DEF Reindexing, PointsIn, PointOf
    <2>1. CASE \E i \in Ids : StartReindex(i)
      <3>1. PICK i \in Ids : StartReindex(i)
        BY <2>1
      <3>2. /\ tool'.step = "reindex_session" /\ tool'.id = i
            /\ tool'.memories = db[i].memories /\ db' = db
        BY <3>1 DEF StartReindex, Idle
      <3> QED
        BY <3>2
    <2>2. CASE ReindexSession
      <3>1. alone /\ tool.step = "reindex_session" /\ db' = db
        BY <2>2 DEF ReindexSession, Continue
      <3>2. tool'.id = tool.id /\ tool'.memories = tool.memories
        BY <2>2, ToolFields DEF ReindexSession, Tool
      <3>3. PointsIn("session_memory", tool.id, tool.memories) \subseteq points'
        BY <2>2 DEF ReindexSession, HeldRows
      <3> QED
        BY <3>1, <3>2, <3>3 DEF Reindexing
    <2> QED
      BY <1>3, <2>1, <2>2, CommandMoves
  <1> QED
    BY <1>1, <1>2, <1>3 DEF Next

\* reindex-memories that runs alone makes every stored memory findable again,
\* the lasting ones in both collections, for any number of memories.
THEOREM ReindexRecoversAll == Spec => ReindexRecovers
  <1> DEFINE Recovered ==
        ReindexPersona /\ alone =>
          LET rows == {m \in db[tool.id].memories : m.importance >= IndexFloor}
          IN PointsIn("session_memory", tool.id, rows)
             \cup PointsIn("persona_memory", tool.id, Lasting(rows)) \subseteq points'
  <1>1. Init => TypeOK /\ Reindexing
    BY InitTyped, TransferAssumption DEF Init, Idle, Reindexing
  <1>2. TypeOK /\ Reindexing /\ [Next]_vars => (TypeOK /\ Reindexing)'
    BY TypeStep, ReindexingStep, TransferAssumption
  <1>3. TypeOK /\ Reindexing /\ [Next]_vars => [Recovered]_vars
    <2> DEFINE rows == {m \in db[tool.id].memories : m.importance >= IndexFloor}
    <2> SUFFICES ASSUME TypeOK, Reindexing, ReindexPersona, alone
                 PROVE  PointsIn("session_memory", tool.id, rows)
                        \cup PointsIn("persona_memory", tool.id, Lasting(rows)) \subseteq points'
      OBVIOUS
    <2>1. /\ tool.memories = db[tool.id].memories
          /\ PointsIn("session_memory", tool.id, tool.memories) \subseteq points
      BY DEF ReindexPersona, Continue, Reindexing
    <2>2. points' = points \cup PointsIn("persona_memory", tool.id, Lasting(tool.memories))
      BY DEF ReindexPersona, HeldRows
    <2>3. rows \subseteq tool.memories /\ Lasting(rows) \subseteq Lasting(tool.memories)
      BY <2>1 DEF Lasting
    <2> HIDE DEF rows
    <2> QED
      BY <2>1, <2>2, <2>3 DEF PointsIn
  <1> QED
    BY <1>1, <1>2, <1>3, PTL DEF Spec, ReindexRecovers

\* a session that is gone has no rows; an import has its session
Held ==
    /\ \A i \in Ids : db[i].status = "none" => db[i].turns = <<>> /\ db[i].memories = {}
    /\ tool.step = "import" => db[tool.id].status = "active"

\* An import is entered by its first commit, and stays on its session.
LEMMA ImportMoves ==
    ASSUME TypeOK, TransferAssumption, Next, tool'.step = "import"
    PROVE  \/ \E i \in Ids : /\ StartImport(i) /\ tool'.id = i
                             /\ tool'.turns = file.turns /\ tool'.memories = file.memories
           \/ ImportTurn /\ tool'.id = tool.id /\ tool'.turns = Tail(tool.turns)
                /\ tool'.memories = tool.memories
           \/ ApiStep /\ tool' = tool
  <1>1. CASE ApiStep
    BY <1>1, ApiMoves
  <1>2. CASE ImportTurn
    BY <1>2, ToolFields DEF ImportTurn, Tool
  <1>3. ASSUME NEW i \in Ids, StartImport(i)
        PROVE  tool'.id = i /\ tool'.turns = file.turns /\ tool'.memories = file.memories
    BY <1>3 DEF StartImport, Idle
  <1> QED
    BY <1>1, <1>2, <1>3, CommandMoves DEF Next

\* No step leaves rows to a session that is gone, or an import without one.
LEMMA HeldStep ==
    ASSUME TypeOK, TransferAssumption, Held, [Next]_vars
    PROVE  Held'
  <1>0. CASE UNCHANGED vars
    BY <1>0 DEF vars, Held
  <1>1. CASE Next
    <2>0. TypeOK'
      BY <1>1, TypeStep
    <2>1. ASSUME NEW i \in Ids, db'[i].status = "none"
          PROVE  db'[i].turns = <<>> /\ db'[i].memories = {}
      <3>0. CASE UNCHANGED db
        BY <2>1, <3>0 DEF Held
      <3>1. ASSUME NEW k \in Ids, CreateSession(k) PROVE db'[i] = db[i]
        BY <2>1, <3>1 DEF CreateSession, TypeOK, Created
      <3>2. ASSUME NEW k \in Ids, NEW outcome \in Outcomes, PlayTurn(k, outcome)
            PROVE  db'[i] = db[i]
        BY <2>1, <3>2, PlayedRow DEF Wrote
      <3>3. ASSUME NEW j \in jobs, NEW importance \in Importances, CurateMemory(j, importance)
            PROVE  db'[i] = db[i]
        BY <2>1, <3>3, CuratedRow DEF Wrote
      <3>4. ASSUME NEW k \in Ids, Reroll(k) PROVE db'[i] = db[i]
        <4>1. db[k].status = "active"
          BY <3>4, SessionFields DEF Reroll, Held
        <4> QED
          BY <2>1, <3>4, <4>1, RerolledSession DEF Wrote
      <3>5. ASSUME NEW k \in Ids, StartImport(k) PROVE db'[i] = db[i]
        BY <2>1, <3>5, ImportStarted DEF Wrote
      <3>6. CASE ImportTurn
        <4>1. db[tool.id].status = "active"
          BY <3>6 DEF ImportTurn, Continue, Held
        <4>2. db'[i] = db[i]
          BY <2>1, <3>6, <4>1, TurnImported DEF Wrote
        <4> QED
          BY <2>1, <4>2 DEF Held
      <3>7. CASE ImportMemories
        <4>1. db[tool.id].status = "active"
          BY <3>7 DEF ImportMemories, Continue, Held
        <4>2. db'[i] = db[i]
          BY <2>1, <3>7, <4>1, MemoriesImported DEF Wrote
        <4> QED
          BY <2>1, <4>2 DEF Held
      <3>8. CASE DeleteRow \/ DeleteAllRows
        <4>1. db'[i] = db[i] \/ db'[i] = Absent
          BY <3>8 DEF DeleteRow, DeleteAllRows
        <4> QED
          BY <2>1, <4>1 DEF Held, Absent
      <3>9. CASE ApiStep
        <4>1. ASSUME NEW j \in jobs, CurateNothing(j) \/ IndexMemory(j) \/ MirrorStops(j) PROVE UNCHANGED db
          BY <4>1 DEF CurateNothing, IndexMemory, MirrorStops
        <4>2. db'[i] = db[i]
          BY <3>1, <3>2, <3>3, <3>4, <3>9, <4>1 DEF ApiStep
        <4> QED
          BY <2>1, <4>2 DEF Held
      <3>10. CASE \E k \in Ids : StartImport(k)
        BY <2>1, <3>5, <3>10 DEF Held
      <3> QED
        BY <1>1, <3>0, <3>6, <3>7, <3>8, <3>9, <3>10, CommandWrites DEF Next
    <2>2. ASSUME tool'.step = "import" PROVE db'[tool'.id].status = "active"
      <3>1. ASSUME NEW i \in Ids, StartImport(i) PROVE db'[i].status = "active"
        BY <3>1, ImportStarted DEF Wrote
      <3>2. ASSUME tool.step = "import", tool'.id = tool.id
            PROVE  db'[tool'.id].status = "active"
        <4>1. tool.id \in Ids /\ db[tool.id].status = "active"
          BY <3>2, ToolFields DEF Held
        <4>2. tool.step \notin Deleting
          BY <3>2 DEF Deleting
        <4>3. db'[tool.id].status \in {"none", "active"}
          BY <2>0, <4>1 DEF TypeOK, Session
        <4> QED
          BY <1>1, <3>2, <4>1, <4>2, <4>3, OnlyDeletionsRemove
      <3> QED
        BY <1>1, <2>2, <3>1, <3>2, ImportMoves DEF ImportTurn, Continue
    <2> QED
      BY <2>1, <2>2 DEF Held
  <1> QED
    BY <1>0, <1>1

\* An import that runs alone: what the session has and what is still held make
\* up the file, in its order.
Importing ==
    alone /\ tool.step = "import" =>
        /\ Len(db[tool.id].turns) + Len(tool.turns) = Len(file.turns)
        /\ \A k \in 1..Len(db[tool.id].turns) : db[tool.id].turns[k].text = file.turns[k].text
        /\ \A k \in 1..Len(tool.turns) :
              tool.turns[k].text = file.turns[Len(db[tool.id].turns) + k].text
        /\ db[tool.id].memories = {}
        /\ tool.memories = file.memories

\* One turn moves from what is held to what is stored.
LEMMA OneTurnImported ==
    ASSUME NEW stored \in Seq(TurnRow), NEW left \in Seq(TurnRow), NEW whole \in Seq(TurnRow),
           left # <<>>, NEW r \in TurnRow, r.text = Head(left).text,
           Len(stored) + Len(left) = Len(whole),
           \A k \in 1..Len(stored) : stored[k].text = whole[k].text,
           \A k \in 1..Len(left) : left[k].text = whole[Len(stored) + k].text
    PROVE  /\ Len(Append(stored, r)) + Len(Tail(left)) = Len(whole)
           /\ \A k \in 1..Len(Append(stored, r)) : Append(stored, r)[k].text = whole[k].text
           /\ \A k \in 1..Len(Tail(left)) :
                 Tail(left)[k].text = whole[Len(Append(stored, r)) + k].text
  <1>0. Len(left) \in Nat /\ Len(left) > 0 /\ Len(stored) \in Nat /\ Head(left) = left[1]
    BY EmptySeq
  <1>1. Len(Append(stored, r)) = Len(stored) + 1 /\ Len(Tail(left)) = Len(left) - 1
    BY <1>0
  <1>2. ASSUME NEW k \in 1..Len(Append(stored, r))
        PROVE  Append(stored, r)[k].text = whole[k].text
    <2>1. CASE k <= Len(stored)
      BY <1>0, <1>1, <2>1
    <2>2. CASE k = Len(stored) + 1
      <3>1. Append(stored, r)[k] = r
        BY <1>0, <2>2
      <3>2. left[1].text = whole[Len(stored) + 1].text
        BY <1>0
      <3> QED
        BY <1>0, <2>2, <3>1, <3>2
    <2>3. k \in Nat /\ k <= Len(stored) + 1
      BY <1>0, <1>1
    <2> QED
      BY <1>0, <2>1, <2>2, <2>3
  <1>3. ASSUME NEW k \in 1..Len(Tail(left))
        PROVE  Tail(left)[k].text = whole[Len(Append(stored, r)) + k].text
    <2>1. Tail(left)[k] = left[k + 1] /\ k + 1 \in 1..Len(left)
      BY <1>0, <1>1
    <2>2. left[k + 1].text = whole[Len(stored) + (k + 1)].text
      BY <2>1
    <2>3. Len(stored) + (k + 1) = Len(Append(stored, r)) + k
      BY <1>0, <1>1
    <2> QED
      BY <2>1, <2>2, <2>3
  <1>4. Len(Append(stored, r)) + Len(Tail(left)) = Len(whole)
    BY <1>0, <1>1
  <1> QED
    BY <1>2, <1>3, <1>4, Zenon

\* Every commit of an import that runs alone keeps the file in one piece.
LEMMA ImportingStep ==
    ASSUME TypeOK, TransferAssumption, Held, Importing, [Next]_vars
    PROVE  Importing'
  <1>0. CASE UNCHANGED vars
    BY <1>0 DEF vars, Importing
  <1>1. CASE Next
    <2> SUFFICES ASSUME alone', tool'.step = "import"
                 PROVE  /\ Len(db'[tool'.id].turns) + Len(tool'.turns) = Len(file'.turns)
                        /\ \A k \in 1..Len(db'[tool'.id].turns) :
                              db'[tool'.id].turns[k].text = file'.turns[k].text
                        /\ \A k \in 1..Len(tool'.turns) : tool'.turns[k].text
                              = file'.turns[Len(db'[tool'.id].turns) + k].text
                        /\ db'[tool'.id].memories = {}
                        /\ tool'.memories = file'.memories
      BY DEF Importing
    <2>1. CASE ApiStep /\ tool' = tool
      BY <2>1, ApiMoves
    <2>2. ASSUME NEW i \in Ids, StartImport(i), tool'.id = i, tool'.turns = file.turns,
                 tool'.memories = file.memories
          PROVE  /\ Len(db'[i].turns) + Len(tool'.turns) = Len(file'.turns)
                 /\ \A k \in 1..Len(db'[i].turns) : db'[i].turns[k].text = file'.turns[k].text
                 /\ \A k \in 1..Len(tool'.turns) : tool'.turns[k].text
                       = file'.turns[Len(db'[i].turns) + k].text
                 /\ db'[i].memories = {}
                 /\ tool'.memories = file'.memories
      <3>1. db[i].turns = <<>> /\ db[i].memories = {}
        BY <2>2 DEF StartImport, MayCreate, Fresh, Held
      <3>2. db'[i].turns = <<>> /\ db'[i].memories = {}
        BY <2>2, <3>1, ImportStarted DEF Wrote
      <3>3. file' = file /\ file.turns \in Seq(TurnRow)
        BY <2>2 DEF StartImport, TypeOK, Envelope
      <3> QED
        BY <2>2, <3>2, <3>3
    <2>3. CASE ImportTurn /\ tool'.id = tool.id /\ tool'.turns = Tail(tool.turns)
                 /\ tool'.memories = tool.memories
      <3> DEFINE r == [text |-> Head(tool.turns).text, outcome |-> "success",
                       created |-> clock + 1]
                 stored == db[tool.id].turns
      <3>1. /\ r \in TurnRow
            /\ Wrote(tool.id, db[tool.id].status, Append(stored, r), db[tool.id].memories)
        BY <2>3, TurnImported
      <3>2. /\ alone /\ tool.step = "import" /\ tool.turns # <<>> /\ file' = file
        BY <2>3 DEF ImportTurn, Continue
      <3>3. stored \in Seq(TurnRow) /\ tool.turns \in Seq(TurnRow) /\ file.turns \in Seq(TurnRow)
        BY ToolFields, SessionFields DEF TypeOK, Envelope
      <3>4. r.text = Head(tool.turns).text
        OBVIOUS
      <3> HIDE DEF r
      <3>5. /\ Len(stored) + Len(tool.turns) = Len(file.turns)
            /\ \A k \in 1..Len(stored) : stored[k].text = file.turns[k].text
            /\ \A k \in 1..Len(tool.turns) :
                  tool.turns[k].text = file.turns[Len(stored) + k].text
            /\ db[tool.id].memories = {}
            /\ tool.memories = file.memories
        BY <3>2 DEF Importing
      <3>6. db'[tool.id].turns = Append(stored, r) /\ db'[tool.id].memories = {}
        BY <3>1, <3>5 DEF Wrote
      <3> DEFINE left == tool.turns
                 whole == file.turns
      <3>7. r \in TurnRow /\ r.text = Head(left).text /\ left # <<>>
        BY <3>1, <3>2, <3>4
      <3>8. /\ Len(stored) + Len(left) = Len(whole)
            /\ \A k \in 1..Len(stored) : stored[k].text = whole[k].text
            /\ \A k \in 1..Len(left) : left[k].text = whole[Len(stored) + k].text
        BY <3>5
      <3>9. stored \in Seq(TurnRow) /\ left \in Seq(TurnRow) /\ whole \in Seq(TurnRow)
        BY <3>3
      <3>10. /\ db'[tool'.id].turns = Append(stored, r) /\ db'[tool'.id].memories = {}
             /\ tool'.turns = Tail(left) /\ file'.turns = whole
             /\ tool'.memories = file'.memories
        BY <2>3, <3>2, <3>5, <3>6
      <3> HIDE DEF stored, left, whole
      <3>11. /\ Len(Append(stored, r)) + Len(Tail(left)) = Len(whole)
             /\ \A k \in 1..Len(Append(stored, r)) : Append(stored, r)[k].text = whole[k].text
             /\ \A k \in 1..Len(Tail(left)) :
                  Tail(left)[k].text = whole[Len(Append(stored, r)) + k].text
        BY <3>7, <3>8, <3>9, OneTurnImported
      <3> QED
        BY <3>10, <3>11
    <2> QED
      BY <1>1, <2>1, <2>2, <2>3, ImportMoves
  <1> QED
    BY <1>0, <1>1

\* An import that runs alone brings back every turn in order and every memory,
\* however long the session.
THEOREM ImportsAreComplete == Spec => ImportIsComplete
  <1> DEFINE Complete ==
        ImportMemories /\ alone =>
          /\ TurnTexts(db'[tool.id].turns) = TurnTexts(file.turns)
          /\ Texts(db'[tool.id].memories) = Texts(file.memories)
  <1>1. Init => TypeOK /\ Held /\ Importing
    <2> SUFFICES ASSUME Init PROVE TypeOK /\ Held /\ Importing
      OBVIOUS
    <2>1. \A i \in Ids : db[i].memories = {} /\ db[i].turns = <<>>
      BY DEF Init, Created, Absent
    <2>2. tool.step = "idle"
      BY DEF Init, Idle
    <2> QED
      BY <2>1, <2>2, InitTyped, TransferAssumption DEF Held, Importing
  <1>2. TypeOK /\ Held /\ Importing /\ [Next]_vars => (TypeOK /\ Held /\ Importing)'
    BY TypeStep, HeldStep, ImportingStep, TransferAssumption
  <1>3. TypeOK /\ Held /\ Importing /\ [Next]_vars => [Complete]_vars
    <2> SUFFICES ASSUME TypeOK, Importing, ImportMemories, alone
                 PROVE  /\ TurnTexts(db'[tool.id].turns) = TurnTexts(file.turns)
                        /\ Texts(db'[tool.id].memories) = Texts(file.memories)
      OBVIOUS
    <2> DEFINE stored == db[tool.id].turns
    <2>1. tool.step = "import" /\ tool.turns = <<>>
      BY DEF ImportMemories, Continue
    <2>2. /\ Len(stored) + Len(tool.turns) = Len(file.turns)
          /\ \A k \in 1..Len(stored) : stored[k].text = file.turns[k].text
          /\ db[tool.id].memories = {}
          /\ tool.memories = file.memories
      BY <2>1 DEF Importing
    <2>3. stored \in Seq(TurnRow) /\ file.turns \in Seq(TurnRow)
      BY ToolFields, SessionFields DEF TypeOK, Envelope
    <2>4. Len(stored) = Len(file.turns)
      BY <2>1, <2>2, <2>3
    <2>5. db'[tool.id].turns = stored /\ db'[tool.id].memories = ImportedRows(file.memories)
      BY <2>2, MemoriesImported DEF Wrote
    <2>6. TurnTexts(stored) = TurnTexts(file.turns)
      BY <2>2, <2>3, <2>4 DEF TurnTexts
    <2>7. Texts(ImportedRows(file.memories)) = Texts(file.memories)
      <3> DEFINE copy(m) == [text |-> m.text, importance |-> m.importance,
                             created |-> clock + 1, source |-> 0]
      <3>1. \A m : copy(m).text = m.text
        OBVIOUS
      <3>2. ImportedRows(file.memories) = {copy(m) : m \in file.memories}
        BY DEF ImportedRows
      <3> HIDE DEF copy
      <3> QED
        BY <3>1, <3>2 DEF Texts
    <2> QED
      BY <2>5, <2>6, <2>7
  <1> QED
    BY <1>1, <1>2, <1>3, PTL DEF Spec, ImportIsComplete

-----------------------------------------------------------------------------
(* Points and their sources *)

Backed(p) == \E m \in db[p.session].memories : p = PointOf(p.collection, p.session, m)

\* a point that a running purge has yet to reach
Doomed(p) ==
    /\ tool.step \in {"purge_session", "purge_persona"}
    /\ p.session \in tool.ids
    /\ tool.step = "purge_persona" /\ p.session = tool.id => p.collection = "persona_memory"

\* every point is backed, and every row about to be indexed is stored
AllBacked ==
    /\ \A p \in points : Backed(p)
    /\ \A j \in jobs : j.row \subseteq db[j.session].memories

Sourced ==
    calm =>
        /\ \A p \in points : Backed(p) \/ Doomed(p)
        /\ tool.step = "idle" => \A j \in jobs : j.row \subseteq db[j.session].memories
        /\ tool.step # "idle" => jobs = {} /\ alone
        /\ tool.step = "reset_rows" => tool.ids = {i \in Ids : db[i].status = "active"}

\* A point stays backed where no memory is taken away.
LEMMA BackedKept ==
    ASSUME NEW p, Backed(p), db[p.session].memories \subseteq db'[p.session].memories
    PROVE  Backed(p)'
  BY DEF Backed

\* Points of stored memories are backed.
LEMMA BackedNow ==
    ASSUME NEW c, NEW i, NEW rows, rows \subseteq db[i].memories, NEW p \in PointsIn(c, i, rows)
    PROVE  Backed(p)
  BY DEF Backed, PointsIn, PointOf

\* Between commands the API keeps every point backed, and every pending row stored.
LEMMA SourcedByApi ==
    ASSUME TypeOK, TransferAssumption, Held, Sourced, ApiStep, calm'
    PROVE  AllBacked'
  <1>0. calm /\ tool.step = "idle"
    BY ApiMoves DEF StillCalm
  <1>1. \A p \in points : Backed(p) /\ p \in Point
    BY <1>0 DEF Sourced, Doomed, TypeOK
  <1>2. \A j \in jobs : j.row \subseteq db[j.session].memories /\ j \in Job
    BY <1>0 DEF Sourced, TypeOK
  <1>3. ASSUME \A i \in Ids : db[i].memories \subseteq db'[i].memories,
               points' \subseteq points,
               \A j \in jobs' : j \in jobs \/ j.row \subseteq db'[j.session].memories
        PROVE  AllBacked'
    <2>1. ASSUME NEW p \in points' PROVE Backed(p)'
      BY <1>1, <1>3, <2>1, BackedKept DEF Point
    <2>2. ASSUME NEW j \in jobs' PROVE j.row \subseteq db'[j.session].memories
      BY <1>2, <1>3, <2>2 DEF Job
    <2> QED
      BY <2>1, <2>2 DEF AllBacked
  <1>4. ASSUME NEW i \in Ids, CreateSession(i)
        PROVE  \A k \in Ids : db[k].memories \subseteq db'[k].memories
    <2>1. db[i].memories = {}
      BY <1>4 DEF CreateSession, Fresh, Held
    <2> QED
      BY <1>4, <2>1 DEF CreateSession, TypeOK
  <1>5. CASE \E i \in Ids : CreateSession(i)
    <2>1. \A k \in Ids : db[k].memories \subseteq db'[k].memories
      BY <1>4, <1>5
    <2>2. points' = points /\ jobs' = jobs
      BY <1>5 DEF CreateSession
    <2> QED
      BY <1>3, <2>1, <2>2
  <1>6. ASSUME NEW i \in Ids, NEW outcome \in Outcomes, PlayTurn(i, outcome)
        PROVE  AllBacked'
    <2> DEFINE new == [session |-> i, source |-> clock', text |-> played', row |-> {}]
    <2>1. \A k \in Ids : db[k].memories \subseteq db'[k].memories
      BY <1>6, PlayedRow DEF Wrote
    <2>2. points' = points /\ jobs' \subseteq jobs \cup {new}
      BY <1>6 DEF PlayTurn
    <2>3. new \in Job /\ new.row = {}
      BY <1>6 DEF PlayTurn, Job, TypeOK
    <2> HIDE DEF new
    <2> QED
      BY <1>3, <2>1, <2>2, <2>3
  <1>7. ASSUME NEW j \in jobs, CurateNothing(j)
        PROVE  AllBacked'
    <2>1. points' = points /\ jobs' \subseteq jobs /\ db' = db
      BY <1>7 DEF CurateNothing
    <2> QED
      BY <1>3, <2>1
  <1>8. ASSUME NEW j \in jobs, NEW importance \in Importances, CurateMemory(j, importance)
        PROVE  AllBacked'
    <2> DEFINE row == [text |-> j.text, importance |-> importance, created |-> clock + 1,
                       source |-> j.source]
               new == [session |-> j.session, source |-> j.source, text |-> j.text,
                       row |-> {row}]
    <2>1. /\ new \in Job /\ jobs' = (jobs \ {j}) \cup {new}
          /\ Wrote(j.session, "active", db[j.session].turns, db[j.session].memories \cup {row})
      BY <1>8, CuratedRow
    <2>2. points' = points
      BY <1>8 DEF CurateMemory
    <2>3. new.session = j.session /\ new.row = {row}
      OBVIOUS
    <2> HIDE DEF row, new
    <2>4. \A k \in Ids : db[k].memories \subseteq db'[k].memories
      BY <2>1 DEF Wrote
    <2>5. new.row \subseteq db'[new.session].memories
      BY <2>1, <2>3 DEF Wrote
    <2> QED
      BY <1>3, <2>1, <2>2, <2>4, <2>5
  <1>9. ASSUME NEW j \in jobs, IndexMemory(j)
        PROVE  AllBacked'
    <2> DEFINE eligible == {m \in j.row : m.importance >= IndexFloor}
    <2>1. db' = db /\ jobs' \subseteq jobs
      BY <1>9 DEF IndexMemory
    <2>2. points' \subseteq points \cup PointsIn("session_memory", j.session, eligible)
                          \cup PointsIn("persona_memory", j.session, Lasting(eligible))
      BY <1>9 DEF IndexMemory, IndexedByApi, Upserted, Mirrored, Eligible
    <2>3. /\ eligible \subseteq db[j.session].memories
          /\ Lasting(eligible) \subseteq db[j.session].memories
      BY <1>2 DEF Lasting
    <2> HIDE DEF eligible
    <2>4. ASSUME NEW p \in points' PROVE Backed(p)'
      <3>1. Backed(p)
        BY <1>1, <2>2, <2>3, <2>4, BackedNow
      <3> QED
        BY <2>1, <3>1 DEF Backed
    <2> QED
      BY <1>2, <2>1, <2>4 DEF AllBacked
  <1>10. ASSUME NEW i \in Ids, Reroll(i)
         PROVE  AllBacked'
    <2> DEFINE swept == {m \in db[i].memories : m.created >= Last(db[i].turns).created}
    <2>1. /\ Wrote(i, db[i].status, Front(db[i].turns), db[i].memories \ swept)
          /\ points' = points \ UNION {PointsIn(c, i, swept) : c \in Collections}
      BY <1>10, RerolledSession
    <2>2. jobs' = {}
      BY <1>10 DEF Reroll
    <2> HIDE DEF swept
    <2>3. ASSUME NEW p \in points' PROVE Backed(p)'
      <3>1. p \in points /\ Backed(p) /\ p.session \in Ids /\ p.collection \in Collections
        BY <1>1, <2>1, <2>3 DEF Point
      <3>2. PICK m \in db[p.session].memories : p = PointOf(p.collection, p.session, m)
        BY <3>1 DEF Backed
      <3>3. CASE p.session = i
        <4>1. m \notin swept
          BY <2>1, <2>3, <3>1, <3>2, <3>3 DEF PointsIn
        <4> QED
          BY <2>1, <3>2, <3>3, <4>1 DEF Wrote, Backed
      <3>4. CASE p.session # i
        BY <2>1, <3>1, <3>2, <3>4 DEF Wrote, Backed
      <3> QED
        BY <3>3, <3>4
    <2> QED
      BY <2>2, <2>3 DEF AllBacked
  <1>11. \A j \in jobs : ~MirrorStops(j)
    BY DEF MirrorStops, Fail
  <1> QED
    BY <1>5, <1>6, <1>7, <1>8, <1>9, <1>10, <1>11 DEF ApiStep

\* A command that goes on in calm has met no API step and no pending job.
LEMMA CalmCommand ==
    ASSUME TypeOK, Sourced, Command, calm'
    PROVE  calm /\ jobs = {} /\ jobs' = {} /\ alone' /\ ~PurgeFails /\ ~KillCommand
  <1>1. ~PurgeFails /\ ~KillCommand
    BY DEF PurgeFails, KillCommand, Fail
  <1>2. jobs' = jobs
    BY DEF Command, Backup, StartExport, StartImport, StartDelete, StartReindex, ExportTurns,
       ExportMemories, ImportTurn, ImportMemories, StartReset, ListSessions, DeleteRow,
       DeleteAllRows, PurgeSession, PurgePersona, PurgeFails, ReindexSession, ReindexPersona,
       DropSessionMemory, DropPersonaMemory, KillCommand
  <1>3. StartCommand \/ (tool.step # "idle" /\ UNCHANGED <<calm, alone>>)
    BY <1>1 DEF Command, Backup, StartExport, StartImport, StartDelete, StartReindex,
       ExportTurns, ExportMemories, ImportTurn, ImportMemories, StartReset, ListSessions,
       DeleteRow, DeleteAllRows, PurgeSession, PurgePersona, ReindexSession, ReindexPersona,
       DropSessionMemory, DropPersonaMemory, Continue
  <1> QED
    BY <1>1, <1>2, <1>3 DEF StartCommand, Sourced

\* While a command works, a point is backed or its purge is still to come.
LEMMA PointsByCommand ==
    ASSUME TypeOK, TransferAssumption, Held, Reindexing, Sourced, Command, calm',
           NEW p \in points'
    PROVE  Backed(p)' \/ Doomed(p)'
  <1>0. calm /\ ~PurgeFails /\ ~KillCommand
    BY CalmCommand
  <1>1. ASSUME tool.step \notin {"purge_session", "purge_persona"}, p \in points
        PROVE  Backed(p) /\ p \in Point
    BY <1>0, <1>1 DEF Sourced, Doomed, TypeOK
  <1>2. CASE \/ Backup \/ ExportTurns \/ ExportMemories \/ StartReset \/ ListSessions
             \/ DropPersonaMemory \/ (\E all \in BOOLEAN : DropSessionMemory(all))
             \/ \E i \in Ids : StartExport(i) \/ StartDelete(i) \/ StartReindex(i)
    <2>1. tool.step \notin {"purge_session", "purge_persona"}
      BY <1>2 DEF Backup, ExportTurns, ExportMemories, StartReset, ListSessions,
         DropPersonaMemory, DropSessionMemory, StartExport, StartDelete, StartReindex,
         StartCommand, Continue
    <2>2. db' = db /\ points' \subseteq points
      BY <1>2 DEF Backup, ExportTurns, ExportMemories, StartReset, ListSessions,
         DropPersonaMemory, DropSessionMemory, StartExport, StartDelete, StartReindex
    <2> QED
      BY <1>1, <2>1, <2>2, BackedKept
  <1>3. ASSUME tool.step \notin {"purge_session", "purge_persona"}, points' = points,
               \A i \in Ids : db[i].memories \subseteq db'[i].memories
        PROVE  Backed(p)'
    BY <1>1, <1>3, BackedKept DEF Point
  <1>4. ASSUME NEW i \in Ids, StartImport(i) PROVE Backed(p)'
    <2>1. tool.step = "idle" /\ points' = points
      BY <1>4 DEF StartImport, StartCommand
    <2>2. \A k \in Ids : db[k].memories \subseteq db'[k].memories
      BY <1>4, ImportStarted DEF Wrote
    <2> QED
      BY <1>3, <2>1, <2>2
  <1>5. CASE ImportTurn
    <2>1. tool.step = "import" /\ points' = points
      BY <1>5 DEF ImportTurn, Continue
    <2>2. \A k \in Ids : db[k].memories \subseteq db'[k].memories
      BY <1>5, TurnImported DEF Wrote
    <2> QED
      BY <1>3, <2>1, <2>2
  <1>6. CASE ImportMemories
    <2>1. tool.step = "import" /\ points' = points
      BY <1>6 DEF ImportMemories, Continue
    <2>2. \A k \in Ids : db[k].memories \subseteq db'[k].memories
      BY <1>6, MemoriesImported DEF Wrote
    <2> QED
      BY <1>3, <2>1, <2>2
  <1>7. CASE ReindexSession \/ ReindexPersona
    <2>1. /\ tool.step \in {"reindex_session", "reindex_persona"} /\ db' = db
          /\ points' \subseteq points \cup PointsIn("session_memory", tool.id, tool.memories)
                \cup PointsIn("persona_memory", tool.id, Lasting(tool.memories))
      BY <1>7 DEF ReindexSession, ReindexPersona, Continue, HeldRows
    <2>2. /\ tool.memories \subseteq db[tool.id].memories
          /\ Lasting(tool.memories) \subseteq db[tool.id].memories
      BY <1>0, <2>1 DEF Sourced, Reindexing, Lasting
    <2>3. Backed(p)
      BY <1>1, <2>1, <2>2, BackedNow
    <2> QED
      BY <2>1, <2>3 DEF Backed
  <1>8. CASE DeleteRow
    <2>1. tool.step = "delete_row" /\ points' = points
      BY <1>8 DEF DeleteRow, Continue
    <2>2. Backed(p) /\ p.session \in Ids
      BY <1>1, <2>1 DEF Point
    <2>3. CASE p.session \in tool.ids
      <3>1. tool'.step = "purge_session" /\ tool'.ids = tool.ids
        BY <1>8, ToolFields DEF DeleteRow, Tool
      <3> QED
        BY <2>3, <3>1 DEF Doomed
    <2>4. CASE p.session \notin tool.ids
      <3>1. db'[p.session] = db[p.session]
        BY <1>8, <2>2, <2>4 DEF DeleteRow
      <3> QED
        BY <2>2, <3>1, BackedKept
    <2> QED
      BY <2>3, <2>4
  <1>9. CASE DeleteAllRows
    <2>1. tool.step = "reset_rows" /\ points' = points
      BY <1>9 DEF DeleteAllRows, Continue
    <2>2. Backed(p) /\ p.session \in Ids
      BY <1>1, <2>1 DEF Point
    <2>3. db[p.session].status = "active"
      BY <2>2, SessionFields DEF Backed, Held
    <2>4. p.session \in tool.ids
      BY <1>0, <2>1, <2>2, <2>3 DEF Sourced
    <2>5. tool'.step = "purge_session" /\ tool'.ids = tool.ids
      BY <1>9, <2>4, ToolFields DEF DeleteAllRows, Tool
    <2> QED
      BY <2>4, <2>5 DEF Doomed
  <1>10. ASSUME tool.step \in {"purge_session", "purge_persona"}, p \in points, db' = db
         PROVE  /\ p \in Point
                /\ Backed(p)' \/ Doomed(p)
    BY <1>0, <1>10 DEF Sourced, TypeOK, Backed
  <1>11. ASSUME NEW i \in Ids, PurgeSession(i) PROVE Backed(p)' \/ Doomed(p)'
    <2>1. /\ tool.step = "purge_session" /\ db' = db /\ p \in points
          /\ p.session = i => p.collection # "session_memory"
      BY <1>11 DEF PurgeSession, Continue, WithoutSession
    <2>2. tool'.step = "purge_persona" /\ tool'.id = i /\ tool'.ids = tool.ids
      BY <1>11, ToolFields DEF PurgeSession, Tool
    <2>3. p.collection \in Collections
      BY <1>10, <2>1 DEF Point
    <2> QED
      BY <1>10, <2>1, <2>2, <2>3 DEF Doomed, Collections
  <1>12. CASE PurgePersona
    <2>1. /\ tool.step = "purge_persona" /\ db' = db /\ p \in points /\ NextPurge(tool.id)
          /\ p.session = tool.id => p.collection # "persona_memory"
      BY <1>12 DEF PurgePersona, Continue, WithoutSession
    <2>2. CASE Doomed(p)
      <3>1. p.session \in tool.ids /\ p.session # tool.id
        BY <2>1, <2>2 DEF Doomed
      <3>2. tool'.step = "purge_session" /\ tool'.ids = tool.ids \ {tool.id}
        BY <2>1, <3>1, ToolFields DEF NextPurge, Tool
      <3> QED
        BY <3>1, <3>2 DEF Doomed
    <2> QED
      BY <1>10, <2>1, <2>2
  <1> QED
    BY <1>0, <1>2, <1>4, <1>5, <1>6, <1>7, <1>8, <1>9, <1>11, <1>12 DEF Command

\* Every step keeps the points sourced.
LEMMA SourcedStep ==
    ASSUME TypeOK, TransferAssumption, Held, Reindexing, Sourced, [Next]_vars
    PROVE  Sourced'
  <1>1. CASE UNCHANGED vars
    BY <1>1 DEF vars, Sourced, Backed, Doomed
  <1>2. CASE ApiStep
    <2>1. calm' => tool'.step = "idle"
      BY <1>2, ApiMoves DEF StillCalm
    <2> QED
      BY <1>2, <2>1, SourcedByApi DEF Sourced, AllBacked
  <1>3. CASE Command /\ calm'
    <2>1. jobs' = {} /\ alone'
      BY <1>3, CalmCommand
    <2>2. \A p \in points' : Backed(p)' \/ Doomed(p)'
      BY <1>3, PointsByCommand
    <2>3. ASSUME tool'.step = "reset_rows"
          PROVE  tool'.ids = {i \in Ids : db'[i].status = "active"}
      <3>1. CASE ListSessions
        <4>1. tool'.ids = {i \in Ids : db[i].status = "active"} /\ db' = db
          BY <3>1, ToolFields DEF ListSessions, Tool
        <4> QED
          BY <4>1
      <3>2. CASE StartReset \/ \E i \in Ids : StartDelete(i)
        <4>1. tool'.step # "reset_rows"
          BY <3>2 DEF StartReset, StartDelete, Idle
        <4> QED
          BY <2>3, <4>1
      <3> QED
        BY <1>3, <2>3, <3>1, <3>2, CommandMoves DEF Deleting
    <2> QED
      BY <2>1, <2>2, <2>3 DEF Sourced
  <1> QED
    BY <1>1, <1>2, <1>3 DEF Next, Sourced

\* Nothing in the index outlives its row: for any number of sessions, rerolls,
\* imports, deletions and rebuilds that take turns and do not fail.
THEOREM PointsHaveTheirSource == Spec => []NothingOutlivesItsSource
  <1> DEFINE Inv == TypeOK /\ Held /\ Reindexing /\ Sourced
  <1>1. Init => Inv
    <2> SUFFICES ASSUME Init PROVE Inv
      OBVIOUS
    <2>1. \A i \in Ids : db[i].memories = {} /\ db[i].turns = <<>>
      BY DEF Init, Created, Absent
    <2>2. tool.step = "idle" /\ points = {} /\ jobs = {}
      BY DEF Init, Idle
    <2> QED
      BY <2>1, <2>2, InitTyped, TransferAssumption DEF Held, Reindexing, Sourced
  <1>2. Inv /\ [Next]_vars => Inv'
    BY TypeStep, HeldStep, ReindexingStep, SourcedStep, TransferAssumption
  <1>3. Inv => NothingOutlivesItsSource
    BY DEF Sourced, Doomed, Backed, NothingOutlivesItsSource
  <1> QED
    BY <1>1, <1>2, <1>3, PTL DEF Spec

-----------------------------------------------------------------------------
(* Nothing is held twice *)

Spoken(turns) == {turns[k].text : k \in DOMAIN turns}

\* the texts of the jobs whose memory has not been written
Pending == {j.text : j \in {k \in jobs : k.row = {}}}

\* turns of one telling: each text once, and played by now
Told(turns, n) == IsInjective(TurnTexts(turns)) /\ Spoken(turns) \subseteq 0..n

\* memories of one telling: each text once, played by now, and not to come again
Known(rows, n, pending) ==
    /\ \A m, k \in rows : m.text = k.text => m = k
    /\ Texts(rows) \subseteq 0..n
    /\ Texts(rows) \cap pending = {}

Unique ==
    /\ \A i \in Ids : Told(db[i].turns, played) /\ Known(db[i].memories, played, Pending)
    /\ Told(tool.turns, played) /\ Known(tool.memories, played, Pending)
    /\ Told(file.turns, played) /\ Known(file.memories, played, Pending)
    /\ Pending \subseteq 0..played
    /\ \A j, k \in jobs : j.row = {} /\ k.row = {} /\ j.text = k.text => j = k
    /\ tool.step = "import" =>
          /\ Spoken(db[tool.id].turns) \cap Spoken(tool.turns) = {}
          /\ Texts(db[tool.id].memories) \cap Texts(tool.memories) = {}

\* Nothing told is always well told.
LEMMA EmptyTelling ==
    ASSUME NEW n \in Nat, NEW pending
    PROVE  Told(<<>>, n) /\ Known({}, n, pending)
  BY DEF Told, Known, TurnTexts, Spoken, Texts, IsInjective

\* A new text may be appended.
LEMMA ToldMore ==
    ASSUME NEW turns \in Seq(TurnRow), NEW n \in Nat, Told(turns, n),
           NEW r \in TurnRow, r.text \in 0..n, r.text \notin Spoken(turns)
    PROVE  /\ Told(Append(turns, r), n)
           /\ Spoken(Append(turns, r)) = Spoken(turns) \cup {r.text}
  <1> DEFINE more == Append(turns, r)
  <1>1. /\ Len(turns) \in Nat /\ DOMAIN turns = 1..Len(turns)
        /\ DOMAIN more = 1..(Len(turns) + 1)
        /\ \A k \in 1..Len(turns) : more[k] = turns[k]
        /\ more[Len(turns) + 1] = r
    BY AppendProperties
  <1> HIDE DEF more
  <1>2. \A k \in 1..Len(turns) : turns[k].text # r.text
    BY <1>1 DEF Spoken
  <1>3. \A a, b \in 1..Len(turns) : turns[a].text = turns[b].text => a = b
    BY <1>1 DEF Told, IsInjective, TurnTexts
  <1>4. \A a, b \in DOMAIN more : more[a].text = more[b].text => a = b
    BY <1>1, <1>2, <1>3
  <1>5. IsInjective(TurnTexts(more))
    BY <1>4 DEF IsInjective, TurnTexts
  <1>6. Spoken(more) = Spoken(turns) \cup {r.text}
    BY <1>1 DEF Spoken
  <1> QED
    BY <1>5, <1>6 DEF Told, more

\* The last turn may go.
LEMMA ToldLess ==
    ASSUME NEW turns \in Seq(TurnRow), turns # <<>>, NEW n \in Nat, Told(turns, n)
    PROVE  Told(Front(turns), n) /\ Spoken(Front(turns)) \subseteq Spoken(turns)
  <1>1. \A k \in DOMAIN Front(turns) : k \in DOMAIN turns /\ Front(turns)[k] = turns[k]
    BY DEF Front
  <1> QED
    BY <1>1 DEF Told, IsInjective, TurnTexts, Spoken

\* The first of what is held may go, and is not held again.
LEMMA ToldRest ==
    ASSUME NEW turns \in Seq(TurnRow), turns # <<>>, NEW n \in Nat, Told(turns, n)
    PROVE  /\ Told(Tail(turns), n)
           /\ Spoken(Tail(turns)) \subseteq Spoken(turns)
           /\ Head(turns).text \in Spoken(turns)
           /\ Head(turns).text \notin Spoken(Tail(turns))
  <1>0. 1 \in DOMAIN turns /\ Head(turns) = turns[1] /\ DOMAIN turns = 1..Len(turns)
    BY EmptySeq
  <1>1. \A k \in DOMAIN Tail(turns) :
            k \in Nat /\ k > 0 /\ k + 1 \in DOMAIN turns /\ Tail(turns)[k] = turns[k + 1]
    BY <1>0
  <1>2. \A a, b \in DOMAIN turns : turns[a].text = turns[b].text => a = b
    BY DEF Told, IsInjective, TurnTexts
  <1>3. \A a, b \in DOMAIN Tail(turns) : Tail(turns)[a].text = Tail(turns)[b].text => a = b
    BY <1>1, <1>2
  <1>4. IsInjective(TurnTexts(Tail(turns)))
    BY <1>3 DEF IsInjective, TurnTexts
  <1>5. Spoken(Tail(turns)) \subseteq Spoken(turns)
    BY <1>1 DEF Spoken
  <1>6. \A k \in DOMAIN Tail(turns) : Tail(turns)[k].text # turns[1].text
    BY <1>0, <1>1, <1>2
  <1> QED
    BY <1>0, <1>4, <1>5, <1>6 DEF Told, Spoken

\* Rows with other texts may be added.
LEMMA KnownMore ==
    ASSUME NEW rows, NEW others, NEW n, NEW pending,
           Known(rows, n, pending), Known(others, n, pending),
           Texts(rows) \cap Texts(others) = {}
    PROVE  Known(rows \cup others, n, pending)
  BY DEF Known, Texts

\* Rows may be taken away.
LEMMA KnownLess ==
    ASSUME NEW rows, NEW n, NEW pending, Known(rows, n, pending), NEW others \in SUBSET rows
    PROVE  Known(others, n, pending)
  BY DEF Known, Texts

\* The copies an import makes have the texts of what it holds.
LEMMA CopiesKnown ==
    ASSUME NEW rows, NEW n, NEW pending, Known(rows, n, pending)
    PROVE  Known(ImportedRows(rows), n, pending) /\ Texts(ImportedRows(rows)) = Texts(rows)
  <1> DEFINE copy(m) == [text |-> m.text, importance |-> m.importance,
                         created |-> clock + 1, source |-> 0]
  <1>1. \A m : copy(m).text = m.text
    OBVIOUS
  <1>2. ImportedRows(rows) = {copy(m) : m \in rows}
    BY DEF ImportedRows
  <1> HIDE DEF copy
  <1> QED
    BY <1>1, <1>2 DEF Known, Texts

\* A step makes at most one text pend, a new one; texts pend once.
LEMMA PendingMoves ==
    ASSUME TypeOK, TransferAssumption, Unique, Next
    PROVE  /\ \/ played' = played /\ Pending' \subseteq Pending
              \/ played' = played + 1 /\ Pending' \subseteq Pending \cup {played + 1}
           /\ \A j, k \in jobs' : j.row = {} /\ k.row = {} /\ j.text = k.text => j = k
  <1>1. ASSUME NEW i \in Ids, NEW outcome \in Outcomes, PlayTurn(i, outcome)
        PROVE  /\ played' = played + 1 /\ Pending' \subseteq Pending \cup {played + 1}
               /\ \A j, k \in jobs' : j.row = {} /\ k.row = {} /\ j.text = k.text => j = k
    <2> DEFINE new == [session |-> i, source |-> clock', text |-> played', row |-> {}]
    <2>1. played' = played + 1 /\ jobs' \subseteq jobs \cup {new} /\ played \in Nat
      BY <1>1 DEF PlayTurn, TypeOK
    <2>2. new.text = played + 1
      BY <2>1
    <2> HIDE DEF new
    <2>3. \A j \in jobs : j.row = {} => j.text \in 0..played /\ j.text # played + 1
      BY <2>1 DEF Unique, Pending
    <2> QED
      BY <2>1, <2>2, <2>3 DEF Pending, Unique
  <1>2. ASSUME NEW j \in jobs, NEW importance \in Importances, CurateMemory(j, importance)
        PROVE  /\ played' = played /\ Pending' \subseteq Pending \ {j.text}
               /\ \A k, l \in jobs' : k.row = {} /\ l.row = {} /\ k.text = l.text => k = l
    <2> DEFINE row == [text |-> j.text, importance |-> importance, created |-> clock + 1,
                       source |-> j.source]
               new == [session |-> j.session, source |-> j.source, text |-> j.text,
                       row |-> {row}]
    <2>1. jobs' = (jobs \ {j}) \cup {new} /\ played' = played /\ j.row = {}
      BY <1>2, CuratedRow DEF CurateMemory
    <2>2. new.row # {}
      OBVIOUS
    <2> HIDE DEF new
    <2> QED
      BY <2>1, <2>2 DEF Pending, Unique
  <1>3. CASE played' = played /\ jobs' \subseteq jobs
    BY <1>3 DEF Pending, Unique
  <1>4. CASE ApiStep
    <2>1. ASSUME NEW j \in jobs, CurateNothing(j) \/ IndexMemory(j) \/ MirrorStops(j)
          PROVE  played' = played /\ jobs' \subseteq jobs
      BY <2>1 DEF CurateNothing, IndexMemory, MirrorStops
    <2>2. ASSUME NEW i \in Ids, CreateSession(i) \/ Reroll(i)
          PROVE  played' = played /\ jobs' \subseteq jobs
      BY <2>2 DEF CreateSession, Reroll
    <2> QED
      BY <1>1, <1>2, <1>3, <1>4, <2>1, <2>2 DEF ApiStep
  <1>5. CASE Command
    <2>1. played' = played /\ jobs' = jobs
      BY <1>5 DEF Command, Backup, StartExport, StartImport, StartDelete, StartReindex,
         ExportTurns, ExportMemories, ImportTurn, ImportMemories, StartReset, ListSessions,
         DeleteRow, DeleteAllRows, PurgeSession, PurgePersona, PurgeFails, ReindexSession,
         ReindexPersona, DropSessionMemory, DropPersonaMemory, KillCommand
    <2> QED
      BY <1>3, <2>1
  <1> QED
    BY <1>4, <1>5 DEF Next

\* What is well told and known stays so.
LEMMA Later ==
    ASSUME TypeOK, TransferAssumption, Unique, Next
    PROVE  /\ played' \in Nat /\ played \in Nat /\ played <= played'
           /\ Pending' \subseteq 0..played'
           /\ \A turns : Told(turns, played) => Told(turns, played')
           /\ \A rows : Known(rows, played, Pending) => Known(rows, played', Pending')
  <1>1. /\ \/ played' = played /\ Pending' \subseteq Pending
           \/ played' = played + 1 /\ Pending' \subseteq Pending \cup {played + 1}
        /\ played \in Nat /\ Pending \subseteq 0..played
    BY PendingMoves DEF TypeOK, Unique
  <1>2. played' \in Nat /\ played <= played' /\ 0..played \subseteq 0..played'
    BY <1>1
  <1>3. Pending' \subseteq 0..played' /\ \A t \in 0..played : t \in Pending' => t \in Pending
    <2>1. CASE played' = played /\ Pending' \subseteq Pending
      BY <1>1, <2>1
    <2>2. CASE played' = played + 1 /\ Pending' \subseteq Pending \cup {played + 1}
      <3>1. played + 1 \notin 0..played /\ played + 1 \in 0..(played + 1)
        BY <1>1
      <3> QED
        BY <1>1, <1>2, <2>2, <3>1
    <2> QED
      BY <1>1, <2>1, <2>2
  <1> QED
    BY <1>1, <1>2, <1>3 DEF Told, Known

\* The sessions stay well told.
LEMMA SessionsUnique ==
    ASSUME TypeOK, TransferAssumption, Unique, Next, NEW i \in Ids
    PROVE  Told(db'[i].turns, played') /\ Known(db'[i].memories, played', Pending')
  <1>0. /\ Told(db[i].turns, played') /\ Known(db[i].memories, played', Pending')
        /\ played' \in Nat /\ played \in Nat
    BY Later DEF Unique
  <1>1. CASE db'[i] = db[i]
    BY <1>0, <1>1
  <1>2. CASE db'[i].turns = <<>> /\ db'[i].memories = {}
    BY <1>0, <1>2, EmptyTelling
  <1>3. ASSUME NEW k \in Ids, CreateSession(k)
        PROVE  db'[i] = db[i] \/ (db'[i].turns = <<>> /\ db'[i].memories = {})
    BY <1>3 DEF CreateSession, TypeOK, Created
  <1>4. ASSUME NEW outcome \in Outcomes, PlayTurn(i, outcome)
        PROVE  Told(db'[i].turns, played') /\ Known(db'[i].memories, played', Pending')
    <2> DEFINE r == [text |-> played + 1, outcome |-> outcome, created |-> clock + 1]
    <2>1. r \in TurnRow /\ Wrote(i, "active", Append(db[i].turns, r), db[i].memories)
      BY <1>4, PlayedRow
    <2>2. played' = played + 1
      BY <1>4 DEF PlayTurn
    <2>3. Spoken(db[i].turns) \subseteq 0..played
      BY DEF Unique, Told
    <2>4. r.text \in 0..played' /\ r.text \notin Spoken(db[i].turns)
      BY <1>0, <2>2, <2>3
    <2> HIDE DEF r
    <2>5. Told(Append(db[i].turns, r), played')
      BY <1>0, <2>1, <2>4, SessionFields, ToldMore
    <2> QED
      BY <1>0, <2>1, <2>5 DEF Wrote
  <1>5. ASSUME NEW j \in jobs, NEW importance \in Importances, CurateMemory(j, importance),
               i = j.session
        PROVE  Told(db'[i].turns, played') /\ Known(db'[i].memories, played', Pending')
    <2> DEFINE row == [text |-> j.text, importance |-> importance, created |-> clock + 1,
                       source |-> j.source]
    <2>1. Wrote(i, "active", db[i].turns, db[i].memories \cup {row})
      BY <1>5, CuratedRow
    <2>2. j.text \in Pending /\ j.text \in 0..played /\ j.row = {} /\ played' = played
      BY <1>5 DEF CurateMemory, Pending, Unique
    <2>3. j.text \notin Texts(db[i].memories)
      BY <2>2 DEF Unique, Known
    <2>4. j.text \notin Pending'
      <3> DEFINE new == [session |-> j.session, source |-> j.source, text |-> j.text,
                         row |-> {row}]
      <3>1. jobs' = (jobs \ {j}) \cup {new}
        BY <1>5, CuratedRow
      <3>2. new.row # {}
        OBVIOUS
      <3> HIDE DEF new
      <3> QED
        BY <2>2, <3>1, <3>2 DEF Pending, Unique
    <2>5. Texts({row}) = {j.text}
      BY DEF Texts
    <2> HIDE DEF row
    <2>6. Known({row}, played', Pending')
      BY <2>2, <2>4, <2>5 DEF Known
    <2>7. Known(db[i].memories \cup {row}, played', Pending')
      BY <1>0, <2>3, <2>5, <2>6, KnownMore
    <2> QED
      BY <1>0, <2>1, <2>7 DEF Wrote
  <1>6. ASSUME Reroll(i)
        PROVE  Told(db'[i].turns, played') /\ Known(db'[i].memories, played', Pending')
    <2> DEFINE swept == {m \in db[i].memories : m.created >= Last(db[i].turns).created}
    <2>1. Wrote(i, db[i].status, Front(db[i].turns), db[i].memories \ swept)
      BY <1>6, RerolledSession
    <2>2. db[i].turns \in Seq(TurnRow) /\ db[i].turns # <<>>
      BY <1>6, SessionFields DEF Reroll
    <2> HIDE DEF swept
    <2>3. Told(Front(db[i].turns), played')
      BY <1>0, <2>2, ToldLess
    <2>4. Known(db[i].memories \ swept, played', Pending')
      BY <1>0, KnownLess
    <2> QED
      BY <2>1, <2>3, <2>4 DEF Wrote
  <1>7. ASSUME StartImport(i) PROVE db'[i].turns = db[i].turns /\ db'[i].memories = db[i].memories
    BY <1>7, ImportStarted DEF Wrote
  <1>8. ASSUME ImportTurn, i = tool.id
        PROVE  Told(db'[i].turns, played') /\ Known(db'[i].memories, played', Pending')
    <2> DEFINE r == [text |-> Head(tool.turns).text, outcome |-> "success",
                     created |-> clock + 1]
    <2>1. r \in TurnRow /\ Wrote(i, db[i].status, Append(db[i].turns, r), db[i].memories)
      BY <1>8, TurnImported
    <2>2. /\ tool.step = "import" /\ tool.turns # <<>> /\ played' = played
          /\ tool.turns \in Seq(TurnRow)
      BY <1>8, ToolFields DEF ImportTurn, Continue
    <2>3. Head(tool.turns).text \in Spoken(tool.turns) /\ Told(tool.turns, played)
      BY <1>0, <2>2, ToldRest DEF Unique
    <2>4. r.text \in 0..played' /\ r.text \notin Spoken(db[i].turns)
      BY <1>8, <2>2, <2>3 DEF Unique, Told
    <2> HIDE DEF r
    <2>5. Told(Append(db[i].turns, r), played')
      BY <1>0, <2>1, <2>4, SessionFields, ToldMore
    <2> QED
      BY <1>0, <2>1, <2>5 DEF Wrote
  <1>9. ASSUME ImportMemories, i = tool.id
        PROVE  Told(db'[i].turns, played') /\ Known(db'[i].memories, played', Pending')
    <2> DEFINE rows == ImportedRows(tool.memories)
    <2>1. Wrote(i, db[i].status, db[i].turns, db[i].memories \cup rows)
      BY <1>9, MemoriesImported
    <2>2. Texts(db[i].memories) \cap Texts(tool.memories) = {}
      BY <1>9 DEF ImportMemories, Continue, Unique
    <2>3. Known(tool.memories, played', Pending')
      BY Later DEF Unique
    <2>4. Known(rows, played', Pending') /\ Texts(rows) = Texts(tool.memories)
      BY <2>3, CopiesKnown
    <2> HIDE DEF rows
    <2>5. Known(db[i].memories \cup rows, played', Pending')
      BY <1>0, <2>2, <2>4, KnownMore
    <2> QED
      BY <1>0, <2>1, <2>5 DEF Wrote
  <1>10. CASE ApiStep
    <2>1. ASSUME NEW k \in Ids, k # i, (\E outcome \in Outcomes : PlayTurn(k, outcome)) \/ Reroll(k)
          PROVE  db'[i] = db[i]
      BY <2>1, PlayedRow, RerolledSession DEF Wrote
    <2>2. ASSUME NEW j \in jobs, NEW importance \in Importances, CurateMemory(j, importance),
                 i # j.session
          PROVE  db'[i] = db[i]
      BY <2>2, CuratedRow DEF Wrote
    <2>3. ASSUME NEW j \in jobs, CurateNothing(j) \/ IndexMemory(j) \/ MirrorStops(j) PROVE db'[i] = db[i]
      BY <2>3 DEF CurateNothing, IndexMemory, MirrorStops
    <2> QED
      BY <1>1, <1>2, <1>3, <1>4, <1>5, <1>6, <1>10, <2>1, <2>2, <2>3 DEF ApiStep
  <1>11. CASE Command
    <2>1. ASSUME NEW k \in Ids, k # i, StartImport(k) PROVE db'[i] = db[i]
      BY <2>1, ImportStarted DEF Wrote
    <2>2. ASSUME i # tool.id, ImportTurn \/ ImportMemories PROVE db'[i] = db[i]
      BY <2>2, TurnImported, MemoriesImported DEF Wrote
    <2>3. CASE DeleteRow \/ DeleteAllRows
      <3>1. db'[i] = db[i] \/ db'[i] = Absent
        BY <2>3 DEF DeleteRow, DeleteAllRows
      <3> QED
        BY <1>1, <1>2, <3>1 DEF Absent
    <2>4. CASE \E k \in Ids : StartImport(k)
      BY <1>0, <1>1, <1>7, <2>1, <2>4
    <2> QED
      BY <1>1, <1>8, <1>9, <1>11, <2>2, <2>3, <2>4, CommandWrites
  <1> QED
    BY <1>10, <1>11 DEF Next

\* What a step makes the command hold is what it held, or what is stored or
\* exported, or nothing.
LEMMA ToolHolds ==
    ASSUME TypeOK, TransferAssumption, Next
    PROVE  /\ \/ tool'.turns \in {tool.turns, <<>>, file.turns}
              \/ \E i \in Ids : tool'.turns = db[i].turns
              \/ tool.turns # <<>> /\ tool'.turns = Tail(tool.turns)
           /\ \/ tool'.memories \in {tool.memories, {}, file.memories}
              \/ \E i \in Ids : tool'.memories = db[i].memories
  <1>1. CASE tool' = tool
    BY <1>1
  <1>2. CASE tool' = Idle
    BY <1>2 DEF Idle
  <1>3. ASSUME NEW i \in Ids,
               StartExport(i) \/ StartImport(i) \/ StartDelete(i) \/ StartReindex(i)
        PROVE  /\ tool'.turns \in {<<>>, file.turns}
               /\ tool'.memories \in {{}, file.memories, db[i].memories}
    BY <1>3 DEF StartExport, StartImport, StartDelete, StartReindex, Idle
  <1>4. CASE StartReset \/ \E all \in BOOLEAN : DropSessionMemory(all)
    <2>1. tool'.turns = <<>> /\ tool'.memories = {}
      <3>1. ASSUME NEW all \in BOOLEAN, DropSessionMemory(all)
            PROVE  tool'.turns = <<>> /\ tool'.memories = {}
        BY <3>1 DEF DropSessionMemory, Idle
      <3> QED
        BY <1>4, <3>1 DEF StartReset, Idle
    <2> QED
      BY <2>1
  <1>5. CASE ExportTurns
    <2>1. /\ tool'.turns = db[tool.id].turns /\ tool'.memories = tool.memories
          /\ tool.id \in Ids
      BY <1>5, ToolFields DEF ExportTurns, Tool
    <2> QED
      BY <2>1
  <1>6. CASE ImportTurn
    BY <1>6, ToolFields DEF ImportTurn, Tool
  <1>7. ASSUME NEW i \in Ids, NextPurge(i)
        PROVE  tool'.turns \in {tool.turns, <<>>} /\ tool'.memories \in {tool.memories, {}}
    BY <1>7, ToolFields DEF NextPurge, Idle, Tool
  <1>8. CASE ListSessions \/ DeleteRow \/ ReindexSession \/ \E i \in Ids : PurgeSession(i)
    BY <1>8, ToolFields DEF ListSessions, DeleteRow, ReindexSession, PurgeSession, Tool
  <1>9. CASE DeleteAllRows
    BY <1>9, ToolFields DEF DeleteAllRows, Idle, Tool
  <1>10. CASE ApiStep
    BY <1>1, <1>10, ApiMoves
  <1>11. CASE PurgePersona \/ PurgeFails
    <2>1. \E i \in Ids : NextPurge(i)
      BY <1>11, ToolFields DEF PurgePersona, PurgeFails
    <2> QED
      BY <1>7, <2>1
  <1>12. CASE \/ Backup \/ ExportMemories \/ ImportMemories \/ ReindexPersona
              \/ DropPersonaMemory \/ KillCommand
    BY <1>1, <1>2, <1>12 DEF Backup, ExportMemories, ImportMemories, ReindexPersona,
       DropPersonaMemory, KillCommand
  <1>13. CASE \E i \in Ids : StartExport(i) \/ StartImport(i) \/ StartDelete(i) \/ StartReindex(i)
    BY <1>3, <1>13
  <1> QED
    BY <1>4, <1>5, <1>6, <1>8, <1>9, <1>10, <1>11, <1>12, <1>13 DEF Next, Command

\* The file is written by the last read of an export only.
LEMMA FileHolds ==
    ASSUME TypeOK, Next
    PROVE  \/ file' = file
           \/ file'.turns = tool.turns /\ file'.memories = db[tool.id].memories
  <1>1. CASE ExportMemories
    BY <1>1 DEF ExportMemories
  <1>2. ExportMemories \/ file' = file
    BY DEF Next, ApiStep, CreateSession, PlayTurn, CurateNothing, CurateMemory, IndexMemory,
       MirrorStops, Reroll, Command, Backup, StartExport, StartImport, StartDelete, StartReindex,
       ExportTurns, ImportTurn, ImportMemories, StartReset, ListSessions, DeleteRow,
       DeleteAllRows, PurgeSession, PurgePersona, PurgeFails, ReindexSession, ReindexPersona,
       DropSessionMemory, DropPersonaMemory, KillCommand
  <1> QED
    BY <1>1, <1>2

\* What an import has still to store is not stored yet.
LEMMA ImportApart ==
    ASSUME TypeOK, TransferAssumption, Held, Unique, Next, tool'.step = "import"
    PROVE  /\ Spoken(db'[tool'.id].turns) \cap Spoken(tool'.turns) = {}
           /\ Texts(db'[tool'.id].memories) \cap Texts(tool'.memories) = {}
  <1>1. ASSUME NEW i \in Ids, StartImport(i)
        PROVE  /\ Spoken(db'[i].turns) = {}
               /\ Texts(db'[i].memories) = {}
    <2>1. db[i].turns = <<>> /\ db[i].memories = {}
      BY <1>1 DEF StartImport, MayCreate, Fresh, Held
    <2>2. db'[i].turns = <<>> /\ db'[i].memories = {}
      BY <1>1, <2>1, ImportStarted DEF Wrote
    <2> QED
      BY <2>2 DEF Spoken, Texts
  <1>2. ASSUME ImportTurn, tool'.id = tool.id, tool'.turns = Tail(tool.turns),
               tool'.memories = tool.memories
        PROVE  /\ Spoken(db'[tool.id].turns) \cap Spoken(tool'.turns) = {}
               /\ Texts(db'[tool.id].memories) \cap Texts(tool'.memories) = {}
    <2> DEFINE r == [text |-> Head(tool.turns).text, outcome |-> "success",
                     created |-> clock + 1]
               s == db[tool.id]
    <2>1. r \in TurnRow /\ Wrote(tool.id, s.status, Append(s.turns, r), s.memories)
      BY <1>2, TurnImported
    <2>2. /\ Spoken(s.turns) \cap Spoken(tool.turns) = {}
          /\ Texts(s.memories) \cap Texts(tool.memories) = {}
          /\ tool.turns # <<>> /\ tool.turns \in Seq(TurnRow) /\ played \in Nat
          /\ Told(tool.turns, played) /\ Told(s.turns, played)
      BY <1>2, ToolFields DEF ImportTurn, Continue, Unique, TypeOK
    <2>3. /\ Spoken(tool'.turns) \subseteq Spoken(tool.turns)
          /\ r.text \in Spoken(tool.turns) /\ r.text \notin Spoken(tool'.turns)
      BY <1>2, <2>2, ToldRest
    <2>4. r.text \in 0..played /\ r.text \notin Spoken(s.turns)
      BY <2>2, <2>3 DEF Told
    <2>5. s.turns \in Seq(TurnRow)
      BY ToolFields, SessionFields
    <2> HIDE DEF r
    <2>6. Spoken(Append(s.turns, r)) = Spoken(s.turns) \cup {r.text}
      BY <2>1, <2>2, <2>4, <2>5, ToldMore
    <2> QED
      BY <1>2, <2>1, <2>2, <2>3, <2>6 DEF Wrote
  <1>3. ASSUME ApiStep, tool' = tool
        PROVE  /\ Spoken(db'[tool.id].turns) \cap Spoken(tool.turns) = {}
               /\ Texts(db'[tool.id].memories) \cap Texts(tool.memories) = {}
    <2> DEFINE s == db[tool.id]
    <2>0. /\ tool.step = "import" /\ tool.id \in Ids
          /\ Spoken(s.turns) \cap Spoken(tool.turns) = {}
          /\ Texts(s.memories) \cap Texts(tool.memories) = {}
          /\ Spoken(tool.turns) \subseteq 0..played /\ played \in Nat
          /\ Texts(tool.memories) \cap Pending = {}
          /\ s.status = "active"
      BY <1>3, ToolFields DEF Unique, Told, Known, TypeOK, Held
    <2>1. CASE db'[tool.id].turns = s.turns /\ db'[tool.id].memories = s.memories
      BY <2>0, <2>1
    <2>2. ASSUME NEW i \in Ids, CreateSession(i) PROVE db'[tool.id] = s
      BY <2>0, <2>2 DEF CreateSession, Fresh, TypeOK
    <2>3. ASSUME NEW i \in Ids, NEW outcome \in Outcomes, PlayTurn(i, outcome)
          PROVE  /\ Spoken(db'[tool.id].turns) \cap Spoken(tool.turns) = {}
                 /\ Texts(db'[tool.id].memories) \cap Texts(tool.memories) = {}
      <3> DEFINE r == [text |-> played + 1, outcome |-> outcome, created |-> clock + 1]
      <3>1. r \in TurnRow /\ Wrote(i, "active", Append(db[i].turns, r), db[i].memories)
        BY <2>3, PlayedRow
      <3>2. r.text = played + 1 /\ played + 1 \notin 0..played /\ played + 1 \in 0..(played + 1)
        BY <2>0
      <3> HIDE DEF r
      <3>3. Told(db[i].turns, played) /\ Told(db[i].turns, played + 1)
        BY <2>0 DEF Unique, Told
      <3>4. Spoken(Append(db[i].turns, r)) = Spoken(db[i].turns) \cup {r.text}
        <4>1. r.text \notin Spoken(db[i].turns)
          BY <3>2, <3>3 DEF Told
        <4>2. r \in TurnRow /\ r.text \in 0..(played + 1) /\ played + 1 \in Nat
          BY <2>0, <3>1, <3>2
        <4>3. db[i].turns \in Seq(TurnRow)
          BY SessionFields
        <4> QED
          BY <3>3, <4>1, <4>2, <4>3, ToldMore
      <3>5. CASE i = tool.id
        <4>1. db'[tool.id].turns = Append(s.turns, r) /\ db'[tool.id].memories = s.memories
          BY <3>1, <3>5 DEF Wrote
        <4>2. Spoken(db'[tool.id].turns) = Spoken(s.turns) \cup {played + 1}
          BY <3>2, <3>4, <3>5, <4>1
        <4>3. played + 1 \notin Spoken(tool.turns)
          BY <2>0, <3>2
        <4> QED
          BY <2>0, <4>1, <4>2, <4>3
      <3>6. CASE i # tool.id
        BY <2>0, <2>1, <3>1, <3>6 DEF Wrote
      <3> QED
        BY <3>5, <3>6
    <2>4. ASSUME NEW j \in jobs, NEW importance \in Importances, CurateMemory(j, importance)
          PROVE  /\ Spoken(db'[tool.id].turns) \cap Spoken(tool.turns) = {}
                 /\ Texts(db'[tool.id].memories) \cap Texts(tool.memories) = {}
      <3> DEFINE row == [text |-> j.text, importance |-> importance, created |-> clock + 1,
                         source |-> j.source]
      <3>1. Wrote(j.session, "active", db[j.session].turns, db[j.session].memories \cup {row})
        BY <2>4, CuratedRow
      <3>2. row.text = j.text /\ j.text \in Pending
        BY <2>4 DEF CurateMemory, Pending
      <3> HIDE DEF row
      <3>3. Texts(s.memories \cup {row}) = Texts(s.memories) \cup {j.text}
        BY <3>2 DEF Texts
      <3>4. CASE j.session = tool.id
        BY <2>0, <3>1, <3>2, <3>3, <3>4 DEF Wrote
      <3>5. CASE j.session # tool.id
        BY <2>0, <2>1, <3>1, <3>5 DEF Wrote
      <3> QED
        BY <3>4, <3>5
    <2>5. ASSUME NEW i \in Ids, Reroll(i)
          PROVE  /\ Spoken(db'[tool.id].turns) \cap Spoken(tool.turns) = {}
                 /\ Texts(db'[tool.id].memories) \cap Texts(tool.memories) = {}
      <3> DEFINE swept == {m \in db[i].memories : m.created >= Last(db[i].turns).created}
      <3>1. Wrote(i, db[i].status, Front(db[i].turns), db[i].memories \ swept)
        BY <2>5, RerolledSession
      <3>2. db[i].turns \in Seq(TurnRow) /\ db[i].turns # <<>> /\ Told(db[i].turns, played)
        BY <2>5, SessionFields DEF Reroll, Unique
      <3> HIDE DEF swept
      <3>3. Spoken(Front(db[i].turns)) \subseteq Spoken(db[i].turns)
        BY <2>0, <3>2, ToldLess
      <3>4. Texts(db[i].memories \ swept) \subseteq Texts(db[i].memories)
        BY DEF Texts
      <3>5. CASE i = tool.id
        BY <2>0, <3>1, <3>3, <3>4, <3>5 DEF Wrote
      <3>6. CASE i # tool.id
        BY <2>0, <2>1, <3>1, <3>6 DEF Wrote
      <3> QED
        BY <3>5, <3>6
    <2>6. ASSUME NEW j \in jobs, CurateNothing(j) \/ IndexMemory(j) \/ MirrorStops(j) PROVE db'[tool.id] = s
      BY <2>6 DEF CurateNothing, IndexMemory, MirrorStops
    <2> QED
      BY <1>3, <2>1, <2>2, <2>3, <2>4, <2>5, <2>6 DEF ApiStep
  <1> QED
    BY <1>1, <1>2, <1>3, ImportMoves

\* No step makes a text appear twice.
LEMMA UniqueStep ==
    ASSUME TypeOK, TransferAssumption, Held, Unique, [Next]_vars
    PROVE  Unique'
  <1>1. CASE UNCHANGED vars
    BY <1>1 DEF vars, Unique, Pending
  <1>2. CASE Next
    <2>1. \A i \in Ids : Told(db'[i].turns, played') /\ Known(db'[i].memories, played', Pending')
      BY <1>2, SessionsUnique
    <2>2. /\ \A turns : Told(turns, played) => Told(turns, played')
          /\ \A rows : Known(rows, played, Pending) => Known(rows, played', Pending')
          /\ Pending' \subseteq 0..played' /\ played' \in Nat /\ played \in Nat
      BY <1>2, Later
    <2>3. Told(tool'.turns, played')
      <3>1. CASE tool'.turns \in {tool.turns, <<>>, file.turns}
        BY <2>2, <3>1, EmptyTelling DEF Unique
      <3>2. CASE \E i \in Ids : tool'.turns = db[i].turns
        BY <2>2, <3>2 DEF Unique
      <3>3. CASE tool.turns # <<>> /\ tool'.turns = Tail(tool.turns)
        BY <2>2, <3>3, ToolFields, ToldRest DEF Unique
      <3> QED
        BY <1>2, <3>1, <3>2, <3>3, ToolHolds
    <2>4. Known(tool'.memories, played', Pending')
      <3>1. CASE tool'.memories \in {tool.memories, {}, file.memories}
        BY <2>2, <3>1, EmptyTelling DEF Unique
      <3>2. CASE \E i \in Ids : tool'.memories = db[i].memories
        BY <2>2, <3>2 DEF Unique
      <3> QED
        BY <1>2, <3>1, <3>2, ToolHolds
    <2>5. Told(file'.turns, played') /\ Known(file'.memories, played', Pending')
      BY <1>2, <2>2, FileHolds, ToolFields DEF Unique
    <2>6. \A j, k \in jobs' : j.row = {} /\ k.row = {} /\ j.text = k.text => j = k
      BY <1>2, PendingMoves
    <2>7. tool'.step = "import" =>
             /\ Spoken(db'[tool'.id].turns) \cap Spoken(tool'.turns) = {}
             /\ Texts(db'[tool'.id].memories) \cap Texts(tool'.memories) = {}
      BY <1>2, ImportApart
    <2> QED
      BY <2>1, <2>2, <2>3, <2>4, <2>5, <2>6, <2>7 DEF Unique
  <1> QED
    BY <1>1, <1>2

\* No history ever holds a turn or a memory twice, for any number of sessions,
\* imports, kills and concurrent turns.
THEOREM ImportsHappenOnce == Spec => []ImportedOnce
  <1> DEFINE Inv == TypeOK /\ Held /\ Unique
  <1>1. Init => Inv
    <2> SUFFICES ASSUME Init PROVE Inv
      OBVIOUS
    <2>1. \A i \in Ids : db[i].memories = {} /\ db[i].turns = <<>>
      BY DEF Init, Created, Absent
    <2>2. /\ tool.turns = <<>> /\ tool.memories = {} /\ tool.step = "idle"
          /\ file.turns = <<>> /\ file.memories = {} /\ jobs = {} /\ played = 0
      BY DEF Init, Idle
    <2>3. Pending = {}
      BY <2>2 DEF Pending
    <2>4. Unique
      BY <2>1, <2>2, <2>3, EmptyTelling DEF Unique
    <2> QED
      BY <2>1, <2>2, <2>4, InitTyped, TransferAssumption DEF Held
  <1>2. Inv /\ [Next]_vars => Inv'
    BY TypeStep, HeldStep, UniqueStep, TransferAssumption
  <1>3. Inv => ImportedOnce
    BY DEF Unique, Told, Known, ImportedOnce
  <1> QED
    BY <1>1, <1>2, <1>3, PTL DEF Spec
==============================================================================
