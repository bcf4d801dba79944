--------------------------- MODULE SessionTransfer ---------------------------
(***************************************************************************)
(* The command line's maintenance of sessions beside a running API: export *)
(* and import, delete-session and reset-db with their safety backup,       *)
(* reindex-memories and reset-index. A command is a second process on the  *)
(* same SQLite file and vector store; it commits statement by statement    *)
(* and may be killed, or find the vector store gone, between any two.      *)
(*                                                                         *)
(* The API side is what these commands can meet: a turn's row, the         *)
(* deferred memory write and its index mirror (two steps), and a reroll    *)
(* that has drained its jobs (one step; its inner steps are TurnApi's).    *)
(* A text stands for a turn, and for the memory made of it, in every copy; *)
(* a stamp is one utc_now(). A memory's uuid is its session, stamp, text.  *)
(* Consolidation tags and canon facts are left out.                        *)
(***************************************************************************)
EXTENDS Naturals, Sequences, FiniteSets, SequencesExt

CONSTANTS
    Ids,              \* session ids: the one that is played, uuids for others
    Original,         \* the session that exists at first
    Importances,      \* the importances a curator gives, within 1..5
    IndexFloor,       \* rag_index_importance_floor
    IndexCap,         \* session_memory_max_episodes; 0 is unlimited
    MaxTurns,         \* bound: turns ever played
    MaxCommands,      \* bound: commands ever started
    MaxWork,          \* bound: turns and commands together
    MaxFailures       \* bound: killed commands and failing vector-store calls

ASSUME TransferAssumption ==
    /\ Original \in Ids
    /\ Importances \subseteq 1..5
    /\ {IndexFloor, IndexCap, MaxTurns, MaxCommands, MaxWork, MaxFailures} \subseteq Nat

VARIABLES
    db,         \* the sessions of the SQLite file, with their turns and memories
    points,     \* the points of session_memory and persona_memory
    jobs,       \* the API's deferred memory jobs
    tool,       \* the running command: its next step, and what it holds
    file,       \* the exported JSON file
    backup,     \* the newest file in data/backups
    clock,      \* the last stamp given
    played,     \* turns ever played; the text of the last one
    spent,      \* commands started and failures suffered
    calm,       \* observation: no failure, and no API step during a command
    alone       \* observation: neither during the command that runs, if any

vars == <<db, points, jobs, tool, file, backup, clock, played, spent, calm, alone>>

Outcomes == {"success", "controlled_failure"}
TurnRow == [text : Nat, outcome : Outcomes, created : Nat]
MemoryRow == [text : Nat, importance : Importances, created : Nat, source : Nat]
Session == [status : {"none", "active"}, turns : Seq(TurnRow), memories : SUBSET MemoryRow]
Absent == [status |-> "none", turns |-> <<>>, memories |-> {}]
Created == [status |-> "active", turns |-> <<>>, memories |-> {}]

Collections == {"session_memory", "persona_memory"}
Point == [collection : Collections, session : Ids, created : Nat, text : Nat]

\* a job awaits the curator, or has committed its row and is about to index it
Job == [session : Ids, source : Nat, text : Nat, row : SUBSET MemoryRow]

Steps == {"idle", "export_turns", "export_memories", "import", "delete_row", "reset_list",
          "reset_rows", "purge_session", "purge_persona", "reindex_session",
          "reindex_persona", "drop_persona"}

\* ids: sessions still to purge; since: the clock when the command began
Tool == [step : Steps, id : Ids, turns : Seq(TurnRow), memories : SUBSET MemoryRow,
         ids : SUBSET Ids, since : Nat]
Idle == [step |-> "idle", id |-> Original, turns |-> <<>>, memories |-> {},
         ids |-> {}, since |-> 0]

Envelope == [status : {"none", "written"}, id : Ids, turns : Seq(TurnRow), memories : SUBSET MemoryRow]

\* Every row, point, held value and file has its type (models.py, repositories.py).
TypeOK ==
    /\ db \in [Ids -> Session]
    /\ points \subseteq Point
    /\ jobs \subseteq Job
    /\ tool \in Tool
    /\ file \in Envelope
    /\ backup \in [Ids -> Session]
    /\ {clock, played} \subseteq Nat
    /\ spent \in [commands : Nat, failures : Nat]
    /\ {calm, alone} \subseteq BOOLEAN

Init ==
    /\ db = [i \in Ids |-> IF i = Original THEN Created ELSE Absent]
    /\ points = {}
    /\ jobs = {}
    /\ tool = Idle
    /\ file = [status |-> "none", id |-> Original, turns |-> <<>>, memories |-> {}]
    /\ backup = [i \in Ids |-> Absent]
    /\ clock = 0
    /\ played = 0
    /\ spent = [commands |-> 0, failures |-> 0]
    /\ calm = TRUE
    /\ alone = TRUE

-----------------------------------------------------------------------------
(* The index *)

PointOf(c, i, m) == [collection |-> c, session |-> i, created |-> m.created, text |-> m.text]
PointsIn(c, i, rows) == {PointOf(c, i, m) : m \in rows}

\* PERSONA_MEMORY_IMPORTANCE_FLOOR
Lasting(rows) == {m \in rows : m.importance >= 4}

Outranks(m, n) ==
    \/ m.importance > n.importance
    \/ m.importance = n.importance /\ m.created > n.created
    \/ m.importance = n.importance /\ m.created = n.created /\ m.text > n.text

Eligible(rows) == {m \in rows : m.importance >= IndexFloor}

\* index_memories with the API's settings: floor, both collections, cap
Upserted(i, row) == points \cup PointsIn("session_memory", i, Eligible(row))
Mirrored(i, row) ==
    Upserted(i, row) \cup PointsIn("persona_memory", i, Lasting(Eligible(row)))

IndexedByApi(i, row, rows) ==
    LET ranked == Eligible(rows)
        surplus == {m \in ranked : Cardinality({n \in ranked : Outranks(n, m)}) >= IndexCap}
    IN IF Eligible(row) = {}
       THEN points
       ELSE Mirrored(i, row)
            \ (IF IndexCap = 0 THEN {} ELSE PointsIn("session_memory", i, surplus))

\* Variant: the purge only knows the session collection
WithoutSessionMemory(c, i) ==
    {p \in points : ~(p.collection = "session_memory" /\ p.session = i)}

\* delete_session_points of one collection
WithoutSession(c, i) == {p \in points : ~(p.collection = c /\ p.session = i)}

-----------------------------------------------------------------------------
(* Steps of the running API. One taken while a command runs, or a command   *)
(* started over a pending job, ends the calm.                               *)

StillCalm == calm /\ tool.step = "idle"

Beside ==
    /\ calm' = StillCalm
    /\ alone' = FALSE
    /\ UNCHANGED spent

Fail ==
    /\ spent.failures < MaxFailures
    /\ spent' = [spent EXCEPT !.failures = @ + 1]
    /\ calm' = FALSE
    /\ alone' = FALSE

\* an id that no row, file or point has: uuid4()
Fresh(i) ==
    /\ db[i].status = "none"
    /\ file.id # i
    /\ backup[i].status = "none"
    /\ \A p \in points : p.session # i
    /\ \A j \in jobs : j.session # i

\* POST /sessions
CreateSession(i) ==
    /\ Fresh(i)
    /\ db' = [db EXCEPT ![i] = Created]
    /\ Beside
    /\ UNCHANGED <<points, jobs, tool, file, backup, clock, played>>

\* a turn is stored; a successful one leaves a memory job
PlayTurn(i, outcome) ==
    /\ db[i].status = "active"
    /\ played < MaxTurns
    /\ played + spent.commands < MaxWork
    /\ played' = played + 1
    /\ clock' = clock + 1
    /\ db' = [db EXCEPT ![i].turns = Append(@,
                [text |-> played', outcome |-> outcome, created |-> clock'])]
    /\ jobs' = IF outcome = "success"
               THEN jobs \cup {[session |-> i, source |-> clock', text |-> played', row |-> {}]}
               ELSE jobs
    /\ Beside
    /\ UNCHANGED <<points, tool, file, backup>>

\* nothing to keep, or the session is gone: the job ends without a row
CurateNothing(j) ==
    /\ j.row = {}
    /\ jobs' = jobs \ {j}
    /\ Beside
    /\ UNCHANGED <<db, points, tool, file, backup, clock, played>>

CurateMemory(j, importance) ==
    LET row == [text |-> j.text, importance |-> importance,
                created |-> clock + 1, source |-> j.source]
    IN
    /\ j.row = {}
    /\ db[j.session].status = "active"
    /\ clock' = clock + 1
    /\ db' = [db EXCEPT ![j.session].memories = @ \cup {row}]
    /\ jobs' = (jobs \ {j}) \cup {[j EXCEPT !.row = {row}]}
    /\ Beside
    /\ UNCHANGED <<points, tool, file, backup, played>>

\* the mirror of the committed row, over the rows stored by now
IndexMemory(j) ==
    /\ j.row # {}
    /\ points' = IndexedByApi(j.session, j.row, db[j.session].memories)
    /\ jobs' = jobs \ {j}
    /\ Beside
    /\ UNCHANGED <<db, tool, file, backup, clock, played>>

\* the mirror stops before, between or after its upserts: the store is gone, or
\* the API has died with the row committed
MirrorStops(j) ==
    /\ j.row # {}
    /\ Fail
    /\ points' \in {points, Upserted(j.session, j.row), Mirrored(j.session, j.row)}
    /\ jobs' = jobs \ {j}
    /\ UNCHANGED <<db, tool, file, backup, clock, played>>

\* DELETE /sessions/{id}/turns/last after its drain: the last turn, every
\* memory stamped since, their points
Reroll(i) ==
    LET last == Last(db[i].turns)
        swept == {m \in db[i].memories : m.created >= last.created}
    IN
    /\ jobs = {}
    /\ db[i].turns # <<>>
    /\ db' = [db EXCEPT ![i].turns = Front(@), ![i].memories = @ \ swept]
    /\ points' = points \ UNION {PointsIn(c, i, swept) : c \in Collections}
    /\ Beside
    /\ UNCHANGED <<jobs, tool, file, backup, clock, played>>

ApiStep ==
    \/ \E i \in Ids : CreateSession(i)
    \/ \E i \in Ids, outcome \in Outcomes : PlayTurn(i, outcome)
    \/ \E j \in jobs : CurateNothing(j)
    \/ \E j \in jobs, importance \in Importances : CurateMemory(j, importance)
    \/ \E j \in jobs : IndexMemory(j) \/ MirrorStops(j)
    \/ \E i \in Ids : Reroll(i)

-----------------------------------------------------------------------------
(* Commands. A command that refuses, because an id is unknown or taken,     *)
(* changes nothing and is left out.                                         *)

StartCommand ==
    /\ tool.step = "idle"
    /\ spent.commands < MaxCommands
    /\ played + spent.commands < MaxWork
    /\ spent' = [spent EXCEPT !.commands = @ + 1]
    /\ calm' = (calm /\ jobs = {})
    /\ alone' = TRUE

\* a command's later step; it ends the command when it goes to Idle
Continue(step) ==
    /\ tool.step = step
    /\ UNCHANGED <<spent, calm, alone>>

\* Variant: a copy of the last backup, not of the database
TakeStaleBackup == backup' = backup

\* _backup_database: a consistent copy of the whole file
TakeBackup == backup' = db

Backup ==
    /\ StartCommand
    /\ TakeBackup
    /\ UNCHANGED <<db, points, jobs, tool, file, clock, played>>

\* export-session: the session row, its turns, its memories, in three reads
StartExport(i) ==
    /\ StartCommand
    /\ db[i].status = "active"
    /\ tool' = [Idle EXCEPT !.step = "export_turns", !.id = i]
    /\ UNCHANGED <<db, points, jobs, file, backup, clock, played>>

ExportTurns ==
    /\ Continue("export_turns")
    /\ tool' = [tool EXCEPT !.step = "export_memories", !.turns = db[tool.id].turns]
    /\ UNCHANGED <<db, points, jobs, file, backup, clock, played>>

ExportMemories ==
    /\ Continue("export_memories")
    /\ file' = [status |-> "written", id |-> tool.id, turns |-> tool.turns,
                memories |-> db[tool.id].memories]
    /\ tool' = Idle
    /\ UNCHANGED <<db, points, jobs, backup, clock, played>>

\* Variant: an import that adds to a session that exists
MayCreateAnyway(i) == i = file.id \/ Fresh(i)

\* the exported id unless it exists, or a new one with --new-id
MayCreate(i) ==
    \/ i = file.id /\ db[i].status = "none"
    \/ Fresh(i)

\* import-session: the session row is committed first
StartImport(i) ==
    /\ StartCommand
    /\ file.status = "written"
    /\ MayCreate(i)
    /\ db' = [db EXCEPT ![i].status = "active"]
    /\ tool' = [Idle EXCEPT !.step = "import", !.id = i,
                            !.turns = file.turns, !.memories = file.memories]
    /\ UNCHANGED <<points, jobs, file, backup, clock, played>>

\* Variant: an outcome of its own for imported turns
ImportedAsSuch(turn) ==
    [text |-> turn.text, outcome |-> "imported", created |-> clock + 1]

\* append_turn gives a new stamp, and success where no outcome is passed on
Imported(turn) == [text |-> turn.text, outcome |-> "success", created |-> clock + 1]

\* Variant: the newest turn first, as a listing gives them
ImportTurnNewestFirst ==
    /\ Continue("import")
    /\ tool.turns # <<>>
    /\ clock' = clock + 1
    /\ db' = [db EXCEPT ![tool.id].turns = Append(@, Imported(Last(tool.turns)))]
    /\ tool' = [tool EXCEPT !.turns = Front(@)]
    /\ UNCHANGED <<points, jobs, file, backup, played>>

\* each turn is a commit of its own
ImportTurn ==
    /\ Continue("import")
    /\ tool.turns # <<>>
    /\ clock' = clock + 1
    /\ db' = [db EXCEPT ![tool.id].turns = Append(@, Imported(Head(tool.turns)))]
    /\ tool' = [tool EXCEPT !.turns = Tail(@)]
    /\ UNCHANGED <<points, jobs, file, backup, played>>

\* one commit, one new stamp for all, and no source turn
ImportedRows(rows) ==
    {[text |-> m.text, importance |-> m.importance, created |-> clock + 1, source |-> 0] :
        m \in rows}

ImportMemories ==
    /\ Continue("import")
    /\ tool.turns = <<>>
    /\ clock' = clock + 1
    /\ db' = [db EXCEPT ![tool.id].memories = @ \cup ImportedRows(tool.memories)]
    /\ tool' = Idle
    /\ UNCHANGED <<points, jobs, file, backup, played>>

\* delete-session: backup, row (cascade), then the two collections
StartDelete(i) ==
    /\ StartCommand
    /\ db[i].status = "active"
    /\ TakeBackup
    /\ tool' = [Idle EXCEPT !.step = "delete_row", !.ids = {i}, !.since = clock]
    /\ UNCHANGED <<db, points, jobs, file, clock, played>>

\* reset-db: backup, list, DELETE, then each listed session's points
StartReset ==
    /\ StartCommand
    /\ TakeBackup
    /\ tool' = [Idle EXCEPT !.step = "reset_list", !.since = clock]
    /\ UNCHANGED <<db, points, jobs, file, clock, played>>

ListSessions ==
    /\ Continue("reset_list")
    /\ tool' = [tool EXCEPT !.step = "reset_rows", !.ids = {i \in Ids : db[i].status = "active"}]
    /\ UNCHANGED <<db, points, jobs, file, backup, clock, played>>

DeleteRow ==
    /\ Continue("delete_row")
    /\ db' = [i \in Ids |-> IF i \in tool.ids THEN Absent ELSE db[i]]
    /\ tool' = [tool EXCEPT !.step = "purge_session"]
    /\ UNCHANGED <<points, jobs, file, backup, clock, played>>

DeleteAllRows ==
    /\ Continue("reset_rows")
    /\ db' = [i \in Ids |-> Absent]
    /\ tool' = IF tool.ids = {} THEN Idle ELSE [tool EXCEPT !.step = "purge_session"]
    /\ UNCHANGED <<points, jobs, file, backup, clock, played>>

\* _delete_session_vectors of the next session, first collection
PurgeSession(i) ==
    /\ Continue("purge_session")
    /\ i \in tool.ids
    /\ points' = WithoutSession("session_memory", i)
    /\ tool' = [tool EXCEPT !.step = "purge_persona", !.id = i]
    /\ UNCHANGED <<db, jobs, file, backup, clock, played>>

\* the purge of one session has ended, with or without success
NextPurge(i) ==
    tool' = IF tool.ids = {i} THEN Idle
            ELSE [tool EXCEPT !.step = "purge_session", !.ids = @ \ {i}]

PurgePersona ==
    /\ Continue("purge_persona")
    /\ points' = WithoutSession("persona_memory", tool.id)
    /\ NextPurge(tool.id)
    /\ UNCHANGED <<db, jobs, file, backup, clock, played>>

\* an unreachable vector store costs one session's purge and a warning
PurgeFails ==
    /\ Fail
    /\ \/ tool.step = "purge_session" /\ \E i \in tool.ids : NextPurge(i)
       \/ tool.step = "purge_persona" /\ NextPurge(tool.id)
    /\ UNCHANGED <<db, points, jobs, file, backup, clock, played>>

\* reindex-memories: read every memory of the session
StartReindex(i) ==
    /\ StartCommand
    /\ db[i].memories # {}
    /\ tool' = [Idle EXCEPT !.step = "reindex_session", !.id = i,
                            !.memories = db[i].memories, !.since = clock]
    /\ UNCHANGED <<db, points, jobs, file, backup, clock, played>>

\* Variant: a page of the newest is indexed again
NewestRows == {m \in tool.memories : \A n \in tool.memories : n.created <= m.created}

\* the command builds its indexer with floor 1 and no cap
HeldRows == tool.memories

ReindexSession ==
    /\ Continue("reindex_session")
    /\ points' = points \cup PointsIn("session_memory", tool.id, HeldRows)
    /\ tool' = [tool EXCEPT !.step = "reindex_persona"]
    /\ UNCHANGED <<db, jobs, file, backup, clock, played>>

ReindexPersona ==
    /\ Continue("reindex_persona")
    /\ points' = points \cup PointsIn("persona_memory", tool.id, Lasting(HeldRows))
    /\ tool' = Idle
    /\ UNCHANGED <<db, jobs, file, backup, clock, played>>

\* reset-index of session_memory, alone or as the first of all collections
DropSessionMemory(all) ==
    /\ StartCommand
    /\ points' = {p \in points : p.collection # "session_memory"}
    /\ tool' = IF all THEN [Idle EXCEPT !.step = "drop_persona"] ELSE Idle
    /\ UNCHANGED <<db, jobs, file, backup, clock, played>>

\* and of persona_memory, after it or alone
DropPersonaMemory ==
    /\ Continue("drop_persona") \/ StartCommand
    /\ points' = {p \in points : p.collection # "persona_memory"}
    /\ tool' = Idle
    /\ UNCHANGED <<db, jobs, file, backup, clock, played>>

\* the process is killed, or a statement or call of it raises
KillCommand ==
    /\ tool.step # "idle"
    /\ Fail
    /\ tool' = Idle
    /\ UNCHANGED <<db, points, jobs, file, backup, clock, played>>

Command ==
    \/ Backup
    \/ \E i \in Ids : StartExport(i) \/ StartImport(i) \/ StartDelete(i) \/ StartReindex(i)
    \/ ExportTurns \/ ExportMemories
    \/ ImportTurn \/ ImportMemories
    \/ StartReset \/ ListSessions
    \/ DeleteRow \/ DeleteAllRows
    \/ \E i \in Ids : PurgeSession(i)
    \/ PurgePersona \/ PurgeFails
    \/ ReindexSession \/ ReindexPersona
    \/ \E all \in BOOLEAN : DropSessionMemory(all)
    \/ DropPersonaMemory
    \/ KillCommand

Next == ApiStep \/ Command

Spec == Init /\ [][Next]_vars

-----------------------------------------------------------------------------
(* Properties *)

Texts(rows) == {m.text : m \in rows}
TurnTexts(turns) == [k \in DOMAIN turns |-> turns[k].text]

\* No history holds a turn or a memory twice, whatever was killed, retried,
\* deleted and imported again, and whoever plays on the half-imported session
\* (import_session, cli.py: an id that exists is refused).
ImportedOnce ==
    \A i \in Ids :
        /\ IsInjective(TurnTexts(db[i].turns))
        /\ \A m, n \in db[i].memories : m.text = n.text => m = n

\* "nothing outlives its SQLite source of truth" (_delete_session_vectors,
\* cli.py): while commands and the API take turns and no call fails, every
\* point belongs to a stored memory, after any sequence of rerolls, imports,
\* deletions and rebuilds.
NothingOutlivesItsSource ==
    calm /\ tool.step = "idle" /\ jobs = {} =>
        \A p \in points : \E m \in db[p.session].memories : p = PointOf(p.collection, p.session, m)

\* An import that nobody disturbs brings back every turn in its order and every
\* memory of the file, be it the retry of one that was killed
\* (test_export_import_round_trip_preserves_session).
ImportIsComplete ==
    [][ImportMemories /\ alone =>
        /\ TurnTexts(db'[tool.id].turns) = TurnTexts(file.turns)
        /\ Texts(db'[tool.id].memories) = Texts(file.memories)]_vars

\* Whatever delete-session and reset-db take away is in the safety backup,
\* except what the API wrote after the command began
\* (docs/18_security_privacy_and_backups.md: a safety backup first).
SafetyNet ==
    [][\A i \in Ids : db[i].status = "active" /\ db'[i].status = "none" =>
        /\ \A m \in db[i].memories : m.created <= tool.since => m \in backup[i].memories
        /\ \A k \in DOMAIN db[i].turns : db[i].turns[k].created <= tool.since
                                            => Contains(backup[i].turns, db[i].turns[k])]_vars

\* A reindex repairs the index: whatever failed before it, a mirror, a purge or a
\* command killed midway, when it has run alone every stored memory of the session
\* that the floor admits can be found again, in both collections if it is to last
\* (docs/05_rag_memory_design.md: it repairs retrieval state).
ReindexRecovers ==
    [][ReindexPersona /\ alone =>
        LET rows == {m \in db[tool.id].memories : m.importance >= IndexFloor}
        IN PointsIn("session_memory", tool.id, rows)
           \cup PointsIn("persona_memory", tool.id, Lasting(rows)) \subseteq points']_vars

\* "Memories below this importance are persisted to SQLite but not indexed for
\* retrieval" (config.py, rag_index_importance_floor).
FloorKept ==
    \A i \in Ids : \A m \in db[i].memories :
        m.importance < IndexFloor => PointOf("session_memory", i, m) \notin points

\* What a reader of the session makes of its rows: the dialogue it recalls and
\* the memories that a reroll would take along.
Recalled(s) == SelectSeq(s.turns, LAMBDA t : t.outcome = "success")
SweptByReroll(s) == {m \in s.memories : s.turns # <<>> /\ m.created >= Last(s.turns).created}

\* Exporting and importing a session preserves it
\* (test_export_import_round_trip_preserves_session, tests/integration/
\* test_cli_sessions.py): the same dialogue is recalled, and the next reroll
\* forgets the same memories.
RoundTripPreserves ==
    [][ImportMemories /\ alone =>
        LET exported == [status |-> "active", turns |-> file.turns, memories |-> file.memories]
            imported == db'[tool.id]
        IN /\ TurnTexts(Recalled(imported)) = TurnTexts(Recalled(exported))
           /\ Texts(SweptByReroll(imported)) = Texts(SweptByReroll(exported))]_vars
=============================================================================
