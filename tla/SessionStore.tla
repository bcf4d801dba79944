---------------------------- MODULE SessionStore ----------------------------
(***************************************************************************)
(* The SQLite side of RoleRAG: one session row, its turn rows and its      *)
(* memory_episodes rows, and the repository methods that change them.      *)
(* Every operator below is one committed statement (or one handler's read) *)
(* of app/persistence/repositories.py; the modules that extend this one    *)
(* say in which order, and between which awaits, they run.                 *)
(*                                                                         *)
(* Time is a logical clock: utc_now() is read once per insert and never    *)
(* returns the same value twice, so a created stamp also identifies a row. *)
(* One memory row stands for the rows of one append_memories call, which   *)
(* share their created_at, source turn, scene and actor.                   *)
(***************************************************************************)
EXTENDS Naturals, FiniteSets

CONSTANTS
    Personas,          \* the persona ids of the session's world
    Scenes,            \* the scene ids of the session's world
    InitialPersona,    \* the persona the session was created with
    InitialScene       \* the scene the session was created in

ASSUME WorldAssumption ==
    /\ InitialPersona \in Personas
    /\ InitialScene \in Scenes

VARIABLES
    session,    \* the row of sessions: status, active persona, active scene
    turns,      \* the rows of turns
    memories,   \* the rows of memory_episodes
    turnSeq,    \* the last AUTOINCREMENT id given to a turn; never reused
    clock       \* the last value utc_now() returned

storeVars == <<session, turns, memories, turnSeq, clock>>

Outcomes == {"success", "controlled_failure"}

\* diagnostics_json: NULL, or its memory_written flag
Diagnostics == {"unset", "unwritten", "written"}

\* a memory is either foldable ("minor"), protected by its importance or its
\* tags ("durable"), or itself a roll-up of others ("summary")
Kinds == {"minor", "durable", "summary"}

SessionRow == [status : {"live", "deleted"}, persona : Personas, scene : Scenes]

TurnRow == [id : Nat, index : Nat, scene : Scenes, persona : Personas,
            outcome : Outcomes, created : Nat, diagnostics : Diagnostics]

MemoryRow == [created : Nat, source : Nat, scene : Scenes, actor : Personas,
              kind : Kinds, consolidated : BOOLEAN, sources : SUBSET Nat]

StoreTypeOK ==
    /\ session \in SessionRow
    /\ turns \in SUBSET TurnRow
    /\ memories \in SUBSET MemoryRow
    /\ turnSeq \in Nat
    /\ clock \in Nat

StoreInit ==
    /\ session = [status |-> "live", persona |-> InitialPersona, scene |-> InitialScene]
    /\ turns = {}
    /\ memories = {}
    /\ turnSeq = 0
    /\ clock = 0

-----------------------------------------------------------------------------
(* sessions *)

\* get_session() is not None; a foreign key to the row is satisfied
SessionLive == session.status = "live"

UpdateActivePersona(p) == session' = [session EXCEPT !.persona = p]

UpdateActiveScene(s) == session' = [session EXCEPT !.scene = s]

\* DELETE FROM sessions: ON DELETE CASCADE takes the turns and the memories
DeleteSessionRow ==
    /\ session' = [session EXCEPT !.status = "deleted"]
    /\ turns' = {}
    /\ memories' = {}
    /\ UNCHANGED <<turnSeq, clock>>

-----------------------------------------------------------------------------
(* turns *)

SuccessTurns == {t \in turns : t.outcome = "success"}

\* ORDER BY turn_index DESC LIMIT 1
IsLast(t, rows) == t \in rows /\ \A u \in rows : u.index <= t.index
LastTurn(rows) == CHOOSE t \in rows : IsLast(t, rows)

\* Variant: number by the rows the recent-dialogue query can see
SuccessCountIndex == Cardinality(SuccessTurns) + 1

\* COALESCE(MAX(turn_index), 0) + 1, evaluated inside the INSERT
NextIndex == IF turns = {} THEN 1 ELSE LastTurn(turns).index + 1

\* append_turn: stamp, number and insert one row
AppendTurn(s, p, o) ==
    /\ turns' = turns \cup
         {[id |-> turnSeq + 1, index |-> NextIndex, scene |-> s, persona |-> p,
           outcome |-> o, created |-> clock + 1, diagnostics |-> "unset"]}
    /\ turnSeq' = turnSeq + 1
    /\ clock' = clock + 1

\* update_turn_diagnostics with memory_written = False; no row, no effect
UpdateTurnDiagnostics(id) ==
    turns' = {IF t.id = id THEN [t EXCEPT !.diagnostics = "unwritten"] ELSE t : t \in turns}

\* append_memory_outcome: a vanished row, or one whose diagnostics were never
\* written, is left alone
AppendMemoryOutcome(id, written) ==
    turns' = {IF t.id = id /\ t.diagnostics # "unset"
              THEN [t EXCEPT !.diagnostics = IF written THEN "written" ELSE "unwritten"]
              ELSE t : t \in turns}

\* Variant: with no successful turn left there is no active persona
RestoreOrClear(row) ==
    IF row.outcome = "success" /\ SessionLive /\ SuccessTurns = {}
    THEN UpdateActivePersona("none")
    ELSE UNCHANGED session

\* Variant: walk back over every remaining row, whatever its outcome
RestoreAnyOutcome(row) ==
    IF turns = {} \/ session.persona # row.persona
    THEN UNCHANGED session
    ELSE UpdateActivePersona(LastTurn(turns).persona)

\* restore_persona_after_turn_delete, called once the row is gone from turns
RestorePersona(row) ==
    IF \/ row.outcome # "success"
       \/ ~SessionLive
       \/ session.persona # row.persona
       \/ SuccessTurns = {}
    THEN UNCHANGED session
    ELSE UpdateActivePersona(LastTurn(SuccessTurns).persona)

-----------------------------------------------------------------------------
(* memory_episodes *)

\* append_memories: one stamped row
AppendMemory(source, s, a, kind, sources) ==
    /\ clock' = clock + 1
    /\ memories' = memories \cup
         {[created |-> clock + 1, source |-> source, scene |-> s, actor |-> a,
           kind |-> kind, consolidated |-> FALSE, sources |-> sources]}

\* add_tag_to_memories(ids, "consolidated"): rows that are gone stay gone
MarkConsolidated(ids) ==
    memories' = {IF m.created \in ids THEN [m EXCEPT !.consolidated = TRUE] ELSE m :
                   m \in memories}

\* Variant: the sweep spares the first row stamped after the turn
KeepThroughStamp(stamp) == {m \in memories : m.created <= stamp + 1}

\* what delete_memories_since(created_at) leaves: rows stamped before it
MemoriesBefore(stamp) == {m \in memories : m.created < stamp}
=============================================================================
