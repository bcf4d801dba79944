---------------------------- MODULE SessionStart ----------------------------
(***************************************************************************)
(* From authored files to a running session.  Authors edit the content     *)
(* root, create-scenario-template fills one, validate-content judges it,   *)
(* and sessions are started, moved to other scenes and played on it while  *)
(* the files and the settings may change under them: every request reads   *)
(* the settings once, and the world, persona and scene files one by one.   *)
(***************************************************************************)
EXTENDS Scenario, Sequences

CONSTANTS
    Sessions,
    Roots,         \* what the content root may hold at first
    TemplateSlug,  \* the world of a template, and the ids of its scene and persona
    TemplateScene,
    TemplatePersona,
    TemplatePath,  \* its lore.md
    NoSession,     \* no such row; no persona override
    MaxEdits       \* bound: edits of files, overwriting templates included
ASSUME SessionStartAssumption ==
    /\ Sessions # {}
    /\ TemplateSlug \in LoadableIds \cap Ids["worlds"]
    /\ TemplateScene \in LoadableIds \cap Ids["scenes"]
    /\ TemplatePersona \in LoadableIds \cap Ids["personas"]
    /\ \A r \in Roots : IsRoot(r)
    /\ TemplatePath \in TextPaths \cap InsidePaths
    /\ MaxEdits \in Nat

VARIABLES
    root,       \* the content root
    sessions,   \* the rows
    op,         \* the request being served, with the cloud key it read
    sent,       \* observation: its latest model call, and what that carried
    template,   \* create-scenario-template: the files left to write
    edits       \* bound

vars == <<root, sessions, op, sent, template, edits>>

Providers == {"local", "cloud"}
Session == [world : Ids["worlds"], persona : Ids["personas"], scene : Ids["scenes"],
            provider : Providers,
            calm : BOOLEAN]  \* observation: no file changed since its start began
ASSUME NoSessionAssumption == NoSession \notin Session

OpPcs == {"idle", "world", "persona", "scene", "actor", "critic", "memory"}
Op == [pc : OpPcs, kind : {"start", "switch", "turn"}, session : Sessions,
       row : Session,        \* the row to write: of a start, or as a turn sees it
       override : Ids["personas"] \cup {NoSession}, key : BOOLEAN]

Tasks == {"actor", "critic", "memory"}
Call == [session : Sessions, task : Tasks, provider : Providers,
         hidden : BOOLEAN]  \* the request carries hidden facts of the content

TemplateSteps == <<"world", "scene", "persona", "lore", "manifest">>

TypeOK ==
    /\ IsRoot(root)
    /\ sessions \in [Sessions -> Session \cup {NoSession}]
    /\ op \in Op
    /\ sent \subseteq Call
    /\ template \in 0..Len(TemplateSteps)
    /\ edits \in 0..MaxEdits

NoRow == [world |-> TemplateSlug, persona |-> TemplatePersona, scene |-> TemplateScene,
          provider |-> "local", calm |-> FALSE]
IdleOp == [pc |-> "idle", kind |-> "turn", session |-> CHOOSE s \in Sessions : TRUE,
           row |-> NoRow, override |-> NoSession, key |-> FALSE]

Init ==
    /\ root \in Roots
    /\ sessions = [s \in Sessions |-> NoSession]
    /\ op = IdleOp
    /\ sent = {}
    /\ template = 0
    /\ edits = 0

-----------------------------------------------------------------------------
(* Authors and operators *)

\* a changed file spoils what sessions were checked against
Changed(newRoot) ==
    /\ newRoot # root
    /\ root' = newRoot
    /\ sessions' = [s \in Sessions |->
           IF sessions[s] = NoSession THEN NoSession ELSE [sessions[s] EXCEPT !.calm = FALSE]]
    /\ op' = [op EXCEPT !.row.calm = FALSE]
    /\ UNCHANGED sent

Edited(newRoot) ==
    /\ edits < MaxEdits
    /\ edits' = edits + 1
    /\ Changed(newRoot)
    /\ UNCHANGED template

EditCard ==
    \E k \in Kinds : \E n \in Ids[k], card \in Cards[k] \cup {Absent, Broken} :
            /\ k \in root.dirs
            /\ Edited(PutCard(root, k, n, card))

EditManifest ==
    \E m \in {Absent, Broken} \cup {{l} : l \in Listings} :
        Edited([root EXCEPT !.manifest = m])

EditDocument ==
    \E d \in Paths, text \in {"absent", "empty", "text"} :
        Edited([root EXCEPT !.docs[d] = text])

-----------------------------------------------------------------------------
(* create-scenario-template *)

\* an existing output is refused unless it may be overwritten, which is an edit
StartTemplate(overwrite) ==
    /\ template = 0
    /\ root = EmptyRoot \/ (overwrite /\ edits < MaxEdits)
    /\ edits' = IF root = EmptyRoot THEN edits ELSE edits + 1
    /\ template' = Len(TemplateSteps)
    /\ UNCHANGED <<root, sessions, op, sent>>

WorldCard ==
    [id |-> TemplateSlug, default |-> TemplateScene,
     personas |-> {TemplatePersona}, scenes |-> {TemplateScene}]
SceneCard ==
    [id |-> TemplateScene, active |-> {TemplatePersona},
     summary |-> {"tension"}, gm |-> {"agenda"}]
PersonaCard ==
    [id |-> TemplatePersona, public |-> {"voice"}, goals |-> {},
     secrets |-> {}, forbidden |-> {}, private |-> FALSE]
Manifest ==
    {[path |-> TemplatePath,
      scope |-> [k \in Kinds |-> IF k = "worlds" THEN TemplateSlug ELSE NoId]]}

\* a template holds nothing an author could not have written
ASSUME TemplateAssumption ==
    /\ WorldCard \in Cards["worlds"]
    /\ SceneCard \in Cards["scenes"]
    /\ PersonaCard \in Cards["personas"]
    /\ Manifest \subseteq Listings

TemplateFile(step) ==
    CASE step = "world" -> PutCard(root, "worlds", TemplateSlug, WorldCard)
      [] step = "scene" -> PutCard(root, "scenes", SceneStem[TemplateScene], SceneCard)
      [] step = "persona" -> PutCard(root, "personas", TemplatePersona, PersonaCard)
      [] step = "lore" -> [root EXCEPT !.docs[TemplatePath] = "text"]
      [] step = "manifest" -> [root EXCEPT !.manifest = Manifest]

\* files are written one by one
WriteTemplateFile ==
    /\ template > 0
    /\ template' = template - 1
    /\ LET step == TemplateSteps[Len(TemplateSteps) + 1 - template] IN
       IF TemplateFile(step) = root
       THEN UNCHANGED <<root, sessions, op, sent>>
       ELSE Changed(TemplateFile(step))
    /\ UNCHANGED edits

\* Variant: a retry that counts the failed file again
TemplateRetries ==
    /\ template > 0
    /\ template' = template + 1
    /\ UNCHANGED <<root, sessions, op, sent, edits>>

\* an OSError leaves the files already written
TemplateFails ==
    /\ template > 0
    /\ template' = 0
    /\ UNCHANGED <<root, sessions, op, sent, edits>>

-----------------------------------------------------------------------------
(* Requests: start-session and POST /sessions, the scene switch, a turn *)

Begin(newOp) ==
    /\ op.pc = "idle"
    /\ op' = newOp
    /\ sent' = {}
    /\ UNCHANGED <<root, sessions, template, edits>>

\* .env is read by every request, so mode and key may differ from the last one's;
\* a cloud session needs both at its start (under "ask" the client has confirmed)
CloudGate(provider, mode, key) == provider = "cloud" => mode # "off" /\ key

StartSession(s, world, persona, scene, provider) ==
    /\ sessions[s] = NoSession
    /\ \E mode \in {"off", "ask", "auto"}, key \in BOOLEAN : CloudGate(provider, mode, key)
    /\ Begin([IdleOp EXCEPT !.pc = "world", !.kind = "start", !.session = s,
                 !.row = [world |-> world, persona |-> persona, scene |-> scene,
                          provider |-> provider, calm |-> TRUE]])

SwitchScene(s, scene) ==
    /\ sessions[s] # NoSession
    /\ Begin([IdleOp EXCEPT !.pc = "world", !.kind = "switch", !.session = s,
                 !.row = [sessions[s] EXCEPT !.scene = scene]])

PlayTurn(s, override, key) ==
    /\ sessions[s] # NoSession
    /\ Begin([IdleOp EXCEPT !.pc = "world", !.kind = "turn", !.session = s,
                 !.row = sessions[s], !.override = override, !.key = key])

Keep == UNCHANGED <<root, template, edits>>

Refuse ==
    /\ op' = IdleOp
    /\ sent' = {}
    /\ UNCHANGED sessions
    /\ Keep

Proceed(pc, row) ==
    /\ op' = [op EXCEPT !.pc = pc, !.row = row]
    /\ UNCHANGED <<sessions, sent>>
    /\ Keep

\* a turn's override replaces the persona only in the row it carries
Wanted == IF op.override = NoSession THEN op.row
          ELSE [op.row EXCEPT !.persona = op.override]

WorldAllowsUnlisted ==
    /\ Loads(root, "worlds", op.row.world)
    /\ Wanted.scene \in LoadCard(root, "worlds", op.row.world).scenes

\* the world must load and list the scene; a switch does not look at the persona
WorldAllows ==
    /\ Loads(root, "worlds", op.row.world)
    /\ LET world == LoadCard(root, "worlds", op.row.world) IN
       /\ Wanted.scene \in world.scenes
       /\ op.kind # "switch" => Wanted.persona \in world.personas

ReadWorld ==
    /\ op.pc = "world"
    /\ IF WorldAllows
       THEN Proceed(IF op.kind = "switch" THEN "scene" ELSE "persona", Wanted)
       ELSE Refuse

ReadPersona ==
    /\ op.pc = "persona"
    /\ IF Loads(root, "personas", op.row.persona) THEN Proceed("scene", op.row) ELSE Refuse

\* of a start: the ingestion of its lore never fails it
CreateSession == sessions' = [sessions EXCEPT ![op.session] = op.row]

UpdateScene == sessions' = [sessions EXCEPT ![op.session].scene = op.row.scene]

\* after the last read a start inserts its row and a switch writes the scene
ReadScene ==
    /\ op.pc = "scene"
    /\ IF ~Loads(root, "scenes", op.row.scene) THEN Refuse
       ELSE IF op.kind = "turn" THEN Proceed("actor", op.row)
       ELSE /\ IF op.kind = "start" THEN CreateSession ELSE UpdateScene
            /\ op' = IdleOp
            /\ UNCHANGED sent
            /\ Keep

ResolveOrLocal(provider, key) ==
    IF provider = "cloud" /\ ~key THEN {"local"} ELSE {provider}

\* resolve_provider: a cloud route without a cloud provider is an error
Resolve(provider, key) ==
    IF provider = "cloud" /\ ~key THEN {} ELSE {provider}

\* the critic of a local session is the only one shown the hidden facts
IncludeHidden(task, provider) == task = "critic" /\ provider = "local"

\* choose_route: every task runs on the session's provider
CallModel(task, next) ==
    \E provider \in Resolve(op.row.provider, op.key) :
        /\ sent' = {[session |-> op.session, task |-> task, provider |-> provider,
                               hidden |-> IncludeHidden(task, provider)]}
        /\ op' = next

Act ==
    /\ op.pc = "actor"
    /\ CallModel("actor", [op EXCEPT !.pc = "critic"])
    /\ UNCHANGED sessions
    /\ Keep

CommitPersona == sessions' = [sessions EXCEPT ![op.session].persona = op.row.persona]

\* accepted: the turn is persisted, its override with it, and curation is deferred
Critique ==
    /\ op.pc = "critic"
    /\ CallModel("critic", [op EXCEPT !.pc = "memory"])
    /\ CommitPersona
    /\ Keep

\* rejected: the repair is another call of the actor's task
AskRepair ==
    /\ op.pc = "critic"
    /\ CallModel("critic", [op EXCEPT !.pc = "actor"])
    /\ UNCHANGED sessions
    /\ Keep

\* gated: nobody reads the draft
SkipCritique ==
    /\ op.pc = "critic"
    /\ op' = [op EXCEPT !.pc = "memory"]
    /\ CommitPersona
    /\ UNCHANGED sent
    /\ Keep

CurateMemories ==
    /\ op.pc = "memory"
    /\ CallModel("memory", IdleOp)
    /\ UNCHANGED sessions
    /\ Keep

\* a provider that is missing or fails ends the request
ProviderFails ==
    /\ op.pc \in Tasks
    /\ Refuse

Next ==
    \/ EditCard \/ EditManifest \/ EditDocument
    \/ \E overwrite \in BOOLEAN : StartTemplate(overwrite)
    \/ WriteTemplateFile \/ TemplateFails
    \/ \E s \in Sessions :
        \/ \E w \in Ids["worlds"], p \in Ids["personas"], c \in Ids["scenes"],
               v \in Providers : StartSession(s, w, p, c, v)
        \/ \E c \in Ids["scenes"] : SwitchScene(s, c)
        \/ \E p \in Ids["personas"] \cup {NoSession}, key \in BOOLEAN : PlayTurn(s, p, key)
    \/ ReadWorld \/ ReadPersona \/ ReadScene
    \/ Act \/ Critique \/ AskRepair \/ SkipCritique \/ CurateMemories \/ ProviderFails

Spec == Init /\ [][Next]_vars

-----------------------------------------------------------------------------
(* Properties *)

\* each card in the file its loader will look for
WellNamed ==
    \A k \in Kinds : \A n \in Readable(root, k) :
        LET id == root.files[k][n].id IN id \in LoadableIds /\ Stem(k, id) = n

Plays(world) ==
    /\ Loads(root, "worlds", world)
    /\ LET card == LoadCard(root, "worlds", world) IN
       /\ card.id = world
       /\ card.default \in card.scenes
       /\ \A p \in card.personas :
              Loads(root, "personas", p) /\ LoadCard(root, "personas", p).id = p
       /\ \A c \in card.scenes :
              Loads(root, "scenes", c) /\ LoadCard(root, "scenes", c).id = c

(* Content that validates can be played: as long as every card sits in the  *)
(* file named for its id, a report without errors means that the catalog is *)
(* served and that each world it looked at loads, with every persona and    *)
(* every scene a start, an override or a scene switch may ask for, each     *)
(* under its own id; and that the ingestion at session start gets through   *)
(* the manifest, if the documents are not empty (the validator does not     *)
(* open them).  The validator knows cards by id and the loader by file      *)
(* name, and each decides alone which documents it takes, in pieces of code *)
(* that share nothing.                                                      *)
(* (A matter of the root alone: looked at while no request is served.)      *)
ValidatedContentPlays ==
    op.pc = "idle" =>
        /\ WellNamed => \A only \in {AllWorlds} \cup Ids["worlds"] :
               Status(root, only) # "fail" =>
                   /\ CatalogLoads(root)
                   /\ \A w \in SelectedWorlds(root, only) : Plays(w)
        /\ root.manifest # Absent /\ Status(root, AllWorlds) # "fail"
               /\ (\A d \in Paths : root.docs[d] # "empty")
               => LoreIngests(root)

(* A session whose files did not change since its start began can always be *)
(* loaded by the next turn: its world lists its persona and its scene and   *)
(* the three files open, whatever sequence of starts, refused requests,     *)
(* scene switches and persona overrides led to the row.                     *)
StartedSessionPlays ==
    \A s \in Sessions :
        sessions[s] # NoSession /\ sessions[s].calm =>
            LET row == sessions[s] IN
            /\ Loads(root, "worlds", row.world)
            /\ row.persona \in LoadCard(root, "worlds", row.world).personas
            /\ row.scene \in LoadCard(root, "worlds", row.world).scenes
            /\ Loads(root, "personas", row.persona)
            /\ Loads(root, "scenes", row.scene)

(* Every model call of a session goes to the provider the session was bound *)
(* to, although the key and the mode may change at any time, and no hidden  *)
(* fact of the content is in a call to the cloud.                           *)
CallsFollowBinding ==
    \A c \in sent :
        /\ c.provider = sessions[c.session].provider
        /\ c.hidden => c.provider = "local"
=============================================================================
