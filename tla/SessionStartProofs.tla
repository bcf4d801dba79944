------------------------- MODULE SessionStartProofs -------------------------
(***************************************************************************)
(* Proofs about SessionStart, for every set of sessions, every content     *)
(* root, every card an author may write and any number of edits.           *)
(*                                                                         *)
(* A request reads the settings once and the files one by one; what it has *)
(* already seen is true of the files only while nobody edits them.  That   *)
(* is what Bound and PlaysAsFarAsRead say of the request being served.     *)
(***************************************************************************)
EXTENDS SessionStart, TLAPS

\* the row's world opens and lists its scene; and its persona
ListsScene(row) ==
    /\ Loads(root, "worlds", row.world)
    /\ row.scene \in LoadCard(root, "worlds", row.world).scenes
ListsBoth(row) ==
    /\ ListsScene(row)
    /\ row.persona \in LoadCard(root, "worlds", row.world).personas
RowPlays(row) ==
    /\ ListsBoth(row)
    /\ Loads(root, "personas", row.persona)
    /\ Loads(root, "scenes", row.scene)

(* The row a request carries is that of its session, but for what the       *)
(* request is there to change; a start has no session yet.  Only a turn     *)
(* calls a model.                                                           *)
Bound ==
    op.pc # "idle" =>
        /\ op.kind = "start" <=> sessions[op.session] = NoSession
        /\ op.kind # "start" =>
               /\ op.row.world = sessions[op.session].world
               /\ op.row.provider = sessions[op.session].provider
               /\ op.row.calm = sessions[op.session].calm
        /\ op.kind = "turn" => op.row.scene = sessions[op.session].scene
        /\ op.pc \in Tasks => op.kind = "turn"

\* what the request has read still holds, if no file changed
PlaysAsFarAsRead ==
    op.row.calm =>
        /\ op.pc = "persona" => ListsBoth(op.row)
        /\ op.pc = "scene" => ListsScene(op.row)
        /\ op.pc = "scene" /\ op.kind # "switch" =>
               ListsBoth(op.row) /\ Loads(root, "personas", op.row.persona)
        /\ op.pc \in Tasks => RowPlays(op.row)

\* a call was made for a session that exists
CallsOfSessions == \A c \in sent : sessions[c.session] # NoSession

-----------------------------------------------------------------------------
(* Types *)

\* What the assumptions say of the ids.
LEMMA IdsTyped ==
    /\ DOMAIN Ids = Kinds
    /\ TemplateSlug \in Ids["worlds"] /\ TemplateScene \in Ids["scenes"]
    /\ TemplatePersona \in Ids["personas"]
    /\ SceneStem[TemplateScene] \in Ids["scenes"]
    /\ TemplatePath \in Paths
  BY ScenarioAssumption, SessionStartAssumption DEF Kinds

\* A card an author may write, in a file an author may name, leaves a content root.
LEMMA PutCardIsRoot ==
    ASSUME NEW r, IsRoot(r), NEW k \in Kinds, NEW n \in Ids[k],
           NEW card \in Cards[k] \cup {Absent, Broken}
    PROVE  IsRoot(PutCard(r, k, n, card))
  <1> DEFINE new == PutCard(r, k, n, card)
  <1>1. /\ new.dirs = r.dirs \cup {k}
        /\ new.files = [r.files EXCEPT ![k][n] = card]
        /\ new.manifest = r.manifest /\ new.docs = r.docs
        /\ DOMAIN new = DOMAIN r
    BY DEF IsRoot, PutCard
  <1>2. ASSUME NEW j \in Kinds
        PROVE  new.files[j] \in [Ids[j] -> Cards[j] \cup {Absent, Broken}]
    <2>1. CASE j = k
      BY <1>1, <2>1 DEF IsRoot
    <2>2. CASE j # k
      BY <1>1, <2>2 DEF IsRoot
    <2> QED BY <2>1, <2>2
  <1>3. DOMAIN new.files = Kinds
    BY <1>1 DEF IsRoot
  <1> HIDE DEF new
  <1>4. IsRoot(new)
    BY <1>1, <1>2, <1>3 DEF IsRoot
  <1> QED BY <1>4 DEF new

\* The manifest and a document may be replaced.
LEMMA PutTextIsRoot ==
    ASSUME NEW r, IsRoot(r)
    PROVE  /\ \A m \in {Absent, Broken} \cup SUBSET Listings :
                  IsRoot([r EXCEPT !.manifest = m])
           /\ \A d \in Paths, text \in {"absent", "empty", "text"} :
                  IsRoot([r EXCEPT !.docs[d] = text])
  <1>1. ASSUME NEW m \in {Absent, Broken} \cup SUBSET Listings
        PROVE  IsRoot([r EXCEPT !.manifest = m])
    BY DEF IsRoot
  <1>2. ASSUME NEW d \in Paths, NEW text \in {"absent", "empty", "text"}
        PROVE  IsRoot([r EXCEPT !.docs[d] = text])
    BY DEF IsRoot
  <1> QED BY <1>1, <1>2

LEMMA EmptyRootIsRoot == IsRoot(EmptyRoot)
  BY DEF IsRoot, EmptyRoot, Kinds

\* A file of the template leaves a content root.
LEMMA TemplateFileIsRoot ==
    ASSUME IsRoot(root),
           NEW step \in {"world", "scene", "persona", "lore", "manifest"}
    PROVE  IsRoot(TemplateFile(step))
  <1>1. CASE step = "world"
    BY <1>1, PutCardIsRoot, IdsTyped, TemplateAssumption DEF TemplateFile, Kinds
  <1>2. CASE step = "scene"
    BY <1>2, PutCardIsRoot, IdsTyped, TemplateAssumption DEF TemplateFile, Kinds
  <1>3. CASE step = "persona"
    BY <1>3, PutCardIsRoot, IdsTyped, TemplateAssumption DEF TemplateFile, Kinds
  <1>4. CASE step = "lore"
    BY <1>4, PutTextIsRoot, IdsTyped DEF TemplateFile
  <1>5. CASE step = "manifest"
    BY <1>5, PutTextIsRoot, TemplateAssumption DEF TemplateFile
  <1> QED BY <1>1, <1>2, <1>3, <1>4, <1>5

\* Steps are written in the order of the list, whatever is left of it.
LEMMA TemplateStepKnown ==
    ASSUME template \in 0..Len(TemplateSteps), template > 0
    PROVE  /\ TemplateSteps[Len(TemplateSteps) + 1 - template]
                  \in {"world", "scene", "persona", "lore", "manifest"}
           /\ template - 1 \in 0..Len(TemplateSteps)
  BY DEF TemplateSteps

\* The idle request.
LEMMA IdleOpTyped ==
    /\ IdleOp \in Op
    /\ IdleOp.pc = "idle" /\ IdleOp.row.calm = FALSE
  <1>1. (CHOOSE s \in Sessions : TRUE) \in Sessions
    BY SessionStartAssumption
  <1> DEFINE some == CHOOSE s \in Sessions : TRUE
  <1> HIDE DEF some
  <1>2. NoRow \in Session
    BY IdsTyped DEF NoRow, Session, Providers
  <1>3. IdleOp = [pc |-> "idle", kind |-> "turn", session |-> some,
                  row |-> NoRow, override |-> NoSession, key |-> FALSE]
    BY DEF IdleOp, some
  <1>4. some \in Sessions
    BY <1>1 DEF some
  <1>5. NoRow.calm = FALSE
    BY DEF NoRow
  <1> QED BY <1>2, <1>3, <1>4, <1>5 DEF Op, OpPcs

\* The fields of the request and of the rows.
LEMMA Fields ==
    ASSUME TypeOK
    PROVE  /\ op.session \in Sessions /\ op.row \in Session /\ op.key \in BOOLEAN
           /\ op.pc \in OpPcs /\ op.kind \in {"start", "switch", "turn"}
           /\ op.override \in Ids["personas"] \cup {NoSession}
           /\ \A s \in Sessions : sessions[s] # NoSession => sessions[s] \in Session
  BY DEF TypeOK, Op

\* An edit of the files keeps the types: it only clears what calm observes.
LEMMA ChangedTyped ==
    ASSUME TypeOK, NEW newRoot, IsRoot(newRoot), Changed(newRoot)
    PROVE  /\ IsRoot(root') /\ sent' \subseteq Call /\ op' \in Op
           /\ sessions' \in [Sessions -> Session \cup {NoSession}]
  <1>1. \A s \in Sessions : sessions[s] # NoSession =>
            [sessions[s] EXCEPT !.calm = FALSE] \in Session
    BY Fields DEF Session
  <1>2. sessions' \in [Sessions -> Session \cup {NoSession}]
    BY <1>1 DEF Changed
  <1>3. op' \in Op
    <2>1. [op.row EXCEPT !.calm = FALSE] \in Session
      BY Fields DEF Session
    <2>2. op' = [op EXCEPT !.row = [op.row EXCEPT !.calm = FALSE]]
      BY DEF Changed, TypeOK, Op
    <2> DEFINE row == [op.row EXCEPT !.calm = FALSE]
    <2> HIDE DEF row
    <2>3. op' = [op EXCEPT !.row = row] /\ row \in Session
      BY <2>1, <2>2 DEF row
    <2> QED BY <2>3 DEF TypeOK, Op
  <1> QED BY <1>2, <1>3 DEF Changed, TypeOK

\* A step of the request with these primed values keeps the types.
LEMMA RequestTyped ==
    ASSUME TypeOK,
           \/ op' \in Op /\ sent' \subseteq Call /\ UNCHANGED sessions
           \/ /\ op' \in Op /\ sent' \subseteq Call
              /\ sessions' \in [Sessions -> Session \cup {NoSession}],
           UNCHANGED <<root, template, edits>>
    PROVE  TypeOK'
  BY DEF TypeOK

\* The row a turn or a switch goes on with.
LEMMA WantedTyped ==
    ASSUME TypeOK
    PROVE  /\ Wanted \in Session
           /\ Wanted.world = op.row.world /\ Wanted.scene = op.row.scene
           /\ Wanted.provider = op.row.provider /\ Wanted.calm = op.row.calm
  <1>1. op.row \in Session /\ op.override \in Ids["personas"] \cup {NoSession}
    BY Fields
  <1> QED BY <1>1 DEF Wanted, Session

\* What a model call writes.
LEMMA CallTyped ==
    ASSUME TypeOK, NEW task \in Tasks, NEW next \in Op, CallModel(task, next)
    PROVE  op' = next /\ sent' \subseteq Call
  <1>1. PICK provider \in Resolve(op.row.provider, op.key) :
            /\ sent' = {[session |-> op.session, task |-> task, provider |-> provider,
                         hidden |-> IncludeHidden(task, provider)]}
            /\ op' = next
    BY DEF CallModel
  <1>2. provider \in Providers /\ IncludeHidden(task, provider) \in BOOLEAN
    BY <1>1, Fields DEF Resolve, Session, IncludeHidden
  <1> QED BY <1>1, <1>2, Fields DEF Call

\* A turn's persona is written to a session of which there is a row.
LEMMA CommitTyped ==
    ASSUME TypeOK, CommitPersona, sessions[op.session] # NoSession
    PROVE  sessions' \in [Sessions -> Session \cup {NoSession}]
  <1>1. op.session \in Sessions /\ op.row.persona \in Ids["personas"]
        /\ sessions[op.session] \in Session
    BY Fields DEF Session
  <1>2. [sessions[op.session] EXCEPT !.persona = op.row.persona] \in Session
    BY <1>1 DEF Session
  <1>3. sessions' = [sessions EXCEPT ![op.session] =
                        [sessions[op.session] EXCEPT !.persona = op.row.persona]]
    BY DEF CommitPersona
  <1> QED BY <1>1, <1>2, <1>3 DEF TypeOK

-----------------------------------------------------------------------------
(* What each step writes *)

FilesStep ==
    \/ EditCard \/ EditManifest \/ EditDocument
    \/ \E overwrite \in BOOLEAN : StartTemplate(overwrite)
    \/ WriteTemplateFile \/ TemplateFails

BeginStep(s) ==
    \/ \E w \in Ids["worlds"], p \in Ids["personas"], c \in Ids["scenes"],
           v \in Providers : StartSession(s, w, p, c, v)
    \/ \E c \in Ids["scenes"] : SwitchScene(s, c)
    \/ \E p \in Ids["personas"] \cup {NoSession}, key \in BOOLEAN : PlayTurn(s, p, key)

ModelStep == Act \/ Critique \/ AskRepair \/ SkipCritique \/ CurateMemories

LEMMA NextParts ==
    Next <=> \/ FilesStep \/ \E s \in Sessions : BeginStep(s)
             \/ ReadWorld \/ ReadPersona \/ ReadScene \/ ModelStep \/ ProviderFails
  BY DEF Next, FilesStep, BeginStep, ModelStep

\* Authors and the template generator change the files to others of a content root,
\* or touch nothing that a request sees.
LEMMA FilesWrite ==
    ASSUME TypeOK, FilesStep
    PROVE  /\ template' \in 0..Len(TemplateSteps) /\ edits' \in 0..MaxEdits
           /\ \/ \E newRoot : IsRoot(newRoot) /\ Changed(newRoot)
              \/ UNCHANGED <<root, sessions, op, sent>>
  <1>1. IsRoot(root) /\ MaxEdits \in Nat /\ edits \in 0..MaxEdits
        /\ template \in 0..Len(TemplateSteps) /\ Len(TemplateSteps) = 5
    BY SessionStartAssumption DEF TypeOK, TemplateSteps
  <1>2. ASSUME NEW newRoot, IsRoot(newRoot), Edited(newRoot)
        PROVE  /\ template' \in 0..Len(TemplateSteps) /\ edits' \in 0..MaxEdits
               /\ IsRoot(newRoot) /\ Changed(newRoot)
    BY <1>1, <1>2 DEF Edited
  <1>3. CASE EditCard
    <2>1. PICK k \in Kinds : \E n \in Ids[k], card \in Cards[k] \cup {Absent, Broken} :
              Edited(PutCard(root, k, n, card))
      BY <1>3 DEF EditCard
    <2>2. PICK n \in Ids[k], card \in Cards[k] \cup {Absent, Broken} :
              Edited(PutCard(root, k, n, card))
      BY <2>1
    <2>3. IsRoot(PutCard(root, k, n, card))
      BY <1>1, PutCardIsRoot
    <2> QED BY <2>2, <2>3, <1>2
  <1>4. CASE EditManifest
    <2>1. PICK m \in {Absent, Broken} \cup {{l} : l \in Listings} :
              Edited([root EXCEPT !.manifest = m])
      BY <1>4 DEF EditManifest
    <2>2. m \in {Absent, Broken} \cup SUBSET Listings
      OBVIOUS
    <2>3. IsRoot([root EXCEPT !.manifest = m])
      BY <1>1, <2>2, PutTextIsRoot
    <2> QED BY <2>1, <2>3, <1>2
  <1>5. CASE EditDocument
    <2>1. PICK d \in Paths, text \in {"absent", "empty", "text"} :
              Edited([root EXCEPT !.docs[d] = text])
      BY <1>5 DEF EditDocument
    <2>2. IsRoot([root EXCEPT !.docs[d] = text])
      BY <1>1, PutTextIsRoot
    <2> QED BY <2>1, <2>2, <1>2
  <1>6. ASSUME NEW overwrite \in BOOLEAN, StartTemplate(overwrite)
        PROVE  /\ template' \in 0..Len(TemplateSteps) /\ edits' \in 0..MaxEdits
               /\ UNCHANGED <<root, sessions, op, sent>>
    BY <1>1, <1>6 DEF StartTemplate
  <1>7. CASE WriteTemplateFile
    <2> DEFINE new == TemplateFile(TemplateSteps[Len(TemplateSteps) + 1 - template])
    <2>1. IsRoot(new)
      BY <1>1, <1>7, TemplateStepKnown, TemplateFileIsRoot DEF WriteTemplateFile
    <2>2. Changed(new) \/ UNCHANGED <<root, sessions, op, sent>>
      BY <1>7 DEF WriteTemplateFile
    <2>3. template' \in 0..Len(TemplateSteps) /\ edits' = edits
      BY <1>1, <1>7, TemplateStepKnown DEF WriteTemplateFile
    <2> HIDE DEF new
    <2> QED BY <1>1, <2>1, <2>2, <2>3
  <1>8. CASE TemplateFails
    BY <1>1, <1>8 DEF TemplateFails
  <1> QED BY <1>2, <1>3, <1>4, <1>5, <1>6, <1>7, <1>8 DEF FilesStep

\* An edit spoils calm and leaves every other field as it was.
LEMMA ChangedFields ==
    ASSUME TypeOK, NEW newRoot, Changed(newRoot)
    PROVE  /\ op'.pc = op.pc /\ op'.kind = op.kind /\ op'.session = op.session
           /\ op'.row.world = op.row.world /\ op'.row.scene = op.row.scene
           /\ op'.row.provider = op.row.provider /\ op'.row.calm = FALSE
           /\ \A s \in Sessions :
                  /\ sessions'[s] = NoSession <=> sessions[s] = NoSession
                  /\ sessions[s] # NoSession =>
                         /\ sessions'[s].world = sessions[s].world
                         /\ sessions'[s].scene = sessions[s].scene
                         /\ sessions'[s].provider = sessions[s].provider
                         /\ sessions'[s].calm = FALSE
           /\ sent' = sent
  <1>1. op.row \in Session /\ op \in Op
    BY Fields DEF TypeOK
  <1>2. /\ op'.pc = op.pc /\ op'.kind = op.kind /\ op'.session = op.session
        /\ op'.row = [op.row EXCEPT !.calm = FALSE]
    BY <1>1 DEF Changed, Op
  <1>3. ASSUME NEW s \in Sessions
        PROVE  /\ sessions'[s] = NoSession <=> sessions[s] = NoSession
               /\ sessions[s] # NoSession =>
                      /\ sessions'[s].world = sessions[s].world
                      /\ sessions'[s].scene = sessions[s].scene
                      /\ sessions'[s].provider = sessions[s].provider
                      /\ sessions'[s].calm = FALSE
    <2>1. CASE sessions[s] = NoSession
      BY <2>1 DEF Changed
    <2>2. CASE sessions[s] # NoSession
      <3>1. sessions[s] \in Session
        BY <2>2, Fields
      <3>2. sessions'[s] = [sessions[s] EXCEPT !.calm = FALSE]
        BY <2>2 DEF Changed
      <3>3. sessions'[s] \in Session
        BY <3>1, <3>2 DEF Session
      <3> QED BY <3>1, <3>2, <3>3, <2>2, NoSessionAssumption DEF Session
    <2> QED BY <2>1, <2>2
  <1>4. op'.row.world = op.row.world /\ op'.row.scene = op.row.scene
        /\ op'.row.provider = op.row.provider /\ op'.row.calm = FALSE
    BY <1>1, <1>2 DEF Session
  <1> QED BY <1>2, <1>3, <1>4 DEF Changed

\* A request begins from an idle process and asks for a row of ids.
LEMMA BeginWrites ==
    ASSUME TypeOK, NEW s \in Sessions, BeginStep(s)
    PROVE  /\ op.pc = "idle" /\ op' \in Op /\ sent' = {}
           /\ op'.pc = "world" /\ op'.session = s
           /\ op'.kind = "start" <=> sessions[s] = NoSession
           /\ op'.kind # "start" =>
                  /\ op'.row.world = sessions[s].world
                  /\ op'.row.provider = sessions[s].provider
                  /\ op'.row.calm = sessions[s].calm
           /\ op'.kind = "turn" => op'.row.scene = sessions[s].scene
           /\ UNCHANGED <<root, sessions, template, edits>>
  <1>1. IdleOp \in Op
    BY IdleOpTyped
  <1>2. ASSUME NEW w \in Ids["worlds"], NEW p \in Ids["personas"], NEW c \in Ids["scenes"],
               NEW v \in Providers, StartSession(s, w, p, c, v)
        PROVE  /\ op.pc = "idle" /\ op' \in Op /\ sent' = {}
               /\ op'.pc = "world" /\ op'.session = s /\ op'.kind = "start"
               /\ sessions[s] = NoSession
               /\ UNCHANGED <<root, sessions, template, edits>>
    <2> DEFINE row == [world |-> w, persona |-> p, scene |-> c, provider |-> v, calm |-> TRUE]
    <2>1. row \in Session
      BY DEF Session
    <2> HIDE DEF row
    <2>2. op' = [IdleOp EXCEPT !.pc = "world", !.kind = "start", !.session = s, !.row = row]
      BY <1>2 DEF StartSession, Begin, row
    <2>3. op' \in Op /\ op'.pc = "world" /\ op'.session = s /\ op'.kind = "start"
      BY <1>1, <2>1, <2>2 DEF Op, OpPcs
    <2> QED BY <1>2, <2>3 DEF StartSession, Begin
  <1>3. ASSUME NEW c \in Ids["scenes"], SwitchScene(s, c)
        PROVE  /\ op.pc = "idle" /\ op' \in Op /\ sent' = {}
               /\ op'.pc = "world" /\ op'.session = s /\ op'.kind = "switch"
               /\ sessions[s] # NoSession
               /\ op'.row.world = sessions[s].world
               /\ op'.row.provider = sessions[s].provider
               /\ op'.row.calm = sessions[s].calm
               /\ UNCHANGED <<root, sessions, template, edits>>
    <2> DEFINE row == [sessions[s] EXCEPT !.scene = c]
    <2>1. sessions[s] \in Session /\ sessions[s] # NoSession
      BY <1>3, Fields DEF SwitchScene
    <2>2. row \in Session /\ row.world = sessions[s].world
          /\ row.provider = sessions[s].provider /\ row.calm = sessions[s].calm
      BY <2>1 DEF Session
    <2> HIDE DEF row
    <2>3. op' = [IdleOp EXCEPT !.pc = "world", !.kind = "switch", !.session = s, !.row = row]
      BY <1>3 DEF SwitchScene, Begin, row
    <2>4. op' \in Op /\ op'.pc = "world" /\ op'.session = s /\ op'.kind = "switch"
          /\ op'.row = row
      BY <1>1, <2>2, <2>3 DEF Op, OpPcs
    <2> QED BY <1>3, <2>1, <2>2, <2>4 DEF SwitchScene, Begin
  <1>4. ASSUME NEW p \in Ids["personas"] \cup {NoSession}, NEW key \in BOOLEAN,
               PlayTurn(s, p, key)
        PROVE  /\ op.pc = "idle" /\ op' \in Op /\ sent' = {}
               /\ op'.pc = "world" /\ op'.session = s /\ op'.kind = "turn"
               /\ sessions[s] # NoSession /\ op'.row = sessions[s]
               /\ UNCHANGED <<root, sessions, template, edits>>
    <2>1. sessions[s] \in Session /\ sessions[s] # NoSession
      BY <1>4, Fields DEF PlayTurn
    <2>2. op' \in Op /\ op'.pc = "world" /\ op'.session = s /\ op'.kind = "turn"
          /\ op'.row = sessions[s]
      BY <1>1, <1>4, <2>1 DEF PlayTurn, Begin, Op, OpPcs
    <2> QED BY <1>4, <2>1, <2>2 DEF PlayTurn, Begin
  <1>5. CASE \E w \in Ids["worlds"], p \in Ids["personas"], c \in Ids["scenes"],
                v \in Providers : StartSession(s, w, p, c, v)
    BY <1>2, <1>5
  <1>6. CASE \E c \in Ids["scenes"] : SwitchScene(s, c)
    BY <1>3, <1>6
  <1>7. CASE \E p \in Ids["personas"] \cup {NoSession}, key \in BOOLEAN : PlayTurn(s, p, key)
    BY <1>4, <1>7
  <1> QED BY <1>5, <1>6, <1>7 DEF BeginStep

\* A refused request leaves the sessions as they were.
LEMMA RefuseWrites ==
    ASSUME TypeOK, Refuse
    PROVE  /\ op' \in Op /\ op'.pc = "idle" /\ op'.row.calm = FALSE /\ sent' = {}
           /\ UNCHANGED <<root, sessions, template, edits>>
  BY IdleOpTyped DEF Refuse, Keep

\* Going on with the next file.
LEMMA ProceedWrites ==
    ASSUME TypeOK, NEW pc \in OpPcs, NEW row \in Session, Proceed(pc, row)
    PROVE  /\ op' \in Op /\ op'.pc = pc /\ op'.row = row
           /\ op'.kind = op.kind /\ op'.session = op.session
           /\ UNCHANGED <<root, sessions, sent, template, edits>>
  BY DEF Proceed, Keep, TypeOK, Op

-----------------------------------------------------------------------------
(* The invariant *)

Inv ==
    /\ TypeOK
    /\ Bound
    /\ PlaysAsFarAsRead
    /\ CallsOfSessions
    /\ StartedSessionPlays
    /\ CallsFollowBinding

LEMMA FilesKeep ==
    ASSUME Inv, FilesStep
    PROVE  Inv'
  <1>1. /\ template' \in 0..Len(TemplateSteps) /\ edits' \in 0..MaxEdits
        /\ \/ \E newRoot : IsRoot(newRoot) /\ Changed(newRoot)
           \/ UNCHANGED <<root, sessions, op, sent>>
    BY FilesWrite DEF Inv
  <1>2. CASE UNCHANGED <<root, sessions, op, sent>>
    BY <1>1, <1>2 DEF Inv, TypeOK, Bound, PlaysAsFarAsRead, ListsScene, ListsBoth, RowPlays,
                      CallsOfSessions, StartedSessionPlays, CallsFollowBinding
  <1>3. ASSUME NEW newRoot, IsRoot(newRoot), Changed(newRoot)
        PROVE  Inv'
    <2>1. TypeOK'
      BY <1>1, <1>3, ChangedTyped DEF Inv, TypeOK
    <2>2. /\ op'.pc = op.pc /\ op'.kind = op.kind /\ op'.session = op.session
          /\ op'.row.world = op.row.world /\ op'.row.scene = op.row.scene
          /\ op'.row.provider = op.row.provider /\ op'.row.calm = FALSE
          /\ \A s \in Sessions :
                 /\ sessions'[s] = NoSession <=> sessions[s] = NoSession
                 /\ sessions[s] # NoSession =>
                        /\ sessions'[s].world = sessions[s].world
                        /\ sessions'[s].scene = sessions[s].scene
                        /\ sessions'[s].provider = sessions[s].provider
                        /\ sessions'[s].calm = FALSE
          /\ sent' = sent
      BY <1>3, ChangedFields DEF Inv
    <2>3. Bound'
      BY <2>2, Fields DEF Inv, Bound
    <2>4. PlaysAsFarAsRead'
      BY <2>2 DEF PlaysAsFarAsRead
    <2>5. StartedSessionPlays'
      BY <2>2 DEF StartedSessionPlays
    <2>6. CallsOfSessions' /\ CallsFollowBinding'
      <3>1. \A c \in sent : c.session \in Sessions
        BY DEF Inv, TypeOK, Call
      <3> QED BY <3>1, <2>2 DEF Inv, CallsOfSessions, CallsFollowBinding
    <2> QED BY <2>1, <2>3, <2>4, <2>5, <2>6 DEF Inv
  <1> QED BY <1>1, <1>2, <1>3

\* A step that writes no row keeps what is said of the rows.
LEMMA RowsKeep ==
    ASSUME Inv, UNCHANGED <<root, sessions>>
    PROVE  StartedSessionPlays'
  BY DEF Inv, StartedSessionPlays

LEMMA NoCalls ==
    ASSUME sent' = {} \/ (Inv /\ UNCHANGED <<sent, sessions>>)
    PROVE  CallsOfSessions' /\ CallsFollowBinding'
  BY DEF Inv, CallsOfSessions, CallsFollowBinding

LEMMA BeginKeeps ==
    ASSUME Inv, NEW s \in Sessions, BeginStep(s)
    PROVE  Inv'
  <1>1. /\ op'.pc = "world" /\ op'.session = s
        /\ op' \in Op /\ sent' = {}
        /\ op'.kind = "start" <=> sessions[s] = NoSession
        /\ op'.kind # "start" =>
               /\ op'.row.world = sessions[s].world
               /\ op'.row.provider = sessions[s].provider
               /\ op'.row.calm = sessions[s].calm
        /\ op'.kind = "turn" => op'.row.scene = sessions[s].scene
        /\ UNCHANGED <<root, sessions, template, edits>>
    BY BeginWrites DEF Inv
  <1>2. TypeOK'
    BY <1>1, RequestTyped DEF Inv
  <1>3. Bound' /\ PlaysAsFarAsRead'
    BY <1>1 DEF Bound, PlaysAsFarAsRead, Tasks
  <1> QED BY <1>1, <1>2, <1>3, RowsKeep, NoCalls DEF Inv

LEMMA RefuseKeeps ==
    ASSUME Inv, Refuse
    PROVE  Inv'
  <1>1. /\ op' \in Op /\ op'.pc = "idle" /\ op'.row.calm = FALSE /\ sent' = {}
        /\ UNCHANGED <<root, sessions, template, edits>>
    BY RefuseWrites DEF Inv
  <1>2. TypeOK'
    BY <1>1, RequestTyped DEF Inv
  <1>3. Bound' /\ PlaysAsFarAsRead'
    BY <1>1 DEF Bound, PlaysAsFarAsRead
  <1> QED BY <1>1, <1>2, <1>3, RowsKeep, NoCalls DEF Inv

LEMMA ReadWorldKeeps ==
    ASSUME Inv, ReadWorld
    PROVE  Inv'
  <1>1. CASE ~WorldAllows
    BY <1>1, RefuseKeeps DEF ReadWorld
  <1>2. CASE WorldAllows
    <2> DEFINE pc == IF op.kind = "switch" THEN "scene" ELSE "persona"
               row == Wanted
    <2>1. Proceed(pc, row) /\ op.pc = "world"
      BY <1>2 DEF ReadWorld
    <2>2. /\ row \in Session
          /\ row.world = op.row.world /\ row.scene = op.row.scene
          /\ row.provider = op.row.provider /\ row.calm = op.row.calm
      BY WantedTyped DEF Inv
    <2>3. ListsScene(row) /\ (op.kind # "switch" => ListsBoth(row))
      BY <1>2, <2>2 DEF WorldAllows, ListsScene, ListsBoth
    <2>4. pc \in OpPcs /\ pc \in {"scene", "persona"}
          /\ (pc = "scene" <=> op.kind = "switch")
      BY DEF OpPcs
    <2> HIDE DEF pc, row
    <2>5. /\ op' \in Op /\ op'.pc = pc /\ op'.row = row
          /\ op'.kind = op.kind /\ op'.session = op.session
          /\ UNCHANGED <<root, sessions, sent, template, edits>>
      BY <2>1, <2>2, <2>4, ProceedWrites DEF Inv
    <2>6. TypeOK'
      BY <2>5 DEF Inv, TypeOK
    <2>7. Bound'
      BY <2>1, <2>2, <2>4, <2>5 DEF Inv, Bound, Tasks
    <2>8. PlaysAsFarAsRead'
      BY <2>3, <2>4, <2>5 DEF PlaysAsFarAsRead, ListsScene, ListsBoth, Tasks
    <2> QED BY <2>5, <2>6, <2>7, <2>8, RowsKeep, NoCalls DEF Inv
  <1> QED BY <1>1, <1>2

LEMMA ReadPersonaKeeps ==
    ASSUME Inv, ReadPersona
    PROVE  Inv'
  <1>1. CASE ~Loads(root, "personas", op.row.persona)
    BY <1>1, RefuseKeeps DEF ReadPersona
  <1>2. CASE Loads(root, "personas", op.row.persona)
    <2>1. Proceed("scene", op.row) /\ op.pc = "persona"
      BY <1>2 DEF ReadPersona
    <2>2. op.row \in Session /\ "scene" \in OpPcs
      BY Fields DEF Inv, OpPcs
    <2>3. /\ op' \in Op /\ op'.pc = "scene" /\ op'.row = op.row
          /\ op'.kind = op.kind /\ op'.session = op.session
          /\ UNCHANGED <<root, sessions, sent, template, edits>>
      BY <2>1, <2>2, ProceedWrites DEF Inv
    <2>4. TypeOK'
      BY <2>3 DEF Inv, TypeOK
    <2>5. Bound'
      BY <2>1, <2>3 DEF Inv, Bound, Tasks
    <2>6. PlaysAsFarAsRead'
      BY <1>2, <2>1, <2>3 DEF Inv, PlaysAsFarAsRead, ListsScene, ListsBoth, Tasks
    <2> QED BY <2>3, <2>4, <2>5, <2>6, RowsKeep, NoCalls DEF Inv
  <1> QED BY <1>1, <1>2

\* The row a start or a switch leaves in the store, and who had it before.
LEMMA RowWritten ==
    ASSUME Inv, op.pc = "scene", op.kind # "turn",
           Loads(root, "scenes", op.row.scene), NEW row,
           row = IF op.kind = "start" THEN op.row
                 ELSE [sessions[op.session] EXCEPT !.scene = op.row.scene]
    PROVE  /\ row \in Session
           /\ row.calm => RowPlays(row)
           /\ sessions[op.session] = NoSession
              \/ row.provider = sessions[op.session].provider
  <1>1. op.row \in Session /\ op.session \in Sessions
    BY Fields DEF Inv
  <1>2. op.kind = "start" <=> sessions[op.session] = NoSession
    BY DEF Inv, Bound
  <1>3. CASE op.kind = "start"
    BY <1>1, <1>2, <1>3 DEF Inv, PlaysAsFarAsRead, RowPlays
  <1>4. CASE op.kind # "start"
    <2>1. /\ sessions[op.session] \in Session /\ sessions[op.session] # NoSession
          /\ op.row.world = sessions[op.session].world
          /\ op.row.calm = sessions[op.session].calm
      BY <1>1, <1>2, <1>4, Fields DEF Inv, Bound
    <2>2. /\ row \in Session
          /\ row.world = sessions[op.session].world /\ row.scene = op.row.scene
          /\ row.persona = sessions[op.session].persona
          /\ row.provider = sessions[op.session].provider
          /\ row.calm = sessions[op.session].calm
      BY <1>1, <1>4, <2>1 DEF Session
    <2>3. ASSUME row.calm
          PROVE  RowPlays(row)
      <3>1. ListsScene(op.row)
        BY <2>1, <2>2, <2>3 DEF Inv, PlaysAsFarAsRead
      <3>2. /\ Loads(root, "worlds", row.world)
            /\ row.persona \in LoadCard(root, "worlds", row.world).personas
            /\ Loads(root, "personas", row.persona)
        BY <1>1, <2>1, <2>2, <2>3 DEF Inv, StartedSessionPlays
      <3> QED BY <2>1, <2>2, <3>1, <3>2 DEF RowPlays, ListsBoth, ListsScene
    <2> QED BY <2>2, <2>3
  <1> QED BY <1>3, <1>4

\* A row that plays may be put into the store.
LEMMA PutRow ==
    ASSUME Inv, NEW s \in Sessions, NEW row \in Session, row.calm => RowPlays(row),
           sessions' = [sessions EXCEPT ![s] = row], root' = root
    PROVE  StartedSessionPlays' /\ sessions' \in [Sessions -> Session \cup {NoSession}]
  <1>1. sessions' \in [Sessions -> Session \cup {NoSession}]
    BY DEF Inv, TypeOK
  <1>2. ASSUME NEW t \in Sessions, sessions'[t] # NoSession, sessions'[t].calm
        PROVE  LET r == sessions'[t] IN
               /\ Loads(root', "worlds", r.world)
               /\ r.persona \in LoadCard(root', "worlds", r.world).personas
               /\ r.scene \in LoadCard(root', "worlds", r.world).scenes
               /\ Loads(root', "personas", r.persona)
               /\ Loads(root', "scenes", r.scene)
    <2>1. CASE t = s
      <3>1. sessions'[t] = row
        BY <2>1 DEF Inv, TypeOK
      <3> QED BY <1>2, <3>1 DEF RowPlays, ListsBoth, ListsScene
    <2>2. CASE t # s
      <3>1. sessions'[t] = sessions[t]
        BY <2>2 DEF Inv, TypeOK
      <3> QED BY <1>2, <3>1 DEF Inv, StartedSessionPlays
    <2> QED BY <2>1, <2>2
  <1> QED BY <1>1, <1>2 DEF StartedSessionPlays

LEMMA ReadSceneKeeps ==
    ASSUME Inv, ReadScene
    PROVE  Inv'
  <1>1. CASE ~Loads(root, "scenes", op.row.scene)
    BY <1>1, RefuseKeeps DEF ReadScene
  <1>2. CASE Loads(root, "scenes", op.row.scene) /\ op.kind = "turn"
    <2>1. Proceed("actor", op.row) /\ op.pc = "scene"
      BY <1>2 DEF ReadScene
    <2>2. op.row \in Session /\ "actor" \in OpPcs
      BY Fields DEF Inv, OpPcs
    <2>3. /\ op' \in Op /\ op'.pc = "actor" /\ op'.row = op.row
          /\ op'.kind = op.kind /\ op'.session = op.session
          /\ UNCHANGED <<root, sessions, sent, template, edits>>
      BY <2>1, <2>2, ProceedWrites DEF Inv
    <2>4. TypeOK'
      BY <2>3 DEF Inv, TypeOK
    <2>5. Bound'
      BY <1>2, <2>1, <2>3 DEF Inv, Bound, Tasks
    <2>6. PlaysAsFarAsRead'
      BY <1>2, <2>1, <2>3 DEF Inv, PlaysAsFarAsRead, ListsScene, ListsBoth, RowPlays, Tasks
    <2> QED BY <2>3, <2>4, <2>5, <2>6, RowsKeep, NoCalls DEF Inv
  <1>3. CASE Loads(root, "scenes", op.row.scene) /\ op.kind # "turn"
    <2> DEFINE row == IF op.kind = "start" THEN op.row
                      ELSE [sessions[op.session] EXCEPT !.scene = op.row.scene]
    <2>1. /\ op.pc = "scene" /\ sessions' = [sessions EXCEPT ![op.session] = row]
          /\ op' = IdleOp /\ sent' = sent /\ UNCHANGED <<root, template, edits>>
      BY <1>3 DEF ReadScene, CreateSession, UpdateScene, Keep
    <2>2. op.session \in Sessions
      BY Fields DEF Inv
    <2>3. /\ row \in Session
          /\ row.calm => RowPlays(row)
          /\ sessions[op.session] = NoSession
             \/ row.provider = sessions[op.session].provider
      BY <1>3, <2>1, RowWritten
    <2> HIDE DEF row
    <2>4. StartedSessionPlays' /\ sessions' \in [Sessions -> Session \cup {NoSession}]
      BY <2>1, <2>2, <2>3, PutRow
    <2>5. TypeOK'
      BY <2>1, <2>4, IdleOpTyped, RequestTyped DEF Inv, TypeOK
    <2>6. Bound' /\ PlaysAsFarAsRead'
      BY <2>1, IdleOpTyped DEF Bound, PlaysAsFarAsRead
    <2>7. ASSUME NEW c \in sent
          PROVE  /\ sessions'[c.session] # NoSession
                 /\ sessions'[c.session].provider = sessions[c.session].provider
      <3>1. c.session \in Sessions /\ sessions[c.session] # NoSession
        BY DEF Inv, TypeOK, Call, CallsOfSessions
      <3>2. CASE c.session = op.session
        <4>1. sessions'[c.session] = row
          BY <2>1, <2>2, <3>2 DEF Inv, TypeOK
        <4> QED BY <2>3, <3>1, <3>2, <4>1, NoSessionAssumption
      <3>3. CASE c.session # op.session
        BY <2>1, <3>1, <3>3 DEF Inv, TypeOK
      <3> QED BY <3>2, <3>3
    <2>8. CallsOfSessions' /\ CallsFollowBinding'
      BY <2>1, <2>7 DEF Inv, CallsOfSessions, CallsFollowBinding
    <2> QED BY <2>4, <2>5, <2>6, <2>8 DEF Inv
  <1> QED BY <1>1, <1>2, <1>3

\* A call goes where the row of the turn says, which is where its session is bound.
LEMMA CallKeeps ==
    ASSUME Inv, op.pc \in Tasks, NEW task \in Tasks, NEW next \in Op, CallModel(task, next),
           \A s \in Sessions :
               /\ sessions[s] # NoSession => sessions'[s] # NoSession
               /\ sessions[s] # NoSession => sessions'[s].provider = sessions[s].provider
    PROVE  op' = next /\ sent' \subseteq Call /\ CallsOfSessions' /\ CallsFollowBinding'
  <1>1. op' = next /\ sent' \subseteq Call
    BY CallTyped DEF Inv
  <1>2. PICK provider \in Resolve(op.row.provider, op.key) :
            sent' = {[session |-> op.session, task |-> task, provider |-> provider,
                      hidden |-> IncludeHidden(task, provider)]}
    BY DEF CallModel
  <1>3. /\ op.session \in Sessions /\ op.row.provider = sessions[op.session].provider
        /\ sessions[op.session] # NoSession
    BY Fields DEF Inv, Bound, Tasks
  <1>4. provider = op.row.provider
    BY <1>2 DEF Resolve
  <1>5. ASSUME NEW c \in sent'
        PROVE  /\ sessions'[c.session] # NoSession
               /\ c.provider = sessions'[c.session].provider
               /\ c.hidden => c.provider = "local"
    <2>1. c.session = op.session /\ c.provider = provider
          /\ c.hidden = IncludeHidden(task, provider)
      BY <1>2
    <2> QED BY <1>3, <1>4, <2>1 DEF IncludeHidden
  <1> QED BY <1>1, <1>5 DEF CallsOfSessions, CallsFollowBinding

\* A turn under way may move on; its row stays.
LEMMA MovesOn ==
    ASSUME Inv, op.pc \in Tasks, NEW pc \in Tasks
    PROVE  LET next == [op EXCEPT !.pc = pc] IN
           /\ next \in Op /\ next.pc = pc /\ next.row = op.row
           /\ next.session = op.session /\ next.kind = op.kind
  BY DEF Inv, TypeOK, Op, OpPcs, Tasks

\* What is said of a turn under way depends on neither its step nor its persona's row.
LEMMA TurnKeeps ==
    ASSUME Inv, op.pc \in Tasks, op'.pc \in Tasks, op'.row = op.row,
           op'.session = op.session, op'.kind = op.kind, root' = root,
           \/ sessions' = sessions
           \/ /\ sessions'[op.session] # NoSession
              /\ sessions'[op.session].world = sessions[op.session].world
              /\ sessions'[op.session].scene = sessions[op.session].scene
              /\ sessions'[op.session].provider = sessions[op.session].provider
              /\ sessions'[op.session].calm = sessions[op.session].calm
    PROVE  Bound' /\ PlaysAsFarAsRead'
  <1>1. Bound'
    BY DEF Inv, Bound, Tasks
  <1>2. PlaysAsFarAsRead'
    BY DEF Inv, PlaysAsFarAsRead, RowPlays, ListsBoth, ListsScene, Tasks
  <1> QED BY <1>1, <1>2

\* The persona a turn commits is one its world lists and whose file opened.
LEMMA CommitKeeps ==
    ASSUME Inv, op.pc \in Tasks, CommitPersona, root' = root
    PROVE  /\ sessions' \in [Sessions -> Session \cup {NoSession}]
           /\ StartedSessionPlays'
           /\ \A s \in Sessions : sessions[s] # NoSession =>
                  /\ sessions'[s] # NoSession
                  /\ sessions'[s].world = sessions[s].world
                  /\ sessions'[s].scene = sessions[s].scene
                  /\ sessions'[s].provider = sessions[s].provider
                  /\ sessions'[s].calm = sessions[s].calm
  <1> DEFINE row == [sessions[op.session] EXCEPT !.persona = op.row.persona]
  <1>1. /\ op.session \in Sessions /\ sessions[op.session] # NoSession
        /\ sessions[op.session] \in Session /\ op.row \in Session
        /\ op.row.world = sessions[op.session].world
        /\ op.row.scene = sessions[op.session].scene
        /\ op.row.calm = sessions[op.session].calm
    BY Fields DEF Inv, Bound, Tasks
  <1>2. /\ row \in Session /\ row.persona = op.row.persona
        /\ row.world = sessions[op.session].world
        /\ row.scene = sessions[op.session].scene
        /\ row.provider = sessions[op.session].provider
        /\ row.calm = sessions[op.session].calm
    BY <1>1 DEF Session
  <1>3. sessions' = [sessions EXCEPT ![op.session] = row]
    BY DEF CommitPersona
  <1> HIDE DEF row
  <1>4. row.calm => RowPlays(row)
    BY <1>1, <1>2 DEF Inv, PlaysAsFarAsRead, RowPlays, ListsBoth, ListsScene, Tasks
  <1>5. StartedSessionPlays' /\ sessions' \in [Sessions -> Session \cup {NoSession}]
    BY <1>1, <1>2, <1>3, <1>4, PutRow
  <1>6. ASSUME NEW s \in Sessions, sessions[s] # NoSession
        PROVE  /\ sessions'[s] # NoSession
               /\ sessions'[s].world = sessions[s].world
               /\ sessions'[s].scene = sessions[s].scene
               /\ sessions'[s].provider = sessions[s].provider
               /\ sessions'[s].calm = sessions[s].calm
    <2>1. CASE s = op.session
      <3>1. sessions'[s] = row
        BY <1>1, <1>3, <2>1 DEF Inv, TypeOK
      <3> QED BY <1>2, <2>1, <3>1, NoSessionAssumption
    <2>2. CASE s # op.session
      BY <1>3, <1>6, <2>2 DEF Inv, TypeOK
    <2> QED BY <2>1, <2>2
  <1> QED BY <1>5, <1>6

LEMMA ModelKeeps ==
    ASSUME Inv, ModelStep
    PROVE  Inv'
  <1>1. op.pc \in Tasks /\ UNCHANGED <<root, template, edits>>
    BY DEF ModelStep, Act, Critique, AskRepair, SkipCritique, CurateMemories, Keep, Tasks
  <1>2. ASSUME NEW task \in Tasks, NEW pc \in Tasks,
               CallModel(task, [op EXCEPT !.pc = pc]), CommitPersona \/ UNCHANGED sessions
        PROVE  Inv'
    <2> DEFINE next == [op EXCEPT !.pc = pc]
    <2>1. /\ next \in Op /\ next.pc = pc /\ next.row = op.row
          /\ next.session = op.session /\ next.kind = op.kind
      BY <1>1, MovesOn
    <2> HIDE DEF next
    <2>2. /\ sessions' \in [Sessions -> Session \cup {NoSession}]
          /\ StartedSessionPlays'
          /\ \A s \in Sessions : sessions[s] # NoSession =>
                 /\ sessions'[s] # NoSession
                 /\ sessions'[s].world = sessions[s].world
                 /\ sessions'[s].scene = sessions[s].scene
                 /\ sessions'[s].provider = sessions[s].provider
                 /\ sessions'[s].calm = sessions[s].calm
      <3>1. CASE CommitPersona
        BY <1>1, <3>1, CommitKeeps
      <3>2. CASE UNCHANGED sessions
        BY <1>1, <3>2, RowsKeep DEF Inv, TypeOK
      <3> QED BY <1>2, <3>1, <3>2
    <2>3. CallModel(task, next)
      BY <1>2 DEF next
    <2>4. op' = next /\ sent' \subseteq Call /\ CallsOfSessions' /\ CallsFollowBinding'
      BY <1>1, <2>1, <2>2, <2>3, CallKeeps
    <2>5. op.session \in Sessions /\ sessions[op.session] # NoSession
      BY <1>1, Fields DEF Inv, Bound, Tasks
    <2>6. Bound' /\ PlaysAsFarAsRead'
      BY <1>1, <2>1, <2>2, <2>4, <2>5, TurnKeeps
    <2>7. TypeOK'
      BY <1>1, <2>1, <2>2, <2>4 DEF Inv, TypeOK
    <2> QED BY <2>2, <2>4, <2>6, <2>7 DEF Inv
  <1>3. CASE Act
    BY <1>2, <1>3 DEF Act, Tasks
  <1>4. CASE Critique
    BY <1>2, <1>4 DEF Critique, Tasks
  <1>5. CASE AskRepair
    <2>1. CallModel("critic", [op EXCEPT !.pc = "actor"]) /\ UNCHANGED sessions
      BY <1>5 DEF AskRepair
    <2> QED BY <1>2, <2>1 DEF Tasks
  <1>6. CASE SkipCritique
    <2> DEFINE next == [op EXCEPT !.pc = "memory"]
    <2>1. /\ next \in Op /\ next.pc = "memory" /\ next.row = op.row
          /\ next.session = op.session /\ next.kind = op.kind
      BY <1>1, MovesOn DEF Tasks
    <2>2. op' = next /\ CommitPersona /\ sent' = sent
      BY <1>6 DEF SkipCritique
    <2> HIDE DEF next
    <2>3. /\ sessions' \in [Sessions -> Session \cup {NoSession}]
          /\ StartedSessionPlays'
          /\ \A s \in Sessions : sessions[s] # NoSession =>
                 /\ sessions'[s] # NoSession
                 /\ sessions'[s].world = sessions[s].world
                 /\ sessions'[s].scene = sessions[s].scene
                 /\ sessions'[s].provider = sessions[s].provider
                 /\ sessions'[s].calm = sessions[s].calm
      BY <1>1, <2>2, CommitKeeps
    <2>4. op.session \in Sessions /\ sessions[op.session] # NoSession
      BY <1>1, Fields DEF Inv, Bound, Tasks
    <2>5. Bound' /\ PlaysAsFarAsRead'
      BY <1>1, <2>1, <2>2, <2>3, <2>4, TurnKeeps DEF Tasks
    <2>6. TypeOK'
      BY <1>1, <2>1, <2>2, <2>3 DEF Inv, TypeOK
    <2>7. CallsOfSessions' /\ CallsFollowBinding'
      <3>1. \A c \in sent : c.session \in Sessions
        BY DEF Inv, TypeOK, Call
      <3> QED BY <3>1, <2>2, <2>3 DEF Inv, CallsOfSessions, CallsFollowBinding
    <2> QED BY <2>3, <2>5, <2>6, <2>7 DEF Inv
  <1>7. CASE CurateMemories
    <2>1. CallModel("memory", IdleOp) /\ UNCHANGED sessions
      BY <1>7 DEF CurateMemories
    <2>2. op' = IdleOp /\ sent' \subseteq Call /\ CallsOfSessions' /\ CallsFollowBinding'
      BY <1>1, <2>1, IdleOpTyped, CallKeeps DEF Tasks
    <2>3. TypeOK'
      BY <1>1, <2>1, <2>2, IdleOpTyped DEF Inv, TypeOK
    <2>4. Bound' /\ PlaysAsFarAsRead'
      BY <2>2, IdleOpTyped DEF Bound, PlaysAsFarAsRead
    <2>5. StartedSessionPlays'
      BY <1>1, <2>1, RowsKeep
    <2> QED BY <2>2, <2>3, <2>4, <2>5 DEF Inv
  <1> QED BY <1>3, <1>4, <1>5, <1>6, <1>7 DEF ModelStep

LEMMA NextKeeps ==
    ASSUME Inv, [Next]_vars
    PROVE  Inv'
  <1>1. CASE UNCHANGED vars
    BY <1>1 DEF vars, Inv, TypeOK, Bound, PlaysAsFarAsRead, ListsScene, ListsBoth, RowPlays,
                CallsOfSessions, StartedSessionPlays, CallsFollowBinding
  <1>2. CASE Next
    <2>1. ASSUME ProviderFails PROVE Inv'
      BY <2>1, RefuseKeeps DEF ProviderFails
    <2>2. ASSUME NEW s \in Sessions, BeginStep(s) PROVE Inv'
      BY <2>2, BeginKeeps
    <2> QED BY <1>2, <2>1, <2>2, NextParts, FilesKeep, ReadWorldKeeps, ReadPersonaKeeps,
               ReadSceneKeeps, ModelKeeps
  <1> QED BY <1>1, <1>2

LEMMA InitHolds ==
    ASSUME Init
    PROVE  Inv
  <1>1. TypeOK
    <2>1. 0 \in 0..Len(TemplateSteps) /\ 0 \in 0..MaxEdits
      BY SessionStartAssumption DEF TemplateSteps
    <2> QED BY <2>1, IdleOpTyped, SessionStartAssumption DEF Init, TypeOK
  <1>2. Bound /\ PlaysAsFarAsRead
    BY IdleOpTyped DEF Init, Bound, PlaysAsFarAsRead
  <1>3. CallsOfSessions /\ StartedSessionPlays /\ CallsFollowBinding
    BY DEF Init, CallsOfSessions, StartedSessionPlays, CallsFollowBinding
  <1> QED BY <1>1, <1>2, <1>3 DEF Inv

\* The inductive invariant: rows, calls and the request being served, as far as it has
\* read, agree with the content root.
THEOREM Invariance == Spec => []Inv
  BY InitHolds, NextKeeps, PTL DEF Spec

-----------------------------------------------------------------------------
(* The validator and the loader *)

\* In a root whose files are named for their ids, what the validator knows by id the
\* loader opens by name, and it is the same card.
LEMMA KnownLoads ==
    ASSUME WellNamed, NEW k \in Kinds, NEW id \in KnownIds(root, k)
    PROVE  /\ Loads(root, k, id)
           /\ LoadCard(root, k, id).id = id
           /\ Known(root, k, id) = LoadCard(root, k, id)
  <1>1. PICK n \in Readable(root, k) : root.files[k][n].id = id
    BY DEF KnownIds
  <1>2. id \in LoadableIds /\ Stem(k, id) = n
    BY <1>1 DEF WellNamed
  <1>3. LoadCard(root, k, id) = root.files[k][n]
    BY <1>2 DEF LoadCard
  <1>4. FilesWithId(root, k, id) = {n}
    <2>1. ASSUME NEW m \in FilesWithId(root, k, id)
          PROVE  m = n
      <3>1. m \in Readable(root, k) /\ root.files[k][m].id = id
        BY DEF FilesWithId
      <3> QED BY <1>2, <3>1 DEF WellNamed
    <2>2. n \in FilesWithId(root, k, id)
      BY <1>1 DEF FilesWithId
    <2> QED BY <2>1, <2>2
  <1>5. (CHOOSE m \in FilesWithId(root, k, id) : TRUE) = n
    BY <1>4
  <1>6. Known(root, k, id) = root.files[k][n]
    BY <1>5 DEF Known
  <1>7. root.files[k][n] \notin {Absent, Broken}
    BY <1>1 DEF Readable, Written
  <1> QED BY <1>1, <1>3, <1>6, <1>7 DEF Loads

\* A report without errors has no error of any of its parts.
LEMMA NoErrors ==
    ASSUME NEW only, Status(root, only) # "fail"
    PROVE  /\ FileErrors(root, only) = {} /\ WorldErrors(root, only) = {}
           /\ DocumentErrors(root) = {}
  <1>1. Errors(root, only) = {}
    BY DEF Status
  <1> QED BY <1>1 DEF Errors

\* ... so every directory is there and every file in it opens.
LEMMA NoFileErrors ==
    ASSUME NEW only, FileErrors(root, only) = {}
    PROVE  CatalogLoads(root)
  <1>1. ASSUME NEW k \in Kinds
        PROVE  k \in root.dirs /\ Readable(root, k) = Written(root, k)
    <2>1. k \in root.dirs
      <3>1. k \in Kinds \ root.dirs =>
                <<"required_directory_missing", k>> \in FileErrors(root, only)
        BY DEF FileErrors
      <3> QED BY <3>1
    <2>2. ASSUME NEW n \in Written(root, k) \ Readable(root, k)
          PROVE  FALSE
      <3>1. <<"invalid", k, n>> \in
                UNION {{<<"invalid", j, m>> : m \in Written(root, j) \ Readable(root, j)} :
                       j \in Kinds}
        OBVIOUS
      <3>2. <<"invalid", k, n>> \in FileErrors(root, only)
        BY <3>1 DEF FileErrors
      <3> QED BY <3>2
    <2>3. Readable(root, k) \subseteq Written(root, k)
      BY DEF Readable
    <2> QED BY <2>1, <2>2, <2>3
  <1> QED BY <1>1 DEF CatalogLoads

\* ... and every world it looked at lists its default scene, and knows what it lists.
LEMMA NoWorldErrors ==
    ASSUME NEW only, WorldErrors(root, only) = {}, NEW w \in SelectedWorlds(root, only)
    PROVE  LET world == Known(root, "worlds", w) IN
           /\ world.default \in world.scenes
           /\ world.scenes \subseteq KnownIds(root, "scenes")
           /\ world.personas \subseteq KnownIds(root, "personas")
  <1> DEFINE Of(x) ==
               LET world == Known(root, "worlds", x) IN
               {<<"world_default_scene_not_listed", x>> : s \in {world.default} \ world.scenes}
               \cup {<<"world_scene_missing", x, s>> :
                        s \in world.scenes \ KnownIds(root, "scenes")}
               \cup {<<"world_persona_missing", x, p>> :
                        p \in world.personas \ KnownIds(root, "personas")}
  <1>1. WorldErrors(root, only) = UNION {Of(x) : x \in SelectedWorlds(root, only)}
    BY DEF WorldErrors
  <1>2. Of(w) \subseteq UNION {Of(x) : x \in SelectedWorlds(root, only)}
    OBVIOUS
  <1>3. Of(w) = {}
    BY <1>1, <1>2
  <1> QED BY <1>3

\* A manifest without errors is ingested, if the documents are not empty.
LEMMA ManifestIngests ==
    ASSUME IsRoot(root), root.manifest # Absent, DocumentErrors(root) = {},
           \A d \in Paths : root.docs[d] # "empty"
    PROVE  LoreIngests(root)
  <1>1. root.manifest # Broken
    BY DEF DocumentErrors
  <1>2. UNION {ListingErrors(root, l) : l \in root.manifest} = {}
    BY <1>1 DEF DocumentErrors
  <1>3. ASSUME NEW l \in root.manifest
        PROVE  l.path \in TextPaths /\ root.docs[l.path] = "text"
    <2>1. ListingErrors(root, l) = {}
      <3>1. ListingErrors(root, l) \subseteq UNION {ListingErrors(root, x) : x \in root.manifest}
        OBVIOUS
      <3> QED BY <1>2, <3>1
    <2>2. l.path \in InsidePaths
      BY <2>1 DEF ListingErrors
    <2>3. l.path \in TextPaths /\ root.docs[l.path] # "absent"
      BY <2>1, <2>2 DEF ListingErrors
    <2>4. l.path \in Paths
      BY <2>2, ScenarioAssumption
    <2> QED BY <2>3, <2>4 DEF IsRoot
  <1> QED BY <1>1, <1>3 DEF LoreIngests

LEMMA ValidatedPlays ==
    ASSUME TypeOK
    PROVE  ValidatedContentPlays
  <1>1. ASSUME WellNamed, NEW only, Status(root, only) # "fail"
        PROVE  CatalogLoads(root) /\ \A w \in SelectedWorlds(root, only) : Plays(w)
    <2>1. FileErrors(root, only) = {} /\ WorldErrors(root, only) = {}
      BY <1>1, NoErrors
    <2>2. ASSUME NEW w \in SelectedWorlds(root, only)
          PROVE  Plays(w)
      <3>1. w \in KnownIds(root, "worlds")
        BY DEF SelectedWorlds
      <3> DEFINE world == LoadCard(root, "worlds", w)
      <3>2. /\ Loads(root, "worlds", w) /\ world.id = w
            /\ Known(root, "worlds", w) = world
        BY <1>1, <3>1, KnownLoads DEF Kinds
      <3>3. /\ world.default \in world.scenes
            /\ world.scenes \subseteq KnownIds(root, "scenes")
            /\ world.personas \subseteq KnownIds(root, "personas")
        BY <2>1, <3>2, NoWorldErrors
      <3> HIDE DEF world
      <3>4. \A p \in world.personas :
                Loads(root, "personas", p) /\ LoadCard(root, "personas", p).id = p
        BY <1>1, <3>3, KnownLoads DEF Kinds
      <3>5. \A c \in world.scenes :
                Loads(root, "scenes", c) /\ LoadCard(root, "scenes", c).id = c
        BY <1>1, <3>3, KnownLoads DEF Kinds
      <3> QED BY <3>2, <3>3, <3>4, <3>5 DEF Plays, world
    <2> QED BY <2>1, <2>2, NoFileErrors
  <1>2. ASSUME root.manifest # Absent, Status(root, AllWorlds) # "fail",
               \A d \in Paths : root.docs[d] # "empty"
        PROVE  LoreIngests(root)
    BY <1>2, NoErrors, ManifestIngests DEF TypeOK
  <1> QED BY <1>1, <1>2 DEF ValidatedContentPlays

-----------------------------------------------------------------------------
(* Theorems *)

(* Whatever authors write and whatever is asked for, the content root, the  *)
(* rows and the request being served stay what the code takes them for.     *)
THEOREM TypeCorrect == Spec => []TypeOK
  <1>1. Inv => TypeOK
    BY DEF Inv
  <1> QED BY <1>1, Invariance, PTL

(* A session whose files did not change can always be loaded by its next    *)
(* turn, through any sequence of starts, refusals, switches and overrides.  *)
THEOREM StartedPlays == Spec => []StartedSessionPlays
  <1>1. Inv => StartedSessionPlays
    BY DEF Inv
  <1> QED BY <1>1, Invariance, PTL

(* Every model call goes to the provider its session was bound to at start, *)
(* and none to the cloud carries hidden facts.                              *)
THEOREM BindingFollowed == Spec => []CallsFollowBinding
  <1>1. Inv => CallsFollowBinding
    BY DEF Inv
  <1> QED BY <1>1, Invariance, PTL

(* Content that validates can be played, under every content root: the      *)
(* validator, which knows cards by id, and the loader, which opens files by *)
(* name, agree wherever the files are named for their ids.                  *)
THEOREM ValidatedContent == Spec => []ValidatedContentPlays
  <1>1. Inv => ValidatedContentPlays
    BY ValidatedPlays DEF Inv
  <1> QED BY <1>1, Invariance, PTL
=============================================================================
