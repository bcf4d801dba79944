------------------------------ MODULE Scenario ------------------------------
(***************************************************************************)
(* A content root: authored worlds, personas, scenes and lore as files,    *)
(* and the two readers that must agree about them.  validate_content reads *)
(* every file of a directory and knows a card by the id written in it; the *)
(* loader of sessions and turns opens the one file whose name it derives   *)
(* from the id.  A root is a record; the operators below only read it.     *)
(*                                                                         *)
(* A text is a set of phrases, "contains" is the subset relation: enough   *)
(* for the validator's secrecy rules, which compare normalized substrings. *)
(***************************************************************************)
EXTENDS Naturals, FiniteSets

CONSTANTS
    Ids,            \* per kind, the ids and file stems in play
    LoadableIds,    \* ids of ASCII letters, digits, '-' and '_' only
    SceneStem,      \* a scene's id with '-' replaced by '_'
    Cards,          \* per kind, what an author may write
    Listings,       \* entries an author may put in manifest.json
    Paths,          \* documents the manifest may name
    TextPaths,      \* those with suffix .md or .txt
    InsidePaths,    \* those inside documents/
    Absent, Broken, \* no such file; a file that is no valid card
    NoId,           \* a listing without that scope
    AllWorlds       \* validate-content without --world-id

ASSUME ScenarioAssumption ==
    /\ DOMAIN Ids = {"worlds", "personas", "scenes"}
    /\ SceneStem \in [Ids["scenes"] -> Ids["scenes"]]
    /\ TextPaths \subseteq Paths
    /\ InsidePaths \subseteq Paths
    /\ \A k \in DOMAIN Ids : NoId \notin Ids[k] /\ AllWorlds \notin Ids[k]

Kinds == {"worlds", "personas", "scenes"}

IsRoot(root) ==
    /\ DOMAIN root = {"dirs", "files", "manifest", "docs"}
    /\ root.dirs \subseteq Kinds
    /\ DOMAIN root.files = Kinds
    /\ \A k \in Kinds : root.files[k] \in [Ids[k] -> Cards[k] \cup {Absent, Broken}]
    /\ root.manifest \in {Absent, Broken} \cup SUBSET Listings
    /\ root.docs \in [Paths -> {"absent", "empty", "text"}]

EmptyRoot ==
    [dirs |-> {}, files |-> [k \in Kinds |-> [n \in Ids[k] |-> Absent]],
     manifest |-> Absent, docs |-> [d \in Paths |-> "absent"]]

PutCard(root, kind, stem, card) ==
    [root EXCEPT !.dirs = @ \cup {kind}, !.files[kind][stem] = card]

-----------------------------------------------------------------------------
(* FileDataLoader: by file name *)

Stem(kind, id) == IF kind = "scenes" THEN SceneStem[id] ELSE id

LoadCardByRawId(root, kind, id) ==
    IF id \in LoadableIds THEN root.files[kind][id] ELSE Broken

\* _validate_content_id, then _load_model
LoadCard(root, kind, id) ==
    IF id \in LoadableIds THEN root.files[kind][Stem(kind, id)] ELSE Broken

Loads(root, kind, id) == LoadCard(root, kind, id) \notin {Absent, Broken}

Written(root, kind) == {n \in Ids[kind] : root.files[kind][n] # Absent}
Readable(root, kind) == {n \in Written(root, kind) : root.files[kind][n] # Broken}

\* load_catalog refuses the whole catalog for one missing directory or bad file
CatalogLoads(root) ==
    \A k \in Kinds : k \in root.dirs /\ Readable(root, k) = Written(root, k)

-----------------------------------------------------------------------------
(* validate_content: by the id inside.  Findings are kept by their code and *)
(* what they are about.                                                     *)

FilesWithId(root, kind, id) == {n \in Readable(root, kind) : root.files[kind][n].id = id}

KnownIds(root, kind) == {root.files[kind][n].id : n \in Readable(root, kind)}

\* of several files with one id the first is kept (the others are errors)
Known(root, kind, id) == root.files[kind][CHOOSE n \in FilesWithId(root, kind, id) : TRUE]

SelectedWorlds(root, only) ==
    IF only = AllWorlds THEN KnownIds(root, "worlds")
    ELSE KnownIds(root, "worlds") \cap {only}

FileErrors(root, only) ==
    {<<"required_directory_missing", k>> : k \in Kinds \ root.dirs}
    \cup UNION {{<<"invalid", k, n>> : n \in Written(root, k) \ Readable(root, k)} : k \in Kinds}
    \cup UNION {{<<"duplicate_id", k, id>> :
            id \in {i \in KnownIds(root, k) : Cardinality(FilesWithId(root, k, i)) > 1}} :
            k \in Kinds}
    \cup {<<"world_not_found", w>> : w \in {only} \ ({AllWorlds} \cup KnownIds(root, "worlds"))}

WorldErrorsScenesOnly(root, only) ==
    UNION {LET world == Known(root, "worlds", w) IN
           {<<"world_scene_missing", w, s>> : s \in world.scenes \ KnownIds(root, "scenes")} :
           w \in SelectedWorlds(root, only)}

WorldErrors(root, only) ==
    UNION {LET world == Known(root, "worlds", w) IN
           {<<"world_default_scene_not_listed", w>> : s \in {world.default} \ world.scenes}
           \cup {<<"world_scene_missing", w, s>> :
                    s \in world.scenes \ KnownIds(root, "scenes")}
           \cup {<<"world_persona_missing", w, p>> :
                    p \in world.personas \ KnownIds(root, "personas")} :
           w \in SelectedWorlds(root, only)}

SceneErrors(root, only) ==
    LET owners(s) == {w \in SelectedWorlds(root, only) : s \in Known(root, "worlds", w).scenes}
        known == KnownIds(root, "personas")
    IN  UNION {LET active == Known(root, "scenes", s).active IN
               {<<"scene_active_persona_missing", s, p>> : p \in active \ known}
               \cup {<<"scene_persona_not_listed_by_world", s, wp[1], wp[2]>> :
                   wp \in {x \in owners(s) \X (active \cap known) :
                               x[2] \notin Known(root, "worlds", x[1]).personas}} :
               s \in KnownIds(root, "scenes")}

SecrecyWarnings(root) ==
    UNION {LET card == Known(root, "personas", p)
               hidden == card.secrets \cup card.forbidden
           IN  {<<"in_public_description", p, x>> : x \in hidden \cap card.public}
               \cup {<<"in_goals_or_values", p, x>> : x \in hidden \cap card.goals}
               \cup {<<"without_private_context", p>> :
                   x \in {y \in card.forbidden : card.secrets = {} /\ ~card.private}} :
           p \in KnownIds(root, "personas")}
    \cup {<<"summaries_overlap", s>> :
        s \in {i \in KnownIds(root, "scenes") :
               LET card == Known(root, "scenes", i) IN
               /\ card.gm # {}
               /\ card.gm \subseteq card.summary \/ card.summary \subseteq card.gm}}

Documents(root) == {d \in TextPaths \cap InsidePaths : root.docs[d] # "absent"}

\* a listing outside documents/ is not looked at further
ListingErrors(root, l) ==
    IF l.path \notin InsidePaths THEN {<<"outside_root", l.path>>}
    ELSE {<<"unsupported_suffix", d>> : d \in {l.path} \ TextPaths}
         \cup {<<"missing_file", d>> : d \in {x \in {l.path} : root.docs[x] = "absent"}}
         \cup {<<"scope_missing", l.path, k>> :
             k \in {j \in Kinds : l.scope[j] \notin KnownIds(root, j) \cup {NoId}}}

DocumentErrors(root) ==
    CASE root.manifest = Absent -> {}
      [] root.manifest = Broken -> {<<"manifest_invalid">>}
      [] OTHER -> UNION {ListingErrors(root, l) : l \in root.manifest}

DocumentWarnings(root) ==
    CASE root.manifest = Absent -> {<<"manifest_missing">> : d \in Documents(root)}
      [] root.manifest = Broken -> {}
      [] OTHER -> {<<"not_listed", d>> : d \in Documents(root) \ {l.path : l \in root.manifest}}

Errors(root, only) ==
    FileErrors(root, only) \cup WorldErrors(root, only)
        \cup SceneErrors(root, only) \cup DocumentErrors(root)

Warnings(root) == SecrecyWarnings(root) \cup DocumentWarnings(root)

Status(root, only) ==
    IF Errors(root, only) # {} THEN "fail"
    ELSE IF Warnings(root) # {} THEN "warn" ELSE "pass"

-----------------------------------------------------------------------------
(* ingest_lore_manifest, as far as the files decide it *)

LoreIngests(root) ==
    /\ root.manifest \notin {Absent, Broken}
    /\ \A l \in root.manifest : l.path \in TextPaths /\ root.docs[l.path] = "text"

=============================================================================
