----------------------------- MODULE LoreIngest -----------------------------
(***************************************************************************)
(* Indexing a scenario's lore into the canon_lore collection.  Every       *)
(* session creation ingests the manifest (in a worker thread of the API or *)
(* in a command), so runs overlap, authors edit the files meanwhile, and a *)
(* run may fail at any call of the vector store.  An action is one such    *)
(* call, or one read of a file.                                            *)
(*                                                                         *)
(* A document's text is the set of its chunks; a chunk's id is a hash of   *)
(* source, index and text, so equal chunks of a document have equal ids.   *)
(* Changing EMBEDDING_MODEL and reset-index follow the migration runbook,  *)
(* which stops the API first (docs/23_embedding_migration_runbook.md).     *)
(***************************************************************************)
EXTENDS Naturals

CONSTANTS
    Docs,           \* files under documents/
    ChunksOf,       \* what the chunker may cut from each document
    Visibilities,
    Models,         \* values of EMBEDDING_MODEL
    Ingests,        \* ingestions that may run at once
    Unlisted,       \* not in the manifest
    NoModel         \* a collection without a fingerprint

ASSUME LoreAssumption ==
    /\ Unlisted \notin Visibilities
    /\ NoModel \notin Models

Chunks == UNION {ChunksOf[d] : d \in Docs}
Texts == {t \in [Docs -> SUBSET Chunks] : \A d \in Docs : t[d] \subseteq ChunksOf[d]}

VARIABLES
    texts,      \* the text of each file
    manifest,   \* each document's visibility in the manifest
    model,      \* EMBEDDING_MODEL
    collection, \* the collection and its fingerprint sentinel
    points,     \* what the collection holds
    ingests,    \* what each ingestion has reached and holds
    calm        \* observation: see NoteTrouble

vars == <<texts, manifest, model, collection, points, ingests, calm>>

Listing == [Docs -> Visibilities \cup {Unlisted}]

Point == [doc : Docs, chunk : Chunks, visibility : Visibilities, model : Models]

IngestPcs == {"idle", "reading", "checking", "creating", "fingerprint", "adopting",
              "listing", "deleting", "upserting", "scrolling", "pruning"}

Ingest == [pc : IngestPcs, prune : BOOLEAN,
           plan : Listing,              \* the manifest as it was read
           todo : SUBSET Docs,          \* documents to ingest, or orphans to delete
           doc : SUBSET Docs,           \* the document at hand
           text : SUBSET Chunks]        \* its text as it was read

Idle == [pc |-> "idle", prune |-> FALSE,
         plan |-> [d \in Docs |-> Unlisted], todo |-> {}, doc |-> {}, text |-> {}]

TypeOK ==
    /\ texts \in Texts
    /\ manifest \in Listing
    /\ model \in Models
    /\ collection \in [exists : BOOLEAN, fingerprint : Models \cup {NoModel}]
    /\ points \subseteq Point
    /\ ingests \in [Ingests -> Ingest]
    /\ calm \in BOOLEAN

NoCollection == [exists |-> FALSE, fingerprint |-> NoModel]

Init ==
    /\ texts \in Texts
    /\ manifest \in Listing
    /\ model \in Models
    /\ collection = NoCollection
    /\ points = {}
    /\ ingests = [i \in Ingests |-> Idle]
    /\ calm = FALSE

-----------------------------------------------------------------------------
(* Helpers *)

Running == {i \in Ingests : ingests[i].pc # "idle"}
Quiet == Running = {}

Listed(plan) == {d \in Docs : plan[d] # Unlisted}

SourcePoints(d) == {p \in points : p.doc = d}

\* list_source_chunk_ids
StoredText(d) == {p.chunk : p \in SourcePoints(d)}

\* calm: nothing was edited or reset and no ingestion failed since a moment
\* when none was running
NoteTrouble == calm' = FALSE

At(i, pc) == ingests[i].pc = pc

Goto(i, pc) == ingests' = [ingests EXCEPT ![i].pc = pc]

\* an exception leaves the ingestion where it is; the session is created anyway
Abort(i) ==
    /\ ingests' = [ingests EXCEPT ![i] = Idle]
    /\ NoteTrouble

\* on to the next document, to the prune, or to the end
NextDocument(i) ==
    LET left == ingests[i].todo \ ingests[i].doc IN
    ingests' = [ingests EXCEPT ![i] =
        IF left = {} /\ ~ingests[i].prune THEN Idle
        ELSE [@ EXCEPT !.pc = IF left = {} THEN "scrolling" ELSE "reading",
                       !.todo = left, !.doc = {}, !.text = {}]]

-----------------------------------------------------------------------------
(* ingest_lore_manifest *)

\* a manifest without documents leaves the prune alone
FirstPc == IF Listed(manifest) = {} THEN "scrolling" ELSE "reading"

\* the manifest is read once; start-session and POST /sessions do not prune, and
\* where nothing is listed either they do nothing
StartIngest(i, prune) ==
    /\ At(i, "idle")
    /\ prune \/ Listed(manifest) # {}
    /\ ingests' = [ingests EXCEPT ![i] =
         [Idle EXCEPT !.pc = FirstPc, !.prune = prune,
                      !.plan = manifest, !.todo = Listed(manifest)]]
    /\ calm' = (calm \/ Quiet)
    /\ UNCHANGED <<texts, manifest, model, collection, points>>

\* a missing file and an empty one end the ingestion
ReadDocument(i, d) ==
    /\ At(i, "reading")
    /\ d \in ingests[i].todo
    /\ IF texts[d] = {}
       THEN Abort(i)
       ELSE /\ ingests' = [ingests EXCEPT ![i] =
                 [@ EXCEPT !.pc = "checking", !.doc = {d}, !.text = texts[d]]]
            /\ UNCHANGED calm
    /\ UNCHANGED <<texts, manifest, model, collection, points>>

\* ensure_collection: collection_exists
CheckCollection(i) ==
    /\ At(i, "checking")
    /\ Goto(i, IF collection.exists THEN "fingerprint" ELSE "creating")
    /\ UNCHANGED <<texts, manifest, model, collection, points, calm>>

\* create_collection fails when another ingestion was faster
CreateCollection(i) ==
    /\ At(i, "creating")
    /\ IF collection.exists
       THEN Abort(i) /\ UNCHANGED collection
       ELSE /\ collection' = [collection EXCEPT !.exists = TRUE]
            /\ Goto(i, "fingerprint")
            /\ UNCHANGED calm
    /\ UNCHANGED <<texts, manifest, model, points>>

\* Variant: a foreign fingerprint is adopted over
AdoptsFingerprint == collection.fingerprint # model

\* _check_or_adopt_fingerprint adopts only where there is none
MustAdopt == collection.fingerprint = NoModel

ReadFingerprint(i) ==
    /\ At(i, "fingerprint")
    /\ IF collection.fingerprint = model
       THEN Goto(i, "listing") /\ UNCHANGED calm
       ELSE IF MustAdopt
       THEN Goto(i, "adopting") /\ UNCHANGED calm
       ELSE Abort(i)
    /\ UNCHANGED <<texts, manifest, model, collection, points>>

\* _write_fingerprint
AdoptModel(i) ==
    /\ At(i, "adopting")
    /\ collection' = [collection EXCEPT !.fingerprint = model]
    /\ Goto(i, "listing")
    /\ UNCHANGED <<texts, manifest, model, points, calm>>

-----------------------------------------------------------------------------
(* ingest_document, after the guards *)

\* Variant: a document all of whose chunks are stored counts as unchanged
AllStored(i) == \A d \in ingests[i].doc : ingests[i].text \subseteq StoredText(d)

\* the content-fingerprint skip
Unchanged(i) == \A d \in ingests[i].doc : ingests[i].text = StoredText(d)

SkipDocument(i) ==
    /\ At(i, "listing")
    /\ Unchanged(i)
    /\ NextDocument(i)
    /\ UNCHANGED <<texts, manifest, model, collection, points, calm>>

\* changed, or unchanged and forced, or the ids could not be read: --force is
\* an ingestion that takes this step for every document
ReplaceDocument(i) ==
    /\ At(i, "listing")
    /\ Goto(i, "deleting")
    /\ UNCHANGED <<texts, manifest, model, collection, points, calm>>

\* replace_source: delete by source
DeleteOld(i) ==
    /\ At(i, "deleting")
    /\ points' = {p \in points : p.doc \notin ingests[i].doc}
    /\ Goto(i, "upserting")
    /\ UNCHANGED <<texts, manifest, model, collection, calm>>

\* Variant: the manifest is looked up again when the points are written
NewPointsLive(i) ==
    {[doc |-> d, chunk |-> c, visibility |-> manifest[d], model |-> model] :
        d \in ingests[i].doc, c \in ingests[i].text}

NewPoints(i) ==
    {[doc |-> d, chunk |-> c, visibility |-> ingests[i].plan[d], model |-> model] :
        d \in ingests[i].doc, c \in ingests[i].text}

\* replace_source: upsert, which overwrites points with the same id
UpsertNew(i) ==
    /\ At(i, "upserting")
    /\ points' = NewPoints(i) \cup
         {p \in points : \A q \in NewPoints(i) : <<p.doc, p.chunk>> # <<q.doc, q.chunk>>}
    /\ NextDocument(i)
    /\ UNCHANGED <<texts, manifest, model, collection, calm>>

-----------------------------------------------------------------------------
(* ingest-scenario-lore --prune *)

\* stored sources of this scenario that its manifest did not name
ScrollOrphans(i) ==
    LET orphans == {p.doc : p \in points} \ Listed(ingests[i].plan) IN
    /\ At(i, "scrolling")
    /\ ingests' = [ingests EXCEPT ![i] =
         IF orphans = {} THEN Idle ELSE [@ EXCEPT !.pc = "pruning", !.todo = orphans]]
    /\ UNCHANGED <<texts, manifest, model, collection, points, calm>>

\* delete_source_points, one orphan after the other
PruneSource(i, d) ==
    LET left == ingests[i].todo \ {d} IN
    /\ At(i, "pruning")
    /\ d \in ingests[i].todo
    /\ points' = {p \in points : p.doc # d}
    /\ ingests' = [ingests EXCEPT ![i] =
         IF left = {} THEN Idle ELSE [@ EXCEPT !.todo = left]]
    /\ UNCHANGED <<texts, manifest, model, collection, calm>>

\* any call of the store may raise, and the process may be killed between two
FailIngest(i) ==
    /\ ~At(i, "idle")
    /\ Abort(i)
    /\ UNCHANGED <<texts, manifest, model, collection, points>>

-----------------------------------------------------------------------------
(* Authors and operators *)

EditFile(d, text) ==
    /\ texts' = [texts EXCEPT ![d] = text]
    /\ NoteTrouble
    /\ UNCHANGED <<manifest, model, collection, points, ingests>>

EditManifest(d, visibility) ==
    /\ manifest' = [manifest EXCEPT ![d] = visibility]
    /\ NoteTrouble
    /\ UNCHANGED <<texts, model, collection, points, ingests>>

ResetIndex ==
    /\ Quiet
    /\ collection' = NoCollection
    /\ points' = {}
    /\ NoteTrouble
    /\ UNCHANGED <<texts, manifest, model, ingests>>

ChangeModel(m) ==
    /\ Quiet
    /\ model' = m
    /\ NoteTrouble
    /\ UNCHANGED <<texts, manifest, collection, points, ingests>>

IngestStep(i) ==
    \/ \E prune \in BOOLEAN : StartIngest(i, prune)
    \/ \E d \in Docs : ReadDocument(i, d) \/ PruneSource(i, d)
    \/ CheckCollection(i) \/ CreateCollection(i)
    \/ ReadFingerprint(i) \/ AdoptModel(i)
    \/ SkipDocument(i) \/ ReplaceDocument(i) \/ DeleteOld(i) \/ UpsertNew(i)
    \/ ScrollOrphans(i)
    \/ FailIngest(i)

Next ==
    \/ \E i \in Ingests : IngestStep(i)
    \/ \E d \in Docs : \E text \in SUBSET ChunksOf[d] : EditFile(d, text)
    \/ \E d \in Docs, visibility \in Visibilities \cup {Unlisted} :
          EditManifest(d, visibility)
    \/ ResetIndex
    \/ \E m \in Models : ChangeModel(m)

Spec == Init /\ [][Next]_vars

-----------------------------------------------------------------------------
(* Properties *)

\* Vectors of two embedding models never share the collection, and the
\* fingerprint names the model of every vector in it, through failures between
\* creating, adopting, deleting and upserting, overlapping first contacts and
\* model changes with the reset forgotten (vector_store.py:394-412,
\* docs/23_embedding_migration_runbook.md:12)
OneModel ==
    \A p \in points : p.model = collection.fingerprint

\* Whatever edits, failures and overlaps did to the index, one undisturbed
\* round repairs it: once ingestions that nobody disturbed have ended, each
\* listed document is stored with exactly the chunks of its file, none missing
\* after a replacement that was cut in half and none left of an older text
\* (ingestion.py:92-116, vector_store.py:455-471)
UndisturbedIndexIsCurrent ==
    calm /\ Quiet => \A d \in Listed(manifest) : StoredText(d) = texts[d]

\* What ingestion.py:93-96 says: where the ids are unchanged a full ingestion
\* would end in an identical state.  The ids do not hash the visibility: a
\* document whose visibility was changed in the manifest keeps the old one
SkipIsIdentical ==
    calm /\ Quiet =>
        \A p \in points : manifest[p.doc] \in {Unlisted, p.visibility}
=============================================================================
