-------------------------- MODULE LoreIngestProofs --------------------------
(***************************************************************************)
(* One embedding model per collection, and an index that an undisturbed    *)
(* round of ingestions leaves current, for any documents, visibilities,    *)
(* models and number of overlapping ingestions.                            *)
(***************************************************************************)
EXTENDS LoreIngest, TLAPS

\* where an ingestion has a document of the manifest it read
WorkingPcs == {"reading", "checking", "creating", "fingerprint", "adopting",
               "listing", "deleting", "upserting"}

\* where it has compared the fingerprint
CheckedPcs == {"listing", "deleting", "upserting"}

\* an ingestion works only on documents its copy of the manifest lists, so it
\* writes no point without a visibility
WorksOnListed ==
    \A i \in Ingests : ingests[i].pc \in WorkingPcs =>
        ingests[i].todo \subseteq Listed(ingests[i].plan) /\ ingests[i].doc \subseteq ingests[i].todo

TypeInv == TypeOK /\ WorksOnListed

\* an ingestion that has passed the check may rely on it, although it does not
\* look at the fingerprint again; one about to adopt finds none or its own
CheckHolds ==
    \A i \in Ingests :
        /\ ingests[i].pc \in CheckedPcs => collection.fingerprint = model
        /\ ingests[i].pc = "adopting" => collection.fingerprint \in {NoModel, model}

ModelInv == TypeInv /\ CheckHolds /\ OneModel

\* ingestion i has yet to handle document d
Owes(i, d) == ingests[i].pc \in WorkingPcs /\ d \in ingests[i].todo

\* while nothing disturbs them the ingestions work from the manifest and the
\* files as they are, and each listed document that is not current is owed
Undisturbed ==
    calm =>
        /\ \A i \in Ingests : ~At(i, "idle") => ingests[i].plan = manifest
        /\ \A i \in Ingests : ingests[i].pc \in WorkingPcs \ {"reading"} =>
              \A d \in ingests[i].doc : ingests[i].text = texts[d]
        /\ \A i \in Ingests : At(i, "upserting") =>
              \A d \in ingests[i].doc : StoredText(d) \subseteq texts[d]
        /\ \A i \in Ingests : At(i, "pruning") => ingests[i].todo \cap Listed(manifest) = {}
        /\ \A d \in Listed(manifest) :
              StoredText(d) = texts[d] \/ \E i \in Ingests : Owes(i, d)

CurrentInv == TypeInv /\ Undisturbed

-----------------------------------------------------------------------------
(* Types *)

\* a step that only moves ingestion i to a well-formed record keeps the types
LEMMA IngestMoves ==
    ASSUME TypeInv, NEW i \in Ingests, NEW r \in Ingest,
           r.pc \in WorkingPcs => r.todo \subseteq Listed(r.plan) /\ r.doc \subseteq r.todo,
           ingests' = [ingests EXCEPT ![i] = r]
    PROVE  ingests' \in [Ingests -> Ingest] /\ WorksOnListed'
  <1>1. ingests \in [Ingests -> Ingest]
    BY DEF TypeInv, TypeOK
  <1>2. \A j \in Ingests : ingests'[j] = IF j = i THEN r ELSE ingests[j]
    BY <1>1
  <1>3. WorksOnListed'
    BY <1>2 DEF TypeInv, WorksOnListed, Listed
  <1> QED
    BY <1>1, <1>3

\* ingestion i is a record of its type
LEMMA IngestTyped ==
    ASSUME TypeInv, NEW i \in Ingests
    PROVE  /\ ingests[i] \in Ingest
           /\ ingests[i].pc \in WorkingPcs =>
                ingests[i].todo \subseteq Listed(ingests[i].plan)
                /\ ingests[i].doc \subseteq ingests[i].todo
  BY DEF TypeInv, TypeOK, WorksOnListed

LEMMA IdleTyped == Idle \in Ingest
  BY DEF Idle, Ingest, IngestPcs, Listing

\* moving on to another stage of the same document
LEMMA GotoTyped ==
    ASSUME TypeInv, NEW i \in Ingests, NEW pc \in WorkingPcs,
           ingests[i].pc \in WorkingPcs, Goto(i, pc)
    PROVE  ingests' \in [Ingests -> Ingest] /\ WorksOnListed'
  <1> DEFINE r == [ingests[i] EXCEPT !.pc = pc]
  <1>1. r \in Ingest /\ r.todo = ingests[i].todo /\ r.doc = ingests[i].doc
        /\ r.plan = ingests[i].plan
    BY IngestTyped DEF Ingest, WorkingPcs, IngestPcs
  <1>2. ingests' = [ingests EXCEPT ![i] = r]
    BY DEF Goto
  <1> HIDE DEF r
  <1> QED
    BY <1>1, <1>2, IngestTyped, IngestMoves

LEMMA AbortTyped ==
    ASSUME TypeInv, NEW i \in Ingests, Abort(i)
    PROVE  ingests' \in [Ingests -> Ingest] /\ WorksOnListed' /\ calm' \in BOOLEAN
  <1>1. Idle.pc \notin WorkingPcs
    BY DEF Idle, WorkingPcs
  <1> QED
    BY <1>1, IdleTyped, IngestMoves DEF Abort, NoteTrouble

LEMMA NextDocumentTyped ==
    ASSUME TypeInv, NEW i \in Ingests, ingests[i].pc \in WorkingPcs, NextDocument(i)
    PROVE  ingests' \in [Ingests -> Ingest] /\ WorksOnListed'
  <1> DEFINE left == ingests[i].todo \ ingests[i].doc
             r == IF left = {} /\ ~ingests[i].prune THEN Idle
                  ELSE [ingests[i] EXCEPT
                          !.pc = IF left = {} THEN "scrolling" ELSE "reading",
                          !.todo = left, !.doc = {}, !.text = {}]
  <1>1. ingests' = [ingests EXCEPT ![i] = r]
    BY DEF NextDocument
  <1>2. CASE left = {} /\ ~ingests[i].prune
    <2>1. r = Idle /\ Idle.pc \notin WorkingPcs
      BY <1>2 DEF Idle, WorkingPcs
    <2> HIDE DEF r
    <2> QED
      BY <1>1, <2>1, IdleTyped, IngestMoves
  <1>3. CASE ~(left = {} /\ ~ingests[i].prune)
    <2>1. r \in Ingest
      BY <1>3, IngestTyped DEF Ingest, IngestPcs
    <2>2. r.plan = ingests[i].plan /\ r.todo \subseteq ingests[i].todo /\ r.doc = {}
      BY <1>3, IngestTyped DEF Ingest
    <2> HIDE DEF r
    <2> QED
      BY <1>1, <2>1, <2>2, IngestTyped, IngestMoves
  <1> QED
    BY <1>2, <1>3

\* points written for listed documents are typed: each has a visibility
LEMMA NewPointsTyped ==
    ASSUME LoreAssumption, TypeInv, NEW i \in Ingests, ingests[i].pc \in WorkingPcs
    PROVE  NewPoints(i) \subseteq Point
  <1>1. model \in Models
    BY DEF TypeInv, TypeOK
  <1>2. /\ ingests[i].text \subseteq Chunks
        /\ ingests[i].plan \in Listing
        /\ ingests[i].doc \subseteq Listed(ingests[i].plan)
    BY IngestTyped DEF Ingest
  <1>3. \A d \in ingests[i].doc : d \in Docs /\ ingests[i].plan[d] \in Visibilities
    BY <1>2 DEF Listing, Listed
  <1> QED
    BY <1>1, <1>2, <1>3 DEF NewPoints, Point

LEMMA InitTypes == LoreAssumption /\ Init => TypeInv
  <1> SUFFICES ASSUME LoreAssumption, Init
               PROVE  TypeInv
    OBVIOUS
  <1>1. collection \in [exists : BOOLEAN, fingerprint : Models \cup {NoModel}]
    BY DEF Init, NoCollection
  <1>2. ingests \in [Ingests -> Ingest]
    BY IdleTyped DEF Init
  <1>3. WorksOnListed
    BY DEF Init, WorksOnListed, Idle, WorkingPcs
  <1> QED
    BY <1>1, <1>2, <1>3 DEF Init, TypeInv, TypeOK

\* the steps of one ingestion keep the types of what it holds
LEMMA IngestStepTypes ==
    ASSUME LoreAssumption, TypeInv, NEW i \in Ingests, IngestStep(i)
    PROVE  ingests' \in [Ingests -> Ingest] /\ WorksOnListed'
  <1> USE DEF At
  <1>1. ASSUME NEW prune \in BOOLEAN, StartIngest(i, prune)
        PROVE  ingests' \in [Ingests -> Ingest] /\ WorksOnListed'
    <2> DEFINE r == [Idle EXCEPT !.pc = FirstPc, !.prune = prune,
                                 !.plan = manifest, !.todo = Listed(manifest)]
    <2>1. ingests' = [ingests EXCEPT ![i] = r]
      BY <1>1 DEF StartIngest
    <2>2. manifest \in Listing /\ Listed(manifest) \subseteq Docs
      BY DEF TypeInv, TypeOK, Listed
    <2>3. r \in Ingest
      BY <2>2, IdleTyped DEF Ingest, IngestPcs, FirstPc
    <2>4. r.todo = Listed(manifest) /\ r.plan = manifest /\ r.doc = {}
      BY IdleTyped DEF Ingest, Idle
    <2> HIDE DEF r
    <2> QED
      BY <2>1, <2>3, <2>4, IngestMoves
  <1>2. ASSUME NEW d \in Docs, ReadDocument(i, d)
        PROVE  ingests' \in [Ingests -> Ingest] /\ WorksOnListed'
    <2>1. CASE texts[d] = {}
      BY <1>2, <2>1, AbortTyped DEF ReadDocument
    <2>2. CASE texts[d] # {}
      <3> DEFINE r == [ingests[i] EXCEPT !.pc = "checking", !.doc = {d}, !.text = texts[d]]
      <3>1. ingests' = [ingests EXCEPT ![i] = r]
        BY <1>2, <2>2 DEF ReadDocument
      <3>2. ingests[i].pc = "reading" /\ d \in ingests[i].todo
        BY <1>2 DEF ReadDocument
      <3>3. texts[d] \subseteq Chunks
        BY DEF TypeInv, TypeOK, Texts, Chunks
      <3>4. r \in Ingest /\ r.plan = ingests[i].plan /\ r.todo = ingests[i].todo
            /\ r.doc = {d}
        BY <3>3, IngestTyped DEF Ingest, IngestPcs
      <3> HIDE DEF r
      <3> QED
        BY <3>1, <3>2, <3>4, IngestTyped, IngestMoves DEF WorkingPcs
    <2> QED
      BY <2>1, <2>2
  <1>3. ASSUME NEW d \in Docs, PruneSource(i, d)
        PROVE  ingests' \in [Ingests -> Ingest] /\ WorksOnListed'
    <2> DEFINE left == ingests[i].todo \ {d}
               r == IF left = {} THEN Idle ELSE [ingests[i] EXCEPT !.todo = left]
    <2>1. ingests' = [ingests EXCEPT ![i] = r]
      BY <1>3 DEF PruneSource
    <2>2. ingests[i].pc = "pruning"
      BY <1>3 DEF PruneSource
    <2>3. r \in Ingest
      BY IdleTyped, IngestTyped DEF Ingest
    <2>4. r.pc \notin WorkingPcs
      BY <2>2, IngestTyped DEF Idle, Ingest, WorkingPcs
    <2> HIDE DEF r
    <2> QED
      BY <2>1, <2>3, <2>4, IngestMoves
  <1>4. ASSUME NEW pc \in WorkingPcs, ingests[i].pc \in WorkingPcs, Goto(i, pc)
        PROVE  ingests' \in [Ingests -> Ingest] /\ WorksOnListed'
    BY <1>4, GotoTyped
  <1>5. CASE CheckCollection(i)
    BY <1>4, <1>5 DEF CheckCollection, WorkingPcs
  <1>6. CASE CreateCollection(i)
    BY <1>4, <1>6, AbortTyped DEF CreateCollection, WorkingPcs
  <1>7. CASE ReadFingerprint(i)
    BY <1>4, <1>7, AbortTyped DEF ReadFingerprint, WorkingPcs
  <1>8. CASE AdoptModel(i)
    BY <1>4, <1>8 DEF AdoptModel, WorkingPcs
  <1>9. CASE SkipDocument(i)
    BY <1>9, NextDocumentTyped DEF SkipDocument, WorkingPcs
  <1>10. CASE ReplaceDocument(i)
    BY <1>4, <1>10 DEF ReplaceDocument, WorkingPcs
  <1>11. CASE DeleteOld(i)
    BY <1>4, <1>11 DEF DeleteOld, WorkingPcs
  <1>12. CASE UpsertNew(i)
    BY <1>12, NextDocumentTyped DEF UpsertNew, WorkingPcs
  <1>13. CASE ScrollOrphans(i)
    <2> DEFINE orphans == {p.doc : p \in points} \ Listed(ingests[i].plan)
               r == IF orphans = {} THEN Idle
                    ELSE [ingests[i] EXCEPT !.pc = "pruning", !.todo = orphans]
    <2>1. ingests' = [ingests EXCEPT ![i] = r]
      BY <1>13 DEF ScrollOrphans
    <2>2. orphans \subseteq Docs
      BY DEF TypeInv, TypeOK, Point
    <2> HIDE DEF orphans
    <2>3. r \in Ingest
      BY <2>2, IdleTyped, IngestTyped DEF Ingest, IngestPcs
    <2>4. r.pc \notin WorkingPcs
      BY IngestTyped DEF Idle, Ingest, WorkingPcs
    <2> HIDE DEF r
    <2> QED
      BY <2>1, <2>3, <2>4, IngestMoves
  <1>14. CASE FailIngest(i)
    BY <1>14, AbortTyped DEF FailIngest
  <1> QED
    BY <1>1, <1>2, <1>3, <1>5, <1>6, <1>7, <1>8, <1>9, <1>10, <1>11, <1>12, <1>13, <1>14
       DEF IngestStep

\* so every step keeps every type
LEMMA StepTypes == LoreAssumption /\ TypeInv /\ [Next]_vars => TypeInv'
  <1> SUFFICES ASSUME LoreAssumption, TypeInv, [Next]_vars
               PROVE  TypeInv'
    OBVIOUS
  <1> USE DEF TypeInv
  <1>1. ASSUME NEW i \in Ingests, IngestStep(i)
        PROVE  TypeInv'
    <2> ingests' \in [Ingests -> Ingest] /\ WorksOnListed'
      BY <1>1, IngestStepTypes
    <2> SUFFICES TypeOK'
      OBVIOUS
    <2> USE DEF TypeOK
    <2>1. ASSUME NEW prune \in BOOLEAN, StartIngest(i, prune)
          PROVE  TypeOK'
      BY <2>1 DEF StartIngest
    <2>2. ASSUME NEW d \in Docs, ReadDocument(i, d)
          PROVE  TypeOK'
      BY <2>2 DEF ReadDocument, Abort, NoteTrouble
    <2>3. ASSUME NEW d \in Docs, PruneSource(i, d)
          PROVE  TypeOK'
      BY <2>3 DEF PruneSource
    <2>4. CASE CheckCollection(i)
      BY <2>4 DEF CheckCollection
    <2>5. CASE CreateCollection(i)
      BY <2>5 DEF CreateCollection, Abort, NoteTrouble
    <2>6. CASE ReadFingerprint(i)
      BY <2>6 DEF ReadFingerprint, Abort, NoteTrouble
    <2>7. CASE AdoptModel(i)
      BY <2>7 DEF AdoptModel
    <2>8. CASE SkipDocument(i)
      BY <2>8 DEF SkipDocument
    <2>9. CASE ReplaceDocument(i)
      BY <2>9 DEF ReplaceDocument
    <2>10. CASE DeleteOld(i)
      BY <2>10 DEF DeleteOld
    <2>11. CASE UpsertNew(i)
      <3>1. NewPoints(i) \subseteq Point
        BY <2>11, NewPointsTyped DEF UpsertNew, At, WorkingPcs
      <3>2. points' \subseteq NewPoints(i) \cup points
        BY <2>11 DEF UpsertNew
      <3> QED
        BY <2>11, <3>1, <3>2 DEF UpsertNew
    <2>12. CASE ScrollOrphans(i)
      BY <2>12 DEF ScrollOrphans
    <2>13. CASE FailIngest(i)
      BY <2>13 DEF FailIngest, Abort, NoteTrouble
    <2> QED
      BY <1>1, <2>1, <2>2, <2>3, <2>4, <2>5, <2>6, <2>7, <2>8, <2>9, <2>10, <2>11, <2>12, <2>13
         DEF IngestStep
  <1>2. ASSUME NEW d \in Docs, NEW text \in SUBSET ChunksOf[d], EditFile(d, text)
        PROVE  TypeInv'
    <2>1. text \subseteq Chunks
      BY DEF Chunks
    <2>2. texts' \in Texts
      BY <1>2, <2>1 DEF EditFile, TypeOK, Texts
    <2> QED
      BY <1>2, <2>2 DEF EditFile, TypeOK, WorksOnListed, Listed, NoteTrouble
  <1>3. ASSUME NEW d \in Docs, NEW visibility \in Visibilities \cup {Unlisted},
               EditManifest(d, visibility)
        PROVE  TypeInv'
    <2>1. manifest' \in Listing
      BY <1>3 DEF EditManifest, TypeOK, Listing
    <2> QED
      BY <1>3, <2>1 DEF EditManifest, TypeOK, WorksOnListed, Listed, NoteTrouble
  <1>4. CASE ResetIndex
    BY <1>4 DEF ResetIndex, NoCollection, TypeOK, WorksOnListed, Listed, NoteTrouble
  <1>5. ASSUME NEW m \in Models, ChangeModel(m)
        PROVE  TypeInv'
    BY <1>5 DEF ChangeModel, TypeOK, WorksOnListed, Listed, NoteTrouble
  <1>6. CASE UNCHANGED vars
    BY <1>6 DEF vars, TypeOK, WorksOnListed, Listed
  <1> QED
    BY <1>1, <1>2, <1>3, <1>4, <1>5, <1>6 DEF Next

-----------------------------------------------------------------------------
(* One model *)

\* a step that touches neither the model nor the fingerprint, adds no point, and
\* brings no ingestion past the check
LEMMA QuietModelStep ==
    ASSUME ModelInv, model' = model, collection'.fingerprint = collection.fingerprint,
           points' \subseteq points,
           \A i \in Ingests :
              /\ ingests'[i].pc \in CheckedPcs => ingests[i].pc \in CheckedPcs
              /\ ingests'[i].pc = "adopting" => ingests[i].pc = "adopting"
    PROVE  CheckHolds' /\ OneModel'
  BY DEF ModelInv, CheckHolds, OneModel

\* the stages an ingestion may be in after a step of ingestion i
LEMMA PcMoves ==
    ASSUME TypeInv, NEW i \in Ingests, NEW r, ingests' = [ingests EXCEPT ![i] = r]
    PROVE  ingests'[i] = r /\ \A j \in Ingests \ {i} : ingests'[j] = ingests[j]
  BY DEF TypeInv, TypeOK

LEMMA GotoPc ==
    ASSUME TypeInv, NEW i \in Ingests, NEW pc, Goto(i, pc)
    PROVE  ingests'[i].pc = pc /\ \A j \in Ingests \ {i} : ingests'[j].pc = ingests[j].pc
  <1>1. [ingests[i] EXCEPT !.pc = pc].pc = pc
    BY IngestTyped DEF Ingest
  <1> DEFINE r == [ingests[i] EXCEPT !.pc = pc]
  <1>2. ingests' = [ingests EXCEPT ![i] = r]
    BY DEF Goto
  <1>3. r.pc = pc
    BY <1>1
  <1> HIDE DEF r
  <1> QED
    BY <1>2, <1>3, PcMoves

LEMMA NextDocumentPc ==
    ASSUME TypeInv, NEW i \in Ingests, NextDocument(i)
    PROVE  /\ ingests'[i].pc \in {"idle", "scrolling", "reading"}
           /\ \A j \in Ingests \ {i} : ingests'[j].pc = ingests[j].pc
  <1> DEFINE left == ingests[i].todo \ ingests[i].doc
             r == IF left = {} /\ ~ingests[i].prune THEN Idle
                  ELSE [ingests[i] EXCEPT
                          !.pc = IF left = {} THEN "scrolling" ELSE "reading",
                          !.todo = left, !.doc = {}, !.text = {}]
  <1>1. ingests' = [ingests EXCEPT ![i] = r]
    BY DEF NextDocument
  <1>2. r.pc \in {"idle", "scrolling", "reading"}
    BY IngestTyped DEF Ingest, Idle
  <1> HIDE DEF r
  <1> QED
    BY <1>1, <1>2, PcMoves

LEMMA AbortPc ==
    ASSUME TypeInv, NEW i \in Ingests, Abort(i)
    PROVE  ingests'[i].pc = "idle" /\ \A j \in Ingests \ {i} : ingests'[j].pc = ingests[j].pc
  <1>1. ingests' = [ingests EXCEPT ![i] = Idle]
    BY DEF Abort
  <1>2. Idle.pc = "idle"
    BY DEF Idle
  <1> QED
    BY <1>1, <1>2, PcMoves

\* ingestions on their way to the check, skipping, pruning or giving up
LEMMA QuietIngestStep ==
    ASSUME ModelInv, NEW i \in Ingests,
           \/ \E prune \in BOOLEAN : StartIngest(i, prune)
           \/ \E d \in Docs : ReadDocument(i, d) \/ PruneSource(i, d)
           \/ CheckCollection(i) \/ CreateCollection(i)
           \/ SkipDocument(i) \/ ReplaceDocument(i) \/ DeleteOld(i)
           \/ ScrollOrphans(i) \/ FailIngest(i)
    PROVE  CheckHolds' /\ OneModel'
  <1> TypeInv
    BY DEF ModelInv
  <1> DEFINE quiet ==
        /\ model' = model
        /\ collection'.fingerprint = collection.fingerprint
        /\ points' \subseteq points
        /\ \A j \in Ingests \ {i} : ingests'[j].pc = ingests[j].pc
        /\ ingests'[i].pc \in CheckedPcs => ingests[i].pc \in CheckedPcs
        /\ ingests'[i].pc # "adopting"
  <1> SUFFICES quiet
    BY QuietModelStep
  <1>1. ASSUME NEW prune \in BOOLEAN, StartIngest(i, prune)
        PROVE  quiet
    <2> DEFINE r == [Idle EXCEPT !.pc = FirstPc, !.prune = prune,
                                 !.plan = manifest, !.todo = Listed(manifest)]
    <2>1. ingests' = [ingests EXCEPT ![i] = r]
      BY <1>1 DEF StartIngest
    <2>2. r.pc \in {"reading", "scrolling"}
      BY IdleTyped DEF Ingest, FirstPc
    <2> HIDE DEF r
    <2> QED
      BY <1>1, <2>1, <2>2, PcMoves DEF StartIngest, CheckedPcs
  <1>2. ASSUME NEW d \in Docs, ReadDocument(i, d)
        PROVE  quiet
    <2>1. CASE texts[d] = {}
      BY <1>2, <2>1, AbortPc DEF ReadDocument, CheckedPcs
    <2>2. CASE texts[d] # {}
      <3> DEFINE r == [ingests[i] EXCEPT !.pc = "checking", !.doc = {d}, !.text = texts[d]]
      <3>1. ingests' = [ingests EXCEPT ![i] = r]
        BY <1>2, <2>2 DEF ReadDocument
      <3>2. r.pc = "checking"
        BY IngestTyped DEF Ingest
      <3> HIDE DEF r
      <3> QED
        BY <1>2, <3>1, <3>2, PcMoves DEF ReadDocument, CheckedPcs
    <2> QED
      BY <2>1, <2>2
  <1>3. ASSUME NEW d \in Docs, PruneSource(i, d)
        PROVE  quiet
    <2> DEFINE left == ingests[i].todo \ {d}
               r == IF left = {} THEN Idle ELSE [ingests[i] EXCEPT !.todo = left]
    <2>1. ingests' = [ingests EXCEPT ![i] = r]
      BY <1>3 DEF PruneSource
    <2>2. r.pc \in {"idle", "pruning"}
      BY <1>3, IngestTyped DEF PruneSource, At, Ingest, Idle
    <2> HIDE DEF r
    <2> QED
      BY <1>3, <2>1, <2>2, PcMoves DEF PruneSource, CheckedPcs
  <1>4. CASE CheckCollection(i)
    BY <1>4, GotoPc DEF CheckCollection, CheckedPcs
  <1>5. CASE CreateCollection(i)
    <2>1. collection'.fingerprint = collection.fingerprint
      BY <1>5 DEF CreateCollection, TypeInv, TypeOK
    <2> QED
      BY <1>5, <2>1, GotoPc, AbortPc DEF CreateCollection, CheckedPcs
  <1>6. CASE SkipDocument(i)
    BY <1>6, NextDocumentPc DEF SkipDocument, CheckedPcs
  <1>7. CASE ReplaceDocument(i)
    BY <1>7, GotoPc DEF ReplaceDocument, At, CheckedPcs
  <1>8. CASE DeleteOld(i)
    BY <1>8, GotoPc DEF DeleteOld, At, CheckedPcs
  <1>9. CASE ScrollOrphans(i)
    <2> DEFINE orphans == {p.doc : p \in points} \ Listed(ingests[i].plan)
               r == IF orphans = {} THEN Idle
                    ELSE [ingests[i] EXCEPT !.pc = "pruning", !.todo = orphans]
    <2>1. ingests' = [ingests EXCEPT ![i] = r]
      BY <1>9 DEF ScrollOrphans
    <2>2. r.pc \in {"idle", "pruning"}
      BY IngestTyped DEF Ingest, Idle
    <2> HIDE DEF r
    <2> QED
      BY <1>9, <2>1, <2>2, PcMoves DEF ScrollOrphans, CheckedPcs
  <1>10. CASE FailIngest(i)
    BY <1>10, AbortPc DEF FailIngest, CheckedPcs
  <1> QED
    BY <1>1, <1>2, <1>3, <1>4, <1>5, <1>6, <1>7, <1>8, <1>9, <1>10

\* the check itself, the adoption and the write of the points
LEMMA FingerprintStep ==
    ASSUME LoreAssumption, ModelInv, NEW i \in Ingests,
           ReadFingerprint(i) \/ AdoptModel(i) \/ UpsertNew(i)
    PROVE  CheckHolds' /\ OneModel'
  <1> USE DEF ModelInv
  <1>1. CASE ReadFingerprint(i)
    <2>1. CASE collection.fingerprint = model
      BY <1>1, <2>1, GotoPc DEF ReadFingerprint, CheckHolds, OneModel, CheckedPcs
    <2>2. CASE collection.fingerprint # model /\ collection.fingerprint = NoModel
      BY <1>1, <2>2, GotoPc DEF ReadFingerprint, MustAdopt, CheckHolds, OneModel, CheckedPcs
    <2>3. CASE collection.fingerprint # model /\ collection.fingerprint # NoModel
      BY <1>1, <2>3, AbortPc DEF ReadFingerprint, MustAdopt, CheckHolds, OneModel, CheckedPcs
    <2> QED
      BY <2>1, <2>2, <2>3
  <1>2. CASE AdoptModel(i)
    <2>1. collection'.fingerprint = model /\ model' = model /\ points' = points
      BY <1>2 DEF AdoptModel, TypeInv, TypeOK
    <2>2. collection.fingerprint \in {NoModel, model}
      BY <1>2 DEF AdoptModel, At, CheckHolds
    <2>3. \A p \in points : p.model = model
      BY <2>2 DEF OneModel, TypeInv, TypeOK, Point, LoreAssumption
    <2>4. OneModel'
      BY <2>1, <2>3 DEF OneModel
    <2> QED
      BY <2>1, <2>4 DEF CheckHolds
  <1>3. CASE UpsertNew(i)
    <2>1. collection.fingerprint = model
      BY <1>3 DEF UpsertNew, At, CheckHolds, CheckedPcs
    <2>2. \A p \in NewPoints(i) : p.model = model
      BY DEF NewPoints
    <2>3. points' \subseteq NewPoints(i) \cup points
      BY <1>3 DEF UpsertNew
    <2>4. UNCHANGED <<model, collection>>
      BY <1>3 DEF UpsertNew
    <2>5. OneModel'
      BY <2>1, <2>2, <2>3, <2>4 DEF OneModel
    <2>6. CheckHolds'
      BY <1>3, <2>1, <2>4, NextDocumentPc DEF UpsertNew, CheckHolds
    <2> QED
      BY <2>5, <2>6
  <1> QED
    BY <1>1, <1>2, <1>3

\* the model changes, and the collection is dropped, while nobody relies on the check
LEMMA OperatorStep ==
    ASSUME ModelInv, ResetIndex \/ \E m \in Models : ChangeModel(m)
    PROVE  CheckHolds' /\ OneModel'
  <1>1. \A i \in Ingests : ingests'[i].pc = "idle"
    BY DEF ResetIndex, ChangeModel, Quiet, Running
  <1>2. CheckHolds'
    BY <1>1 DEF CheckHolds, CheckedPcs
  <1>3. OneModel'
    BY DEF ModelInv, OneModel, ResetIndex, ChangeModel
  <1> QED
    BY <1>2, <1>3

-----------------------------------------------------------------------------
(* The index after an undisturbed round *)

\* What a step of ingestion i, undisturbed, must see to: it works from the
\* manifest and the file, adds no stale text, and makes current or still owes
\* whatever was current or was its to handle.
LEMMA RoundGoesOn ==
    ASSUME TypeInv, Undisturbed, calm, NEW i \in Ingests, NEW r,
           ingests' = [ingests EXCEPT ![i] = r], UNCHANGED <<texts, manifest>>,
           r.pc # "idle" => r.plan = manifest,
           r.pc \in WorkingPcs \ {"reading"} => \A d \in r.doc : r.text = texts[d],
           r.pc = "pruning" => r.todo \cap Listed(manifest) = {},
           r.pc = "upserting" => \A d \in r.doc : StoredText(d)' \subseteq texts[d],
           \A d \in Docs : StoredText(d) \subseteq texts[d] => StoredText(d)' \subseteq texts[d],
           \A d \in Listed(manifest) :
              StoredText(d) = texts[d] \/ Owes(i, d)
              => StoredText(d)' = texts[d] \/ (r.pc \in WorkingPcs /\ d \in r.todo)
    PROVE  Undisturbed'
  <1>1. ingests \in [Ingests -> Ingest]
    BY DEF TypeInv, TypeOK
  <1>2. \A j \in Ingests : ingests'[j] = IF j = i THEN r ELSE ingests[j]
    BY <1>1
  <1>3. \A j \in Ingests : ~At(j, "idle")' => ingests'[j].plan = manifest
    BY <1>2 DEF At, Undisturbed
  <1>4. \A j \in Ingests : ingests'[j].pc \in WorkingPcs \ {"reading"} =>
            \A d \in ingests'[j].doc : ingests'[j].text = texts[d]
    BY <1>2 DEF Undisturbed
  <1>5. ASSUME NEW j \in Ingests, ingests'[j].pc = "upserting", NEW d \in ingests'[j].doc
        PROVE  StoredText(d)' \subseteq texts[d]
    <2>1. CASE j = i
      BY <1>2, <1>5, <2>1
    <2>2. CASE j # i
      <3>1. ingests[j].pc = "upserting" /\ d \in ingests[j].doc
        BY <1>2, <1>5, <2>2
      <3>2. d \in Docs /\ StoredText(d) \subseteq texts[d]
        BY <1>1, <3>1 DEF Undisturbed, At, Ingest
      <3> QED
        BY <3>2
    <2> QED
      BY <2>1, <2>2
  <1>6. \A j \in Ingests : ingests'[j].pc = "pruning" =>
            ingests'[j].todo \cap Listed(manifest) = {}
    BY <1>2 DEF At, Undisturbed
  <1>7. ASSUME NEW d \in Listed(manifest)
        PROVE  StoredText(d)' = texts[d] \/ \E j \in Ingests : Owes(j, d)'
    <2>1. \A j \in Ingests : Owes(j, d)' <=> IF j = i THEN r.pc \in WorkingPcs /\ d \in r.todo
                                            ELSE Owes(j, d)
      BY <1>2 DEF Owes
    <2> QED
      BY <2>1 DEF Undisturbed
  <1>8. Listed(manifest)' = Listed(manifest)
    BY DEF Listed
  <1> QED
    BY <1>3, <1>4, <1>5, <1>6, <1>7, <1>8 DEF Undisturbed, At

\* trouble ends the round
LEMMA TroubleEndsRound ==
    ASSUME calm' = FALSE
    PROVE  Undisturbed'
  BY DEF Undisturbed

\* a document replaced or skipped is current, and its ingestion goes on
LEMMA HandledMoves ==
    ASSUME TypeInv, Undisturbed, calm, NEW i \in Ingests, ingests[i].pc \in WorkingPcs,
           NextDocument(i), UNCHANGED <<texts, manifest>>,
           \A d \in ingests[i].doc : StoredText(d)' = texts[d],
           \A d \in Docs \ ingests[i].doc : StoredText(d)' = StoredText(d)
    PROVE  Undisturbed'
  <1> DEFINE left == ingests[i].todo \ ingests[i].doc
             r == IF left = {} /\ ~ingests[i].prune THEN Idle
                  ELSE [ingests[i] EXCEPT
                          !.pc = IF left = {} THEN "scrolling" ELSE "reading",
                          !.todo = left, !.doc = {}, !.text = {}]
  <1>1. ingests' = [ingests EXCEPT ![i] = r]
    BY DEF NextDocument
  <1>2. ingests[i].plan = manifest /\ ingests[i] \in Ingest
    BY IngestTyped DEF Undisturbed, At, WorkingPcs
  <1>3. /\ r.pc \in {"idle", "scrolling", "reading"}
        /\ r.pc # "idle" => r.plan = manifest
        /\ left # {} => r.pc = "reading" /\ r.todo = left
    BY <1>2 DEF Ingest, Idle
  <1>4. \A d \in Docs : StoredText(d) \subseteq texts[d] => StoredText(d)' \subseteq texts[d]
    OBVIOUS
  <1>5. ASSUME NEW d \in Listed(manifest), StoredText(d) = texts[d] \/ Owes(i, d)
        PROVE  StoredText(d)' = texts[d] \/ (r.pc \in WorkingPcs /\ d \in r.todo)
    <2>1. d \in Docs
      BY DEF Listed
    <2>2. CASE StoredText(d) = texts[d] \/ d \in ingests[i].doc
      BY <2>1, <2>2
    <2>3. CASE StoredText(d) # texts[d] /\ d \notin ingests[i].doc
      <3>1. d \in left
        BY <1>5, <2>3 DEF Owes
      <3> QED
        BY <1>3, <3>1 DEF WorkingPcs
    <2> QED
      BY <2>2, <2>3
  <1> HIDE DEF r
  <1> QED
    BY <1>1, <1>3, <1>4, <1>5, RoundGoesOn DEF WorkingPcs

\* a step to another stage of the document at hand
LEMMA StageMoves ==
    ASSUME TypeInv, Undisturbed, calm, NEW i \in Ingests, NEW pc \in WorkingPcs \ {"reading"},
           ingests[i].pc \in WorkingPcs \ {"reading"}, Goto(i, pc), UNCHANGED <<texts, manifest>>,
           \A d \in Docs \ ingests[i].doc : StoredText(d)' = StoredText(d),
           \/ pc # "upserting" /\ UNCHANGED points
           \/ \A d \in ingests[i].doc : StoredText(d)' = {}
    PROVE  Undisturbed'
  <1> DEFINE r == [ingests[i] EXCEPT !.pc = pc]
  <1>1. ingests' = [ingests EXCEPT ![i] = r]
    BY DEF Goto
  <1>2. /\ r.pc = pc /\ r.plan = ingests[i].plan /\ r.todo = ingests[i].todo
        /\ r.doc = ingests[i].doc /\ r.text = ingests[i].text
    BY IngestTyped DEF Ingest
  <1>3. /\ ingests[i].plan = manifest /\ ingests[i].doc \subseteq ingests[i].todo
        /\ \A d \in ingests[i].doc : ingests[i].text = texts[d]
    BY IngestTyped DEF Undisturbed, At, WorkingPcs
  <1>4. ASSUME NEW d \in Docs, StoredText(d) \subseteq texts[d]
        PROVE  StoredText(d)' \subseteq texts[d]
    BY <1>4 DEF StoredText, SourcePoints
  <1>5. ASSUME NEW d \in Listed(manifest), StoredText(d) = texts[d] \/ Owes(i, d)
        PROVE  StoredText(d)' = texts[d] \/ (r.pc \in WorkingPcs /\ d \in r.todo)
    <2>1. d \in Docs
      BY DEF Listed
    <2>2. CASE d \in ingests[i].doc \/ Owes(i, d)
      BY <1>2, <1>3, <2>2 DEF Owes
    <2>3. CASE d \notin ingests[i].doc /\ StoredText(d) = texts[d]
      BY <2>1, <2>3
    <2> QED
      BY <1>5, <2>2, <2>3
  <1>6. pc = "upserting" => \A d \in r.doc : StoredText(d)' \subseteq texts[d]
    BY <1>2
  <1> HIDE DEF r
  <1> QED
    BY <1>1, <1>2, <1>3, <1>4, <1>5, <1>6, RoundGoesOn DEF WorkingPcs

\* the first ingestion after a quiet moment owes every listed document
LEMMA StartUndisturbed ==
    ASSUME TypeInv, Undisturbed, NEW i \in Ingests, NEW prune \in BOOLEAN, StartIngest(i, prune)
    PROVE  Undisturbed'
  <1> DEFINE r == [Idle EXCEPT !.pc = FirstPc, !.prune = prune,
                               !.plan = manifest, !.todo = Listed(manifest)]
  <1>1. /\ ingests' = [ingests EXCEPT ![i] = r] /\ calm' = (calm \/ Quiet)
        /\ ingests[i].pc = "idle" /\ UNCHANGED <<texts, manifest, points>>
    BY DEF StartIngest, At
  <1>2. /\ r.pc \in {"reading", "scrolling"} /\ (Listed(manifest) # {} => r.pc = "reading")
        /\ r.plan = manifest /\ r.todo = Listed(manifest)
    BY DEF Idle, FirstPc
  <1> HIDE DEF r
  <1>3. \A d \in Docs : StoredText(d)' = StoredText(d)
    BY <1>1 DEF StoredText, SourcePoints
  <1>4. CASE calm
    <2>1. \A d \in Listed(manifest) : d \in Docs
      BY DEF Listed
    <2>2. \A d \in Docs : StoredText(d) \subseteq texts[d] => StoredText(d)' \subseteq texts[d]
      BY <1>3
    <2>3. \A d \in Listed(manifest) : r.pc \in WorkingPcs /\ d \in r.todo
      BY <1>2 DEF WorkingPcs
    <2>4. /\ r.pc \notin WorkingPcs \ {"reading"}
          /\ r.pc # "pruning" /\ r.pc # "upserting"
      BY <1>2 DEF WorkingPcs
    <2> QED
      BY <1>1, <1>2, <1>4, <2>2, <2>3, <2>4, RoundGoesOn
  <1>5. CASE ~calm /\ Quiet
    <2>1. \A j \in Ingests : ingests'[j] = IF j = i THEN r ELSE ingests[j]
      BY <1>1 DEF TypeInv, TypeOK
    <2>2. \A j \in Ingests : j # i => ingests'[j].pc = "idle"
      BY <1>5, <2>1 DEF Quiet, Running
    <2>3. ingests'[i] = r
      BY <2>1
    <2>4. \A d \in Listed(manifest) : Owes(i, d)'
      BY <1>2, <2>3 DEF Owes, WorkingPcs
    <2>5. Listed(manifest)' = Listed(manifest) /\ UNCHANGED manifest
      BY <1>1 DEF Listed
    <2> QED
      BY <1>2, <2>2, <2>3, <2>4, <2>5 DEF Undisturbed, At, WorkingPcs
  <1>6. CASE ~calm /\ ~Quiet
    BY <1>1, <1>6, TroubleEndsRound
  <1> QED
    BY <1>4, <1>5, <1>6

\* the points of a replacement are exactly the text that was read
LEMMA UpsertUndisturbed ==
    ASSUME TypeInv, Undisturbed, calm, NEW i \in Ingests, UpsertNew(i)
    PROVE  Undisturbed'
  <1>1. /\ ingests[i].pc = "upserting" /\ NextDocument(i) /\ UNCHANGED <<texts, manifest>>
        /\ points' = NewPoints(i) \cup
             {p \in points : \A q \in NewPoints(i) : <<p.doc, p.chunk>> # <<q.doc, q.chunk>>}
    BY DEF UpsertNew, At
  <1>2. \A d \in ingests[i].doc : ingests[i].text = texts[d] /\ StoredText(d) \subseteq texts[d]
    BY <1>1 DEF Undisturbed, At, WorkingPcs
  <1> DEFINE new == NewPoints(i)
  <1>3. /\ \A p \in new : p.doc \in ingests[i].doc /\ p.chunk \in ingests[i].text
        /\ \A d \in ingests[i].doc, c \in ingests[i].text :
              \E p \in new : p.doc = d /\ p.chunk = c
    <2> DEFINE point(d, c) == [doc |-> d, chunk |-> c, visibility |-> ingests[i].plan[d],
                               model |-> model]
    <2>1. new = {point(d, c) : d \in ingests[i].doc, c \in ingests[i].text}
      BY DEF NewPoints
    <2>2. \A d, c : point(d, c).doc = d /\ point(d, c).chunk = c
      OBVIOUS
    <2> HIDE DEF point, new
    <2> QED
      BY <2>1, <2>2
  <1> HIDE DEF new
  <1>4. /\ points' \subseteq new \cup points /\ new \subseteq points'
        /\ \A p \in points : p.doc \notin ingests[i].doc => p \in points'
    BY <1>1, <1>3 DEF new
  <1>5. ASSUME NEW d \in ingests[i].doc
        PROVE  StoredText(d)' = texts[d]
    <2>1. StoredText(d)' \subseteq texts[d]
      BY <1>2, <1>3, <1>4 DEF StoredText, SourcePoints
    <2>2. ASSUME NEW c \in texts[d]  PROVE c \in StoredText(d)'
      <3>1. PICK p \in new : p.doc = d /\ p.chunk = c
        BY <1>2, <1>3
      <3> QED
        BY <1>4, <3>1 DEF StoredText, SourcePoints
    <2> QED
      BY <2>1, <2>2
  <1>6. ASSUME NEW d \in Docs \ ingests[i].doc
        PROVE  StoredText(d)' = StoredText(d)
    <2>1. \A p : p \in points' /\ p.doc = d <=> p \in points /\ p.doc = d
      BY <1>3, <1>4
    <2> QED
      BY <2>1 DEF StoredText, SourcePoints
  <1> QED
    BY <1>1, <1>5, <1>6, HandledMoves DEF WorkingPcs

\* the orphans of a prune are documents the manifest does not list
LEMMA ScrollUndisturbed ==
    ASSUME TypeInv, Undisturbed, calm, NEW i \in Ingests, ScrollOrphans(i)
    PROVE  Undisturbed'
  <1>0. UNCHANGED <<texts, manifest>> /\ ingests[i] \in Ingest
    BY IngestTyped DEF ScrollOrphans
  <1> DEFINE orphans == {p.doc : p \in points} \ Listed(ingests[i].plan)
             r == IF orphans = {} THEN Idle
                  ELSE [ingests[i] EXCEPT !.pc = "pruning", !.todo = orphans]
  <1>1. /\ ingests' = [ingests EXCEPT ![i] = r] /\ UNCHANGED points
        /\ ingests[i].pc = "scrolling" /\ ingests[i].plan = manifest
    BY DEF ScrollOrphans, At, Undisturbed
  <1>2. orphans \cap Listed(manifest) = {}
    BY <1>1
  <1> HIDE DEF orphans
  <1>3. /\ r.pc \in {"idle", "pruning"} /\ (r.pc # "idle" => r.plan = manifest)
        /\ r.pc = "pruning" => r.todo = orphans
    BY <1>0, <1>1 DEF Ingest, Idle
  <1>4. \A d \in Docs : StoredText(d)' = StoredText(d)
    BY <1>1 DEF StoredText, SourcePoints
  <1>5. \A d \in Docs : StoredText(d) \subseteq texts[d] => StoredText(d)' \subseteq texts[d]
    BY <1>4
  <1>6. \A d \in Listed(manifest) :
           StoredText(d) = texts[d] \/ Owes(i, d) => StoredText(d)' = texts[d]
    BY <1>1, <1>4 DEF Owes, WorkingPcs, Listed
  <1> HIDE DEF r
  <1> QED
    BY <1>0, <1>1, <1>2, <1>3, <1>5, <1>6, RoundGoesOn DEF WorkingPcs

\* so the prune drops only what the manifest does not list
LEMMA PruneUndisturbed ==
    ASSUME TypeInv, Undisturbed, calm, NEW i \in Ingests, NEW e \in Docs, PruneSource(i, e)
    PROVE  Undisturbed'
  <1>0. UNCHANGED <<texts, manifest>> /\ ingests[i] \in Ingest
    BY IngestTyped DEF PruneSource
  <1> DEFINE left == ingests[i].todo \ {e}
             r == IF left = {} THEN Idle ELSE [ingests[i] EXCEPT !.todo = left]
  <1>1. /\ ingests' = [ingests EXCEPT ![i] = r] /\ points' = {p \in points : p.doc # e}
        /\ ingests[i].pc = "pruning" /\ e \in ingests[i].todo
    BY DEF PruneSource, At
  <1>2. /\ ingests[i].plan = manifest /\ ingests[i].todo \cap Listed(manifest) = {}
    BY <1>1 DEF At, Undisturbed
  <1>3. /\ r.pc \in {"idle", "pruning"} /\ (r.pc # "idle" => r.plan = manifest)
        /\ r.pc = "pruning" => r.todo \cap Listed(manifest) = {}
    BY <1>0, <1>1, <1>2 DEF Ingest, Idle
  <1>4. \A d \in Docs : StoredText(d)' \subseteq StoredText(d)
    BY <1>1 DEF StoredText, SourcePoints
  <1>5. ASSUME NEW d \in Listed(manifest)  PROVE StoredText(d)' = StoredText(d)
    <2>1. d # e
      BY <1>1, <1>2
    <2> QED
      BY <1>1, <2>1 DEF StoredText, SourcePoints
  <1>6. \A d \in Docs : StoredText(d) \subseteq texts[d] => StoredText(d)' \subseteq texts[d]
    BY <1>4
  <1>7. \A d \in Listed(manifest) :
           StoredText(d) = texts[d] \/ Owes(i, d) => StoredText(d)' = texts[d]
    BY <1>1, <1>5 DEF Owes, WorkingPcs
  <1> HIDE DEF r
  <1> QED
    BY <1>0, <1>1, <1>3, <1>6, <1>7, RoundGoesOn DEF WorkingPcs

LEMMA IngestUndisturbed ==
    ASSUME TypeInv, Undisturbed, calm, NEW i \in Ingests, IngestStep(i)
    PROVE  Undisturbed'
  <1> USE DEF At
  <1>1. ASSUME UNCHANGED points
        PROVE  \A d : StoredText(d)' = StoredText(d)
    BY <1>1 DEF StoredText, SourcePoints
  <1>2. ASSUME Abort(i)  PROVE Undisturbed'
    BY <1>2, TroubleEndsRound DEF Abort, NoteTrouble
  <1>3. ASSUME NEW pc \in WorkingPcs \ {"reading", "upserting"}, Goto(i, pc),
               ingests[i].pc \in WorkingPcs \ {"reading"}, UNCHANGED <<texts, manifest, points>>
        PROVE  Undisturbed'
    BY <1>1, <1>3, StageMoves
  <1>4. ASSUME NEW prune \in BOOLEAN, StartIngest(i, prune)  PROVE Undisturbed'
    BY <1>4, StartUndisturbed
  <1>5. ASSUME NEW d \in Docs, ReadDocument(i, d)  PROVE Undisturbed'
    <2>1. CASE texts[d] = {}
      BY <1>2, <1>5, <2>1 DEF ReadDocument
    <2>2. CASE texts[d] # {}
      <3> DEFINE r == [ingests[i] EXCEPT !.pc = "checking", !.doc = {d}, !.text = texts[d]]
      <3>1. /\ ingests' = [ingests EXCEPT ![i] = r] /\ UNCHANGED <<texts, manifest, points>>
            /\ ingests[i].pc = "reading" /\ ingests[i].plan = manifest
        BY <1>5, <2>2 DEF ReadDocument, Undisturbed
      <3>2. /\ r.pc = "checking" /\ r.plan = manifest /\ r.todo = ingests[i].todo
            /\ r.doc = {d} /\ r.text = texts[d]
        BY <3>1, IngestTyped DEF Ingest
      <3>3. \A c \in Docs : StoredText(c) \subseteq texts[c] => StoredText(c)' \subseteq texts[c]
        BY <1>1, <3>1
      <3>4. \A c \in Listed(manifest) :
               StoredText(c) = texts[c] \/ Owes(i, c)
               => StoredText(c)' = texts[c] \/ (r.pc \in WorkingPcs /\ c \in r.todo)
        BY <1>1, <3>1, <3>2 DEF Owes, WorkingPcs
      <3> HIDE DEF r
      <3> QED
        BY <3>1, <3>2, <3>3, <3>4, RoundGoesOn
    <2> QED
      BY <2>1, <2>2
  <1>6. CASE CheckCollection(i)
    BY <1>3, <1>6 DEF CheckCollection, WorkingPcs
  <1>7. CASE CreateCollection(i)
    BY <1>2, <1>3, <1>7 DEF CreateCollection, WorkingPcs
  <1>8. CASE ReadFingerprint(i)
    BY <1>2, <1>3, <1>8 DEF ReadFingerprint, WorkingPcs
  <1>9. CASE AdoptModel(i)
    BY <1>3, <1>9 DEF AdoptModel, WorkingPcs
  <1>10. CASE ReplaceDocument(i)
    BY <1>3, <1>10 DEF ReplaceDocument, WorkingPcs
  <1>11. CASE SkipDocument(i)
    <2>1. /\ ingests[i].pc = "listing" /\ NextDocument(i) /\ UNCHANGED <<texts, manifest, points>>
          /\ \A d \in ingests[i].doc : ingests[i].text = StoredText(d)
      BY <1>11 DEF SkipDocument, Unchanged
    <2>2. \A d \in ingests[i].doc : StoredText(d)' = texts[d]
      BY <1>1, <2>1 DEF Undisturbed, WorkingPcs
    <2> QED
      BY <1>1, <2>1, <2>2, HandledMoves DEF WorkingPcs
  <1>12. CASE DeleteOld(i)
    <2>1. /\ ingests[i].pc = "deleting" /\ Goto(i, "upserting") /\ UNCHANGED <<texts, manifest>>
          /\ points' = {p \in points : p.doc \notin ingests[i].doc}
      BY <1>12 DEF DeleteOld
    <2>2. \A d \in ingests[i].doc : StoredText(d)' = {}
      BY <2>1 DEF StoredText, SourcePoints
    <2>3. \A d \in Docs \ ingests[i].doc : StoredText(d)' = StoredText(d)
      BY <2>1 DEF StoredText, SourcePoints
    <2> QED
      BY <2>1, <2>2, <2>3, StageMoves DEF WorkingPcs
  <1>13. CASE UpsertNew(i)
    BY <1>13, UpsertUndisturbed
  <1>14. ASSUME NEW d \in Docs, PruneSource(i, d)  PROVE Undisturbed'
    BY <1>14, PruneUndisturbed
  <1>15. CASE ScrollOrphans(i)
    BY <1>15, ScrollUndisturbed
  <1>16. CASE FailIngest(i)
    BY <1>2, <1>16 DEF FailIngest
  <1> QED
    BY <1>4, <1>5, <1>6, <1>7, <1>8, <1>9, <1>10, <1>11, <1>12, <1>13, <1>14, <1>15, <1>16
       DEF IngestStep

-----------------------------------------------------------------------------
(* Theorems *)

\* Every reachable state is typed: in particular no point is written for a
\* document without a visibility, although the manifest is edited, documents are
\* removed from it and pruned while ingestions are under way (ingestion.py:60-116)
THEOREM LoreTypes == Spec => []TypeOK
  <1>1. Init => TypeInv
    BY LoreAssumption, InitTypes
  <1>2. TypeInv /\ [Next]_vars => TypeInv'
    BY LoreAssumption, StepTypes
  <1>3. TypeInv => TypeOK
    BY DEF TypeInv
  <1> QED
    BY <1>1, <1>2, <1>3, PTL DEF Spec

\* Vectors of two embedding models never share the collection, for any number
\* of ingestions that overlap at their first contact with it, fail between
\* creating, adopting, deleting and upserting, or meet a model that was changed
\* without resetting the index (vector_store.py:394-412)
THEOREM OneModelPerCollection == Spec => []OneModel
  <1>1. Init => ModelInv
    <2> SUFFICES ASSUME Init
                 PROVE  ModelInv
      OBVIOUS
    <2>1. CheckHolds
      BY DEF Init, CheckHolds, Idle, CheckedPcs
    <2>2. OneModel
      BY DEF Init, OneModel
    <2> QED
      BY <2>1, <2>2, LoreAssumption, InitTypes DEF ModelInv
  <1>2. ModelInv /\ [Next]_vars => ModelInv'
    <2> SUFFICES ASSUME ModelInv, [Next]_vars
                 PROVE  CheckHolds' /\ OneModel'
      BY LoreAssumption, StepTypes DEF ModelInv
    <2>1. ASSUME NEW i \in Ingests, IngestStep(i)
          PROVE  CheckHolds' /\ OneModel'
      BY <2>1, LoreAssumption, QuietIngestStep, FingerprintStep DEF IngestStep
    <2>2. ASSUME NEW d \in Docs, NEW text \in SUBSET ChunksOf[d], EditFile(d, text)
          PROVE  CheckHolds' /\ OneModel'
      BY <2>2, QuietModelStep DEF EditFile
    <2>3. ASSUME NEW d \in Docs, NEW visibility \in Visibilities \cup {Unlisted},
                 EditManifest(d, visibility)
          PROVE  CheckHolds' /\ OneModel'
      BY <2>3, QuietModelStep DEF EditManifest
    <2>4. CASE ResetIndex \/ \E m \in Models : ChangeModel(m)
      BY <2>4, OperatorStep
    <2>5. CASE UNCHANGED vars
      BY <2>5, QuietModelStep DEF vars
    <2> QED
      BY <2>1, <2>2, <2>3, <2>4, <2>5 DEF Next
  <1>3. ModelInv => OneModel
    BY DEF ModelInv
  <1> QED
    BY <1>1, <1>2, <1>3, PTL DEF Spec

\* Whatever edits, failures and overlaps did to the index, the first round that
\* nobody disturbs leaves each listed document stored with exactly the chunks of
\* its file, for any number of overlapping ingestions with or without a prune
\* (ingestion.py:92-116, vector_store.py:455-471)
THEOREM UndisturbedRoundRepairs == Spec => []UndisturbedIndexIsCurrent
  <1>1. Init => CurrentInv
    BY LoreAssumption, InitTypes DEF Init, CurrentInv, Undisturbed
  <1>2. CurrentInv /\ [Next]_vars => CurrentInv'
    <2> SUFFICES ASSUME CurrentInv, [Next]_vars
                 PROVE  Undisturbed'
      BY LoreAssumption, StepTypes DEF CurrentInv
    <2> USE DEF CurrentInv
    <2>1. ASSUME NEW i \in Ingests, IngestStep(i)  PROVE Undisturbed'
      <3>1. CASE calm
        BY <2>1, <3>1, IngestUndisturbed
      <3>2. CASE ~calm /\ \E prune \in BOOLEAN : StartIngest(i, prune)
        BY <3>2, StartUndisturbed
      <3>3. CASE ~calm /\ ~\E prune \in BOOLEAN : StartIngest(i, prune)
        <4>1. calm' = FALSE
          BY <2>1, <3>3 DEF IngestStep, ReadDocument, CheckCollection, CreateCollection,
             ReadFingerprint, AdoptModel, ReplaceDocument, SkipDocument, DeleteOld, UpsertNew,
             ScrollOrphans, PruneSource, FailIngest, Abort, NoteTrouble, TypeInv, TypeOK
        <4> QED
          BY <4>1, TroubleEndsRound
      <3> QED
        BY <3>1, <3>2, <3>3
    <2>2. CASE \/ \E d \in Docs : \E text \in SUBSET ChunksOf[d] : EditFile(d, text)
               \/ \E d \in Docs, visibility \in Visibilities \cup {Unlisted} :
                     EditManifest(d, visibility)
               \/ ResetIndex
               \/ \E m \in Models : ChangeModel(m)
      BY <2>2, TroubleEndsRound DEF EditFile, EditManifest, ResetIndex, ChangeModel, NoteTrouble
    <2>3. CASE UNCHANGED vars
      BY <2>3 DEF vars, Undisturbed, At, StoredText, SourcePoints, Listed, Owes
    <2> QED
      BY <2>1, <2>2, <2>3 DEF Next
  <1>3. CurrentInv => UndisturbedIndexIsCurrent
    BY DEF CurrentInv, Undisturbed, UndisturbedIndexIsCurrent, Quiet, Running, Owes, WorkingPcs
  <1> QED
    BY <1>1, <1>2, <1>3, PTL DEF Spec

=============================================================================
