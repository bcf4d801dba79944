----------------------------- MODULE TurnRecall -----------------------------
(***************************************************************************)
(* One session, turn after turn: what is remembered, what the next turn    *)
(* recalls of it, what the actor is shown, what of its reply gets out and  *)
(* what the finished turn leaves behind.  The memory rows are the SQLite   *)
(* store, the points are the vector index.  The other modules follow the   *)
(* concurrency of the turn and its jobs; this one follows the data.        *)
(***************************************************************************)
EXTENDS Curation, ReplyGuard

CONSTANTS Lore,              \* the indexed chunks that are not session memories
          Setups,            \* configurations: [rag, quota, pinning, gating]
          Nearness,          \* how near each text may be to a query
          Messages,          \* what the player may write: sequences of texts
          CuratorAnswers,    \* what the curator may answer: sequences of candidates
          Speech,            \* what the actor or the critic may write: token sequences
          Digest,            \* the text of a consolidation summary
          CanonTexts,        \* what the author may pin
          MaxTurns, MaxEdits

ASSUME SpeechAssumption == Speech \subseteq Seq(DOMAIN Lower)

SummaryTag == "consolidation_summary"

Candidate == [text : Texts, vis : Visibility, tags : SUBSET Tags, importance : Nat, bond : Nat]
Memory == [id : Nat, text : Texts, vis : Visibility, tags : SUBSET Tags, retired : BOOLEAN,
           importance : Nat, created : Nat, bond : Nat]
Chunk == [id : Nat, collection : DOMAIN CollectionWeight, text : Texts, vis : Visibility,
          tags : SUBSET Tags, importance : Nat, created : Nat, bond : Nat]

ASSUME SessionAssumption ==
    /\ Lore \subseteq Chunk /\ IsFiniteSet(Lore) /\ \A p, q \in Lore : p.id = q.id => p = q
    /\ Nearness \subseteq [Texts -> Int]
    /\ Messages \subseteq Seq(Texts) /\ CuratorAnswers \subseteq Seq(Candidate)
    /\ SummaryTag \in Tags /\ Digest \in Texts /\ CanonTexts \subseteq Texts
    /\ \A s \in Setups : s.quota \in Nat
    /\ MaxTurns \in Nat /\ MaxEdits \in Nat

VARIABLES setup,             \* the configuration the process runs with
          memories,          \* rows of memory_episodes
          points,            \* chunks in the vector index
          pinned,            \* canon_facts, oldest first
          turn,              \* the turn in progress, or the last one
          turns, edits       \* how many turns, and edits from outside, so far

vars == <<setup, memories, points, pinned, turn, turns, edits>>

NoConfidence == -1
PersonaFloor == 4
ConsolidationCeiling == 3

Blank == [phase |-> "idle", message |-> <<>>, loaded |-> {}, pins |-> <<>>, standing |-> <<>>,
          hits |-> <<>>, dense |-> FALSE, sliced |-> FALSE,
          ranking |-> [selected |-> <<>>, rejected |-> <<>>],
          confidence |-> NoConfidence, prompt |-> <<>>,
          role |-> "actor", said |-> <<>>, text |-> <<>>, units |-> {}, flagged |-> {},
          curated |-> <<>>, batch |-> <<>>, fallback |-> FALSE, deduped |-> FALSE, written |-> {}]

Init ==
    /\ setup \in Setups
    /\ memories = {} /\ points = Lore /\ pinned = <<>>
    /\ turn = Blank /\ turns = 0 /\ edits = 0

Goto(phase) == turn' = [turn EXCEPT !.phase = phase]
Stores == <<memories, points, pinned>>
Quiet == UNCHANGED <<setup, Stores, turns, edits>>

(***************************************************************************)
(* Loading, the slice, the search.                                         *)
(***************************************************************************)
Load(message) ==
    /\ turn.phase = "idle" /\ turns < MaxTurns
    /\ turns' = turns + 1
    /\ turn' = [Blank EXCEPT !.phase = "loaded", !.message = message, !.loaded = memories,
                             !.pins = pinned,
                             !.standing = StandingFacts(memories, pinned, setup.pinning)]
    /\ UNCHANGED <<setup, Stores, edits>>

SkipRetrieval ==
    /\ turn.phase = "loaded" /\ ~setup.rag
    /\ Goto("ordered")
    /\ Quiet

ScoreSlice ==
    /\ turn.phase = "loaded" /\ setup.rag
    /\ turn' = [turn EXCEPT !.phase = "scored",
                    !.hits = IF setup.quota = 0 THEN <<>>
                             ELSE LexicalHits(turn.loaded, ContentTerms(turn.message))]
    /\ Quiet

\* The scorer is fail-open: the turn goes on with the search alone.
ScoreFails ==
    /\ turn.phase = "loaded" /\ setup.rag /\ setup.quota > 0
    /\ Goto("scored")
    /\ Quiet

\* The query is the scene, the persona, the last turns and the message, the other one
\* the message alone: two searches, or one where the texts are equally near to both.
Queries == {{context, message} : context, message \in Nearness}

Fetch(nears, topK) ==
    Rerank(SearchAll(points, nears, topK), ContentTerms(turn.message), topK)

Retrieve(nears) ==
    /\ turn.phase = "scored"
    /\ turn' = [turn EXCEPT !.phase = "retrieved", !.dense = TRUE,
                    !.ranking = Fetch(nears, TopK(turn.standing))]
    /\ Quiet

Ranked(ranking) ==
    [turn EXCEPT !.phase = "ordered", !.sliced = TRUE, !.ranking = ranking,
                 !.confidence = Confidence(ranking.selected)]

\* The search fails: what the slice found is all the prompt gets.
RetrieveFails ==
    /\ turn.phase = "scored"
    /\ IF turn.hits # <<>> /\ EligibleHits(turn.hits, setup.quota) # <<>>
       THEN turn' = Ranked(ApplySlice(Blank.ranking, turn.hits, setup.quota))
       ELSE Goto("ordered")
    /\ Quiet

Order ==
    /\ turn.phase = "retrieved"
    /\ turn' = Ranked(ApplySlice(turn.ranking, turn.hits, setup.quota))
    /\ Quiet

OrderFails ==
    /\ turn.phase = "retrieved" /\ setup.quota > 0
    /\ turn' = [Ranked(turn.ranking) EXCEPT !.sliced = FALSE]
    /\ Quiet

BuildPrompt ==
    /\ turn.phase = "ordered"
    /\ turn' = [turn EXCEPT !.phase = "prompted",
                    !.prompt = PromptChunks(turn.ranking.selected, turn.standing)]
    /\ Quiet

(***************************************************************************)
(* The critic's issues, unless the critic is gated, and then the actor's   *)
(* reply go through the same guard.                                        *)
(***************************************************************************)
Speak(role, text) ==
    /\ turn.phase = "prompted" \/ (turn.phase = "criticised" /\ role = "actor")
    /\ turn' = [Blank EXCEPT !.phase = "guarding", !.message = turn.message, !.role = role,
                             !.said = text, !.text = text,
                             !.units = MatchableUnits(HiddenFacts)]
    /\ Quiet

\* A guard that redacts only the first occurrence of each unit.
RedactNextOnce ==
    /\ turn.phase = "guarding"
    /\ \E u \in NextUnits(turn.units) :
        turn' = [turn EXCEPT !.units = turn.units \ {u},
                     !.text = IF Occurrences(turn.text, u) # {} THEN RedactFirst(turn.text, u)
                              ELSE turn.text]
    /\ Quiet

RedactNext ==
    /\ turn.phase = "guarding"
    /\ \E u \in NextUnits(turn.units) :
        turn' = IF Occurrences(turn.text, u) # {}
                THEN [turn EXCEPT !.text = RedactFirst(turn.text, u)]
                ELSE [turn EXCEPT !.units = turn.units \ {u}]
    /\ Quiet

FinishGuard ==
    /\ turn.phase = "guarding" /\ turn.units = {}
    /\ turn' = [turn EXCEPT
           !.phase = IF turn.role = "critic" THEN "criticised" ELSE "sent",
           !.flagged = IF turn.role = "critic" THEN {} ELSE Paraphrased(turn.text, HiddenFacts)]
    /\ Quiet

(***************************************************************************)
(* Curation, persistence, indexing.                                        *)
(***************************************************************************)
SkipCuration ==
    /\ turn.phase = "sent"
    /\ Gated(setup.gating, turn.message, FALSE)
    /\ turn' = Blank
    /\ Quiet

\* The reply's own hints are any: they only decide whether the gate opens.
Curate(answer) ==
    /\ turn.phase = "sent"
    /\ turn' = [Blank EXCEPT !.phase = "curated", !.message = turn.message, !.curated = answer,
                    !.batch = FoldEvents(answer, ExplicitEvents(turn.message))]
    /\ Quiet

\* Bad JSON, a timeout, no provider: the explicit events alone are kept.
CuratorFails ==
    /\ turn.phase = "sent"
    /\ turn' = [Blank EXCEPT !.phase = "curated", !.message = turn.message, !.fallback = TRUE,
                    !.batch = ExplicitEvents(turn.message)]
    /\ Quiet

Row(id, c) == [id |-> id, text |-> c.text, vis |-> c.vis, tags |-> c.tags, retired |-> FALSE,
               importance |-> c.importance, created |-> turns, bond |-> c.bond]
\* an id is never given twice
LastId == Max({0} \cup {m.id : m \in memories \cup points \cup turn.loaded})
PointsOf(rows) ==
    {MemoryChunk(m) : m \in rows}
        \cup {[MemoryChunk(m) EXCEPT !.collection = "persona"] :
                m \in {n \in rows : n.vis = "player" /\ n.bond > 0
                                      /\ n.importance >= PersonaFloor}}

Persist(cacheUp, embedderUp) ==
    /\ turn.phase = "curated"
    /\ LET existing == {m.text : m \in memories}
           kept == IF cacheUp THEN DropDuplicates(turn.batch, existing, embedderUp) ELSE turn.batch
           rows == {Row(LastId + i, kept[i]) : i \in DOMAIN kept}
       IN  /\ memories' = memories \cup rows
           /\ turn' = [turn EXCEPT !.phase = "stored", !.written = rows, !.loaded = memories,
                                   !.deduped = cacheUp]
    /\ UNCHANGED <<setup, points, pinned, turns, edits>>

\* When the write of the curated batch fails, the explicit events are tried alone.
PersistFails ==
    /\ turn.phase = "curated"
    /\ IF ~turn.fallback /\ ExplicitEvents(turn.message) # <<>>
       THEN turn' = [turn EXCEPT !.curated = <<>>, !.fallback = TRUE,
                                 !.batch = ExplicitEvents(turn.message)]
       ELSE turn' = Blank
    /\ Quiet

Index(ok) ==
    /\ turn.phase = "stored"
    /\ points' = IF ok THEN points \cup PointsOf(turn.written) ELSE points
    /\ turn' = Blank
    /\ UNCHANGED <<setup, memories, pinned, turns, edits>>

(***************************************************************************)
(* Edits from outside: the author pins, consolidation retires a memory in  *)
(* favour of a summary, a reroll forgets one.  The index follows if it can.*)
(***************************************************************************)
Edit == /\ turn.phase \in {"idle", "loaded"} /\ edits < MaxEdits
        /\ edits' = edits + 1
        /\ UNCHANGED <<setup, turn, turns>>

Pin(t) ==
    /\ Edit
    /\ pinned' = Append(pinned, t)
    /\ UNCHANGED <<memories, points>>

Unpin(i) ==
    /\ Edit
    /\ pinned' = RemoveAt(pinned, i)
    /\ UNCHANGED <<memories, points>>

PointsWithout(m, ok) == IF ok THEN {p \in points : p.id # m.id} ELSE points

Retire(m, ok) ==
    /\ Edit
    /\ m.vis = "player" /\ ~m.retired /\ m.importance <= ConsolidationCeiling
    /\ m.tags \cap ({SummaryTag} \cup EffectiveCanonTags(setup.pinning)) = {}
    /\ LET digest == Row(LastId + 1, [text |-> Digest, vis |-> "player", tags |-> {SummaryTag},
                                      importance |-> ConsolidationCeiling + 1, bond |-> m.bond])
       IN  /\ memories' = (memories \ {m}) \cup {[m EXCEPT !.retired = TRUE], digest}
           /\ points' = PointsWithout(m, ok) \cup (IF ok THEN PointsOf({digest}) ELSE {})
    /\ UNCHANGED pinned

Forget(m, ok) ==
    /\ Edit
    /\ memories' = memories \ {m}
    /\ points' = PointsWithout(m, ok)
    /\ UNCHANGED pinned

Next ==
    \/ \E message \in Messages : Load(message)
    \/ SkipRetrieval
    \/ ScoreSlice
    \/ ScoreFails
    \/ \E nears \in Queries : Retrieve(nears)
    \/ RetrieveFails
    \/ Order
    \/ OrderFails
    \/ BuildPrompt
    \/ \E role \in {"actor", "critic"}, text \in Speech : Speak(role, text)
    \/ RedactNext
    \/ FinishGuard
    \/ SkipCuration
    \/ \E answer \in CuratorAnswers : Curate(answer)
    \/ CuratorFails
    \/ \E cacheUp, embedderUp \in BOOLEAN : Persist(cacheUp, embedderUp)
    \/ PersistFails
    \/ \E ok \in BOOLEAN : Index(ok)
    \/ \E t \in CanonTexts : Pin(t)
    \/ \E i \in DOMAIN pinned : Unpin(i)
    \/ \E m \in memories, ok \in BOOLEAN : Retire(m, ok)
    \/ \E m \in memories, ok \in BOOLEAN : Forget(m, ok)

Spec == Init /\ [][Next]_vars

(***************************************************************************)
(* Properties.                                                             *)
(***************************************************************************)
Phases == {"idle", "loaded", "scored", "retrieved", "ordered", "prompted", "guarding",
           "criticised", "sent", "curated", "stored"}

\* Types: rows and points are chunks of known texts, one row per id, and what is
\* retrieved, shown and written comes from the rows and points there are.
TypeOK ==
    /\ setup \in Setups /\ turns \in 0..MaxTurns /\ edits \in 0..MaxEdits
    /\ \A m, n \in memories : m.text \in Texts /\ (m.id = n.id => m = n)
    /\ \A p, q \in points : p.text \in Texts /\ (p.id = q.id => p.text = q.text)
    /\ ToSet(pinned) \subseteq CanonTexts
    /\ turn.phase \in Phases
    /\ turn.written \subseteq memories
    /\ Len(turn.prompt) <= Window /\ Len(turn.standing) <= CanonMaxItems

Prompted == turn.phase = "prompted"
ShowsText(t) == \/ t \in ToSet(turn.standing)
                \/ \E i \in DOMAIN turn.prompt : Shown(turn.prompt[i].chunk.text) = Shown(t)

\* The slice keeps its promise: whatever the search ranked, or if it failed, every
\* eligible quota hit's text is in the prompt, as a chunk or as a standing fact, and
\* the turn is not taken for a low-confidence one.  (apply_lexical_slice_quotas,
\* select_retrieved_chunks_for_prompt)
SliceReachesPrompt ==
    Prompted /\ turn.sliced /\ setup.quota \in 1..Window =>
        \A h \in ToSet(EligibleHits(turn.hits, setup.quota)) :
            ShowsText(h.memory.text) /\ turn.confidence >= SliceConfidence

\* No text is shown twice: a retrieved chunk repeats neither a standing fact nor, as
\* the prompt shows them, another chunk; and no memory is listed twice in the
\* diagnostics.  (select_retrieved_chunks_for_prompt, apply_lexical_slice_quotas)
NothingShownTwice ==
    Prompted =>
        /\ \A i \in DOMAIN turn.prompt : turn.prompt[i].chunk.text \notin ToSet(turn.standing)
        /\ \A i, j \in DOMAIN turn.prompt :
              Shown(turn.prompt[i].chunk.text) = Shown(turn.prompt[j].chunk.text) => i = j
        /\ Len(turn.standing) = Cardinality(ToSet(turn.standing))
        /\ LET listed == turn.ranking.selected \o turn.ranking.rejected
           IN  \A i, j \in DOMAIN listed : listed[i].id = listed[j].id => i = j

\* What the search could show, and how much of it is a copy of something else.
Reachable == {p \in points : p.vis = "player"}
Supply == {Shown(p.text) : p \in {q \in Reachable : q.text \notin ToSet(turn.standing)}}
Copies == Cardinality({p.id : p \in {q \in Reachable : q.text \notin ToSet(turn.standing)}})
            - Cardinality(Supply)
Echoes == Cardinality({p.id : p \in {q \in Reachable : q.text \in ToSet(turn.standing)}})

\* The window is filled: as long as no more memories echo the standing facts than
\* there are standing facts, and no more than Window - 1 copies are about, dropping
\* duplicates never leaves a slot empty that a distinct text could have had.
\* (TurnRetrievalStage.run: the over-fetch)
WindowFilled ==
    Prompted /\ turn.dense /\ Echoes <= Len(turn.standing) /\ Copies <= Window - 1 =>
        Len(turn.prompt) >= Min({Window, Cardinality(Supply)})

\* Only what the player may know, and nothing consolidation retired, is shown: a
\* retired memory comes back only through a point the index failed to drop.  And an
\* amended fact gives way only to a newer eligible one that says all it said.
\* (score_memories_lexical, build_standing_facts, _drop_superseded_facts)
ShownIsLive ==
    /\ Prompted =>
        /\ \A i \in DOMAIN turn.prompt :
              LET r == turn.prompt[i]
                  rows == {m \in turn.loaded : m.id = r.id}
              IN  /\ r.chunk.vis = "player"
                  /\ (\E m \in rows : m.retired) => r.id \in {p.id : p \in points}
        /\ \A t \in ToSet(turn.standing) :
              \/ t \in ToSet(turn.pins)
              \/ \E m \in turn.loaded : m.text = t /\ m.vis = "player" /\ ~m.retired
    /\ turn.phase = "loaded" /\ setup.pinning =>
        \A m \in Superseded(turn.loaded) : \E n \in CanonEligible(turn.loaded, TRUE) :
            m.created < n.created /\ Terms(m.text) \subseteq Terms(n.text)

\* What leaves the guard holds no matchable unit of a hidden fact, whatever the
\* order in which units of one length are taken.  (_redact_one, scan_reply)
Contained ==
    turn.phase \in {"criticised", "sent"} =>
        \A u \in MatchableUnits(HiddenFacts) : Occurrences(turn.text, u) = {}

Silenced(t, rows) ==
    \E n \in rows : n.text = t \/ Covers(n.text, t, 3, 4) \/ {<<n.text, t>>, <<t, n.text>>} \cap Alike # {}

\* A row this turn wrote from t carries the event, with its tags and its weight.
Carries(t, event) == \E m \in turn.written : m.text = t /\ event.tags \subseteq m.tags
                                               /\ m.importance >= EventImportance

\* t is not written because an older row, or one of this turn's, says as much; or
\* because another candidate does that was itself so silenced after it.
Duplicated(t) ==
    LET rows == turn.loaded \cup turn.written
    IN  /\ turn.deduped /\ turn.loaded # {}
        /\ t \notin {m.text : m \in turn.written}
        /\ \/ Silenced(t, rows)
           \/ \E c \in ToSet(turn.batch) : Silenced(t, {c}) /\ Silenced(c.text, rows)

\* Each explicit event of the message goes into a row of its own or, where curated
\* memories cover it, into the row of one of these, with its tags and its weight; and
\* it is lost, tags and all, only when the write-dedup ran against older rows and that
\* very text duplicates an older row or another of the turn, be it the message's other
\* event.  (_run_extraction, best_covering_summary, drop_duplicates)
EventLostOnlyToADuplicate ==
    turn.phase = "stored" =>
        \A e \in ToSet(ExplicitEvents(turn.message)) :
            LET covering == {turn.curated[i].text : i \in CoveringIndices(e.text, turn.curated)}
            IN  \E t \in IF covering = {} THEN {e.text} ELSE covering :
                    Carries(t, e) \/ Duplicated(t)

\* The claim of the fold: "a coverage-drop can no longer silence a durable event's
\* canon eligibility".  The write-dedup that follows does silence it.
DurableEventStaysEligible ==
    turn.phase = "stored" =>
        \A e \in ToSet(ExplicitEvents(turn.message)) :
            \E m \in memories : /\ m.vis = "player" /\ m.importance >= CanonFloor
                                /\ e.tags \subseteq m.tags
                                /\ Covers(m.text, e.text, 1, 2)
=============================================================================
