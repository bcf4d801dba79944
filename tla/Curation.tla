------------------------------ MODULE Curation ------------------------------
(***************************************************************************)
(* What a finished turn leaves behind: the deterministic extraction of the *)
(* player's explicit durable events, the fold of each event onto the       *)
(* curated memory that covers it, and the write-dedup.  Pure operators;    *)
(* TurnRecall gives them their state.                                      *)
(*                                                                         *)
(* A candidate is [text, vis, tags, importance, bond]; a message is the    *)
(* sequence of the sentences the player wrote.                             *)
(***************************************************************************)
EXTENDS Recall

CONSTANTS Alike,             \* pairs of texts whose embeddings are near-identical
          SemanticDedup      \* rag_write_dedup_cosine_threshold < 1

ASSUME CurationAssumption == SemanticDedup \in BOOLEAN /\ Alike \subseteq Texts \X Texts

EventImportance == 4
PlayerAndActor == 70         \* the scene and persona boosts of a memory made here and now

ContentTerms(message) == UNION {Text[message[i]].words : i \in DOMAIN message}

ExplicitEvents(message) ==
    LET stated == At(message, {i \in DOMAIN message : Text[message[i]].event # {}})
    IN  [i \in DOMAIN stated |->
            [text |-> stated[i], vis |-> "player", tags |-> Text[stated[i]].event,
             importance |-> EventImportance, bond |-> PlayerAndActor]]

HintsAtEvent(message) == \E i \in DOMAIN message : Text[message[i]].hint

Gated(gating, message, replyHints) ==
    /\ gating = "auto"
    /\ ExplicitEvents(message) = <<>>
    /\ ~HintsAtEvent(message) /\ ~replyHints

(***************************************************************************)
(* Coverage: how many of a text's own terms (framing stripped) another     *)
(* text has.  A reversal marker the other lacks makes it a change of       *)
(* state, never a duplicate.                                               *)
(***************************************************************************)
Overlap(t, u) == Cardinality(Text[t].words \cap Text[u].words)

Covers(u, t, num, den) ==
    /\ den * Overlap(t, u) >= num * Cardinality(Text[t].words)
    /\ Text[t].marks \subseteq Text[u].marks

CoveredForWriting(t, texts) ==
    Text[t].words = {} \/ \E u \in texts : Covers(u, t, 3, 4)

CoveringIndices(t, curated) ==
    IF Text[t].words = {} THEN {} ELSE {i \in DOMAIN curated : Covers(curated[i].text, t, 1, 2)}

BestCovering(t, curated) ==
    CHOOSE i \in CoveringIndices(t, curated) : \A j \in CoveringIndices(t, curated) :
        \/ Overlap(t, curated[i].text) > Overlap(t, curated[j].text)
        \/ Overlap(t, curated[i].text) = Overlap(t, curated[j].text) /\ i <= j

\* A fold that drops the covered event and its tags.
FoldEventAway(batch, event) ==
    IF CoveringIndices(event.text, batch.curated) = {}
    THEN [batch EXCEPT !.extras = Append(batch.extras, event)] ELSE batch

FoldEvent(batch, event) ==
    IF CoveringIndices(event.text, batch.curated) = {}
    THEN [batch EXCEPT !.extras = Append(batch.extras, event)]
    ELSE LET i == BestCovering(event.text, batch.curated)
             target == batch.curated[i]
         IN  [batch EXCEPT !.curated = ReplaceAt(batch.curated, i,
                [target EXCEPT !.tags = target.tags \cup event.tags,
                               !.importance = Max({target.importance, event.importance})])]

FoldEvents(curated, events) ==
    LET folded[n \in 0..Len(events)] ==
            IF n = 0 THEN [curated |-> curated, extras |-> <<>>]
            ELSE FoldEvent(folded[n - 1], events[n])
        batch == folded[Len(events)]
    IN  batch.curated \o batch.extras

(***************************************************************************)
(* Write-dedup: a candidate that an existing summary, or one kept before   *)
(* it, covers is dropped; then, with the semantic pass on, one whose       *)
(* embedding is near-identical to such a text.                             *)
(***************************************************************************)
TextsOf(rows) == {rows[i].text : i \in DOMAIN rows}

\* A dedup that looks at this turn's candidates only.
KeepUncoveredInBatch(existing, kept, c) ==
    IF CoveredForWriting(c.text, TextsOf(kept)) THEN kept ELSE Append(kept, c)

KeepUncovered(existing, kept, c) ==
    IF CoveredForWriting(c.text, existing \cup TextsOf(kept))
    THEN kept ELSE Append(kept, c)

KeepUnlike(existing, kept, c) ==
    IF \E u \in existing \cup TextsOf(kept) :
            u = c.text \/ <<u, c.text>> \in Alike \/ <<c.text, u>> \in Alike
    THEN kept ELSE Append(kept, c)

DropCovered(candidates, existing) ==
    LET kept[n \in 0..Len(candidates)] ==
            IF n = 0 THEN <<>> ELSE KeepUncovered(existing, kept[n - 1], candidates[n])
    IN  kept[Len(candidates)]

DropAlike(candidates, existing) ==
    LET kept[n \in 0..Len(candidates)] ==
            IF n = 0 THEN <<>> ELSE KeepUnlike(existing, kept[n - 1], candidates[n])
    IN  kept[Len(candidates)]

\* An empty session skips both passes, and so does a failed load of the summaries.
DropDuplicates(candidates, existing, embedderUp) ==
    IF existing = {} THEN candidates
    ELSE IF SemanticDedup /\ embedderUp THEN DropAlike(DropCovered(candidates, existing), existing)
    ELSE DropCovered(candidates, existing)
=============================================================================
