------------------------------- MODULE Recall -------------------------------
(***************************************************************************)
(* What one turn puts in front of the model: the Standing-facts block, the *)
(* lexical slice ("Lane B"), the reranked search results, and the walk     *)
(* that picks the prompt's retrieved context out of them.  All of it is    *)
(* pure; TurnRecall gives it its state.                                    *)
(*                                                                         *)
(* A text is a name.  Text[t] says what the code can tell about it:        *)
(*   words, frame   its content terms: those of the event and those of the *)
(*                  constant framing "The player stated:"                  *)
(*   marks          its reversal markers (never, broke, ...)               *)
(*   event, hint    the tags of the explicit durable event it states (none *)
(*                  for plain talk), and whether it uses a durable word    *)
(*   len            its length; stops and gaps are the positions after a   *)
(*                  sentence and of a space                                *)
(*   stem, own      it reads like every other text of stem up to own       *)
(* Scores are thousandths; no stamp (and no importance) is 0.              *)
(***************************************************************************)
EXTENDS Integers, Sequences, FiniteSets, SequencesExt

CONSTANTS Text,            \* text -> what the code can tell about it
          Tags,            \* the tags a memory may have
          Window,          \* rag_default_top_k: chunks the prompt may hold
          MaxChunkChars,   \* rag_max_retrieved_chunk_chars
          Oversample,      \* rag_candidate_oversample_factor
          RecencyWeight,   \* rag_recency_weight, in thousandths
          CanonFloor,      \* canon_importance_floor
          CanonMaxItems,   \* canon_max_items
          CanonMaxChars,   \* canon_max_chars
          CanonTags,       \* CANON_TAGS
          CanonTagsDE,     \* CANON_TAGS_DE
          SliceFloor       \* rag_slice_min_score as a rarity, <<0, 1>> for None

ASSUME RecallAssumption ==
    /\ Window \in Nat \ {0} /\ MaxChunkChars \in Nat \ {0} /\ Oversample \in Nat \ {0}
    /\ CanonMaxItems \in Nat /\ CanonMaxChars \in Nat \ {0} /\ CanonFloor \in 1..5
    /\ RecencyWeight \in Nat
    /\ \A t \in DOMAIN Text : IsFiniteSet(Text[t].words) /\ Text[t].event \subseteq Tags

Texts == DOMAIN Text
Visibility == {"player", "gm", "character_private"}
Terms(t) == Text[t].words \cup Text[t].frame
DocTerms(m) == Terms(m.text) \cup m.tags

(***************************************************************************)
(* Orders.  Python sorts by a tuple of keys; Ordered lists a set that way. *)
(***************************************************************************)
Precedes(k, l) == \E i \in DOMAIN k : k[i] < l[i] /\ \A j \in 1..(i - 1) : k[j] = l[j]

Ordered(S, Before(_, _)) ==
    [i \in 1..Cardinality(S) |->
        CHOOSE x \in S : Cardinality({y \in S : Before(y, x)}) = i - 1]

\* The elements of s at the indices I.
At(s, I) ==
    LET order == Ordered(I, LAMBDA i, j : i < j)
    IN  [k \in DOMAIN order |-> s[order[k]]]

FirstN(s, n) == SubSeq(s, 1, Min({n, Len(s)}))
Ids(s) == {s[i].id : i \in DOMAIN s}

(***************************************************************************)
(* Standing facts: author-pinned lines first, then the durable memories.   *)
(***************************************************************************)
EffectiveCanonTags(pinning) == IF pinning THEN CanonTags \cup CanonTagsDE ELSE CanonTags

CanonKey(m) == <<-m.importance, -m.created, m.id>>
CanonBefore(m, n) == Precedes(CanonKey(m), CanonKey(n))

CanonCandidates(mems, pinning) ==
    {m \in mems : /\ m.vis = "player"
                  /\ m.tags \cap EffectiveCanonTags(pinning) # {}
                  /\ m.importance >= CanonFloor \/ pinning}

SupersededBy(older, newer) ==
    /\ older.created < newer.created
    /\ older.tags \cap newer.tags \cap EffectiveCanonTags(TRUE) # {}
    /\ Terms(older.text) \subseteq Terms(newer.text)
    /\ Terms(older.text) # Terms(newer.text)

Superseded(mems) ==
    {m \in CanonCandidates(mems, TRUE) :
        \E n \in CanonCandidates(mems, TRUE) : SupersededBy(m, n)}

CanonEligible(mems, pinning) ==
    CanonCandidates(mems, pinning) \ (IF pinning THEN Superseded(mems) ELSE {})

Chars(lines) == FoldLeft(LAMBDA n, t : n + Text[t].len, 0, lines)

AdmitFact(lines, t) ==
    IF \/ t \in ToSet(lines)
       \/ Len(lines) >= CanonMaxItems
       \/ Chars(lines) + Text[t].len > CanonMaxChars
    THEN lines ELSE Append(lines, t)

AdmitFacts(texts) ==
    LET lines[n \in 0..Len(texts)] == IF n = 0 THEN <<>> ELSE AdmitFact(lines[n - 1], texts[n])
    IN  lines[Len(texts)]

StandingFacts(mems, pinned, pinning) ==
    LET eligible == Ordered(CanonEligible(mems, pinning), CanonBefore)
    IN  AdmitFacts(pinned \o [i \in DOMAIN eligible |-> eligible[i].text])

(***************************************************************************)
(* The lexical slice.  A hit's score is the sum of log(N / df) over the    *)
(* terms it shares with the message; sums of logarithms are compared as    *)
(* products, N^k / (df1 * ... * dfk).                                      *)
(***************************************************************************)
\* A pool that keeps what consolidation retired.
LexicalPoolOfAll(mems) == {m \in mems : m.vis = "player"}

LexicalPool(mems) == {m \in mems : m.vis = "player" /\ ~m.retired}

Rarity(m, query, pool) ==
    LET matched == query \cap DocTerms(m)
        df(w) == Cardinality({n \in pool : w \in DocTerms(n)})
        product[terms \in SUBSET matched] ==
            IF terms = {} THEN <<1, 1>>
            ELSE LET w == CHOOSE w \in terms : TRUE
                     rest == product[terms \ {w}]
                 IN  <<Cardinality(pool) * rest[1], df(w) * rest[2]>>
    IN  product[matched]

AtLeast(r, s) == r[1] * s[2] >= s[1] * r[2]

LexicalHits(mems, query) ==
    LET pool == LexicalPool(mems)
        rarity == [m \in pool |-> Rarity(m, query, pool)]
        Before(m, n) == \/ ~AtLeast(rarity[n], rarity[m])
                        \/ AtLeast(rarity[n], rarity[m]) /\ AtLeast(rarity[m], rarity[n])
                           /\ CanonBefore(m, n)
        hits == Ordered({m \in pool : query \cap DocTerms(m) # {}}, Before)
    IN  [i \in DOMAIN hits |-> [memory |-> hits[i], rarity |-> rarity[hits[i]]]]

EligibleHits(hits, quota) ==
    FirstN(At(hits, {i \in DOMAIN hits : AtLeast(hits[i].rarity, SliceFloor)}), quota)

(***************************************************************************)
(* Search and rerank.  A search returns the nearest `limit` visible chunks *)
(* of one collection; near says how near each text is to the query.  Every *)
(* collection is searched twice, with the context and with the bare        *)
(* message, and reranking keeps each chunk once, at its best score.        *)
(***************************************************************************)
CollectionWeight == [session |-> 80, persona |-> 40, lore |-> 0]
CollectionPriority == [session |-> 0, persona |-> 1, lore |-> 2]

\* the filter of a search: every point of the collection that the player may know
Visible(points, collection) ==
    {p \in points : p.collection = collection /\ p.vis = "player"}

Nearest(found, near, limit) ==
    LET Nearer(p, q) == Precedes(<<-near[p.text], p.id>>, <<-near[q.text], q.id>>)
    IN  ToSet(FirstN(Ordered(found, Nearer), limit))

Hit(p, near) == [chunk |-> p, score |-> near[p.text]]

Search(points, collection, near, limit) ==
    {Hit(p, near) : p \in Nearest(Visible(points, collection), near, limit)}

SearchAll(points, nears, topK) ==
    UNION {Search(points, collection, near, topK * Oversample) :
              collection \in DOMAIN CollectionWeight, near \in nears}

LexicalBoost(chunk, query) == Min({50 * Cardinality(query \cap DocTerms(chunk)), 250})

RecencyBoost(chunk, found) ==
    LET stamps == {f.chunk.created : f \in found} \ {0}
    IN  IF Cardinality(stamps) < 2 \/ chunk.created = 0 THEN 0
        ELSE (RecencyWeight * Cardinality({s \in stamps : s < chunk.created})
                * Min({chunk.importance, 5})) \div (5 * (Cardinality(stamps) - 1))

\* bond is what the chunk's own scene, persona and session add
RankChunk(f, found, query) ==
    [id |-> f.chunk.id, chunk |-> f.chunk, score |-> f.score, guaranteed |-> FALSE,
     boost |-> CollectionWeight[f.chunk.collection]
               + f.chunk.bond
               + 15 * Max({f.chunk.importance - 1, 0})
               + LexicalBoost(f.chunk, query)
               + RecencyBoost(f.chunk, found)]

RankKey(r) == <<-(r.score + r.boost), -r.score, CollectionPriority[r.chunk.collection], r.id>>
RankBefore(r, s) == Precedes(RankKey(r), RankKey(s))

Rerank(found, query, topK) ==
    LET ranked == {RankChunk(f, found, query) : f \in found}
        best == {r \in ranked : \A s \in ranked : s.id = r.id => ~RankBefore(s, r)}
        order == Ordered(best, RankBefore)
    IN  [selected |-> FirstN(order, topK), rejected |-> SubSeq(order, topK + 1, Len(order))]

(***************************************************************************)
(* Slice quotas: the guaranteed members move, or are injected, to the      *)
(* front, so that the unchanged walk below takes them first.               *)
(***************************************************************************)
SessionBoost == 20           \* a memory of this session, in whichever collection
MemoryChunk(m) ==
    [id |-> m.id, collection |-> "session", text |-> m.text, vis |-> m.vis, tags |-> m.tags,
     importance |-> m.importance, created |-> m.created, bond |-> m.bond + SessionBoost]

Injected(m) == [id |-> m.id, chunk |-> MemoryChunk(m), score |-> 0, boost |-> 0, guaranteed |-> TRUE]

Guarantee(m, selected) ==
    IF m.id \in Ids(selected)
    THEN [selected[SelectInSeq(selected, LAMBDA r : r.id = m.id)] EXCEPT !.guaranteed = TRUE]
    ELSE Injected(m)

Members(hits, quota) ==
    [i \in DOMAIN EligibleHits(hits, quota) |-> EligibleHits(hits, quota)[i].memory]
Guarantees(ranking, members) ==
    [i \in DOMAIN members |-> Guarantee(members[i], ranking.selected)]
Others(ranked, members) == At(ranked, {i \in DOMAIN ranked : ranked[i].id \notin Ids(members)})

\* A slice that appends its members where the prompt window may not reach them.
ApplySliceLast(ranking, hits, quota) ==
    LET members == Members(hits, quota)
    IN  [selected |-> Others(ranking.selected, members) \o Guarantees(ranking, members),
         rejected |-> Others(ranking.rejected, members)]

ApplySlice(ranking, hits, quota) ==
    LET members == Members(hits, quota)
    IN  [selected |-> Guarantees(ranking, members) \o Others(ranking.selected, members),
         rejected |-> Others(ranking.rejected, members)]

SliceConfidence == 500
Confidence(selected) ==
    LET Contribution(r) == IF r.guaranteed THEN Max({r.score, SliceConfidence}) ELSE r.score
        visible == {r \in ToSet(selected) : r.chunk.vis = "player"}
    IN  IF visible = {} THEN 0 ELSE Max({Contribution(r) : r \in visible})

(***************************************************************************)
(* The walk that fills the prompt's Retrieved Context.  Shown(t) is what   *)
(* the prompt shows of t: all of it (cut 0) or its first cut characters.   *)
(* A sentence or word boundary wins only if it keeps half of the budget.   *)
(***************************************************************************)
CutAt(t, max) ==
    LET budget == max - 3
        stop == Max({0} \cup {p \in Text[t].stops : p <= budget})
        gap == Max({0} \cup {p \in Text[t].gaps : p < budget})
    IN  IF 2 * stop >= budget THEN stop ELSE IF 2 * gap >= budget THEN gap ELSE budget

Shown(t) ==
    IF Text[t].len <= MaxChunkChars THEN [text |-> t, cut |-> 0]
    ELSE IF MaxChunkChars <= 3 THEN [text |-> "...", cut |-> MaxChunkChars]
    ELSE LET cut == CutAt(t, MaxChunkChars)
         IN  [text |-> IF cut <= Text[t].own THEN Text[t].stem ELSE t, cut |-> cut]

\* Walks that compare the whole texts only, and that do not stop at the window.
Repeats(t, lines) == \E i \in DOMAIN lines : Shown(lines[i].chunk.text) = Shown(t)
TakeChunkWhole(standing, taken, r) ==
    IF \/ Len(taken) >= Window
       \/ r.chunk.vis # "player"
       \/ r.chunk.text \in ToSet(standing) \cup {taken[i].chunk.text : i \in DOMAIN taken}
    THEN taken ELSE Append(taken, r)
TakeChunkUnbounded(standing, taken, r) ==
    IF r.chunk.vis # "player" \/ r.chunk.text \in ToSet(standing) \/ Repeats(r.chunk.text, taken)
    THEN taken ELSE Append(taken, r)

TakeChunk(standing, taken, r) ==
    IF \/ Len(taken) >= Window
       \/ r.chunk.vis # "player"
       \/ r.chunk.text \in ToSet(standing)
       \/ Repeats(r.chunk.text, taken)
    THEN taken ELSE Append(taken, r)

PromptChunks(selected, standing) ==
    LET taken[n \in 0..Len(selected)] ==
            IF n = 0 THEN <<>> ELSE TakeChunk(standing, taken[n - 1], selected[n])
    IN  taken[Len(selected)]

\* A fetch that leaves no margin for duplicates.
TopKExact(standing) == Window + Len(standing)
TopK(standing) == Window + Len(standing) + Max({Window - 1, 0})
=============================================================================
