----------------------------- MODULE ReplyGuard -----------------------------
(***************************************************************************)
(* The deterministic guards around the hidden facts: which units of them   *)
(* are matched, and how one occurrence of a unit is redacted.  A text is a *)
(* sequence of tokens; a fact is a sequence of sentences.  Lower[k] is the *)
(* token in lower case: the comparison ignores case.  Tokens keep their    *)
(* width in lower case (the README names the exception).                   *)
(***************************************************************************)
EXTENDS Integers, Sequences, FiniteSets, SequencesExt

CONSTANTS Lower,             \* token -> token in lower case
          Filler,            \* stop words and short words
          HiddenFacts,       \* secrets, forbidden knowledge, private and GM-only texts
          MinFactTokens,     \* _MIN_FACT_CHARS
          ParaphrasePercent  \* containment_overlap_threshold

Redaction == "[redacted]"

Lowered(text) == [i \in DOMAIN text |-> Lower[text[i]]]
WholeFact(fact) == FlattenSeq(fact)

MatchableUnits(facts) ==
    {u \in {WholeFact(f) : f \in facts} \cup UNION {ToSet(f) : f \in facts} :
        Len(u) >= MinFactTokens}

\* Longest first; units of one length come in no particular order.
NextUnits(units) == {u \in units : \A v \in units : Len(v) <= Len(u)}

OccursAt(text, unit, i) ==
    /\ i + Len(unit) - 1 <= Len(text)
    /\ SubSeq(Lowered(text), i, i + Len(unit) - 1) = Lowered(unit)

Occurrences(text, unit) == {i \in DOMAIN text : OccursAt(text, unit, i)}

RedactFirst(text, unit) ==
    LET i == Min(Occurrences(text, unit))
    IN  SubSeq(text, 1, i - 1) \o <<Redaction>> \o SubSeq(text, i + Len(unit), Len(text))

ContentTokens(text) == ToSet(Lowered(text)) \ (Filler \cup {Redaction})

Paraphrased(text, facts) ==
    {f \in facts :
        LET tokens == ContentTokens(WholeFact(f))
        IN  /\ tokens # {}
            /\ 100 * Cardinality(tokens \cap ContentTokens(text))
                 >= ParaphrasePercent * Cardinality(tokens)}

\* A unit is never empty, and lower case is known of every token and of the marker.
ASSUME GuardAssumption ==
    /\ MinFactTokens \in Nat \ {0}
    /\ Redaction \in DOMAIN Lower
    /\ \A u \in MatchableUnits(HiddenFacts) : u \in Seq(DOMAIN Lower)
=============================================================================
