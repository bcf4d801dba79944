-------------------------- MODULE TurnRecallProofs --------------------------
(***************************************************************************)
(* Proofs about TurnRecall.  First containment, for every set of hidden    *)
(* facts, every text the actor or the critic may write and every order in  *)
(* which the units are taken.  Then what is recalled: the lists and walks  *)
(* the operators are made of, the standing facts, the slice, the search    *)
(* and the prompt, and the invariant that ties them to the stores.         *)
(*                                                                         *)
(* The guard takes the units one by one and each until its last occurrence *)
(* is gone; the text changes under it.  The lemma that matters is that a   *)
(* redaction never makes an occurrence of a unit already done with: what   *)
(* it joins is separated by the marker (RedactionMakesNone).               *)
(***************************************************************************)
EXTENDS TurnRecall, SequenceTheorems, FiniteSetTheorems, WellFoundedInduction, TLAPS

Token == DOMAIN Lower
Units == MatchableUnits(HiddenFacts)

\* no hidden fact holds the marker that replaces it
MarkerUnsaid == \A u \in Units : \A j \in 1..Len(u) : Lower[u[j]] # Lower[Redaction]

-----------------------------------------------------------------------------
(* Occurrences, token by token *)

LEMMA LeastExists ==
    ASSUME NEW S \in SUBSET Nat, S # {}
    PROVE  Min(S) \in S /\ \A y \in S : Min(S) <= y
  <1>1. PICK x \in S : \A y \in S : ~ (<<y, x>> \in OpToRel(<, Nat))
    BY WFMin, NatLessThanWellFounded
  <1>2. OpToRel(<, Nat) = {p \in Nat \X Nat : p[1] < p[2]}
    BY DEF OpToRel
  <1>3. ASSUME NEW y \in S
        PROVE  x <= y
    <2>1. <<y, x>> \notin {p \in Nat \X Nat : p[1] < p[2]}
      BY <1>1, <1>2
    <2> QED BY <2>1
  <1> QED BY <1>3 DEF Min

LEMMA LoweredTyped ==
    ASSUME NEW text \in Seq(Token)
    PROVE  /\ Lowered(text) \in Seq({Lower[t] : t \in Token})
           /\ Len(Lowered(text)) = Len(text)
           /\ \A i \in 1..Len(text) : Lowered(text)[i] = Lower[text[i]]
  <1> DEFINE L == {Lower[t] : t \in Token}
  <1>1. DOMAIN text = 1..Len(text) /\ Len(text) \in Nat
        /\ \A i \in 1..Len(text) : text[i] \in Token
    BY LenProperties, ElementOfSeq
  <1>2. Lowered(text) \in [1..Len(text) -> L]
    BY <1>1 DEF Lowered
  <1>3. Lowered(text) \in Seq(L)
    BY <1>1, <1>2, SeqDef
  <1>4. Len(Lowered(text)) = Len(text)
    BY <1>1, <1>2, <1>3, LenProperties
  <1> QED BY <1>1, <1>3, <1>4 DEF Lowered

\* A unit occurs where all its tokens do, case aside.
LEMMA OccursByToken ==
    ASSUME NEW text \in Seq(Token), NEW unit \in Seq(Token), NEW i \in 1..Len(text)
    PROVE  OccursAt(text, unit, i) <=>
               /\ i + Len(unit) - 1 <= Len(text)
               /\ \A j \in 1..Len(unit) : Lower[text[i + j - 1]] = Lower[unit[j]]
  <1> DEFINE L == {Lower[t] : t \in Token}
             low == Lowered(text)
             lowUnit == Lowered(unit)
             n == Len(unit)
             part == SubSeq(low, i, i + n - 1)
  <1>1. /\ low \in Seq(L) /\ Len(low) = Len(text)
        /\ \A k \in 1..Len(text) : low[k] = Lower[text[k]]
        /\ lowUnit \in Seq(L) /\ Len(lowUnit) = n
        /\ \A k \in 1..n : lowUnit[k] = Lower[unit[k]]
    BY LoweredTyped
  <1>2. n \in Nat /\ Len(text) \in Nat
    BY LenProperties
  <1> HIDE DEF low, lowUnit, n, L
  <1>3. ASSUME i + n - 1 <= Len(text)
        PROVE  part = lowUnit <=> \A j \in 1..n : Lower[text[i + j - 1]] = Lower[unit[j]]
    <2>1. \A k \in i..(i + n - 1) : low[k] \in L
      BY <1>1, <1>2, <1>3, ElementOfSeq
    <2>2. /\ part \in Seq(L)
          /\ Len(part) = IF i <= i + n - 1 THEN (i + n - 1) - i + 1 ELSE 0
          /\ \A j \in 1..((i + n - 1) - i + 1) : part[j] = low[i + j - 1]
      BY <1>2, <2>1, SubSeqProperties
    <2>3. Len(part) = n
      BY <1>2, <2>2
    <2>4. ASSUME NEW j \in 1..n
          PROVE  part[j] = Lower[text[i + j - 1]]
      <3>1. i + j - 1 \in 1..Len(text) /\ j \in 1..((i + n - 1) - i + 1)
        BY <1>2, <1>3
      <3>2. part[j] = low[i + j - 1]
        BY <2>2, <3>1
      <3>3. low[i + j - 1] = Lower[text[i + j - 1]]
        BY <1>1, <3>1
      <3> QED BY <3>2, <3>3
    <2>5. part = lowUnit <=> \A j \in 1..n : part[j] = lowUnit[j]
      BY <1>1, <2>2, <2>3, SeqEqual
    <2>6. \A j \in 1..n : lowUnit[j] = Lower[unit[j]]
      BY <1>1
    <2> HIDE DEF part
    <2> QED BY <2>4, <2>5, <2>6
  <1>4. OccursAt(text, unit, i) <=> i + n - 1 <= Len(text) /\ part = lowUnit
    BY DEF OccursAt, low, lowUnit, n
  <1> QED BY <1>3, <1>4 DEF n

LEMMA OccurrencesExist ==
    ASSUME NEW text \in Seq(Token), NEW unit \in Seq(Token), Occurrences(text, unit) # {}
    PROVE  LET i == Min(Occurrences(text, unit))
           IN  i \in 1..Len(text) /\ i + Len(unit) - 1 <= Len(text)
  <1> DEFINE i == Min(Occurrences(text, unit))
  <1>1. DOMAIN text = 1..Len(text) /\ Len(text) \in Nat
    BY LenProperties, ElementOfSeq
  <1>2. Occurrences(text, unit) \in SUBSET Nat
    BY <1>1 DEF Occurrences
  <1>3. i \in Occurrences(text, unit)
    BY <1>2, LeastExists
  <1>4. i \in 1..Len(text) /\ OccursAt(text, unit, i)
    BY <1>1, <1>3 DEF Occurrences
  <1> HIDE DEF i
  <1>5. i + Len(unit) - 1 <= Len(text)
    BY <1>4, OccursByToken
  <1> QED BY <1>4, <1>5 DEF i

\* A redaction keeps what is before and behind the occurrence, with the marker between.
LEMMA RedactedByToken ==
    ASSUME NEW text \in Seq(Token), NEW unit \in Seq(Token), Len(unit) > 0,
           Redaction \in Token, Occurrences(text, unit) # {}
    PROVE  LET i == Min(Occurrences(text, unit))
               red == RedactFirst(text, unit)
           IN  /\ red \in Seq(Token)
               /\ Len(red) = Len(text) - Len(unit) + 1
               /\ \A k \in 1..(i - 1) : red[k] = text[k]
               /\ red[i] = Redaction
               /\ \A k \in (i + 1)..Len(red) : red[k] = text[k + Len(unit) - 1]
  <1> DEFINE i == Min(Occurrences(text, unit))
             n == Len(unit)
             before == SubSeq(text, 1, i - 1)
             behind == SubSeq(text, i + n, Len(text))
             marked == before \o <<Redaction>>
             red == marked \o behind
  <1>1. Len(text) \in Nat /\ n \in Nat /\ n > 0 /\ \A k \in 1..Len(text) : text[k] \in Token
    BY LenProperties, ElementOfSeq
  <1>2. i \in 1..Len(text) /\ i + n - 1 <= Len(text)
    BY OccurrencesExist
  <1> HIDE DEF i, n
  <1>3. /\ before \in Seq(Token) /\ Len(before) = i - 1
        /\ \A k \in 1..(i - 1) : before[k] = text[k]
    <2>1. \A k \in 1..(i - 1) : text[k] \in Token
      BY <1>1, <1>2
    <2>2. 1 \in Int /\ i - 1 \in Int
      BY <1>1, <1>2
    <2>3. /\ before \in Seq(Token)
          /\ Len(before) = IF 1 <= i - 1 THEN (i - 1) - 1 + 1 ELSE 0
          /\ \A k \in 1..((i - 1) - 1 + 1) : before[k] = text[1 + k - 1]
      BY <2>1, <2>2, SubSeqProperties
    <2>4. \A k \in 1..(i - 1) : k \in 1..((i - 1) - 1 + 1) /\ 1 + k - 1 = k
      BY <1>1, <1>2
    <2> QED BY <1>1, <1>2, <2>3, <2>4
  <1>4. /\ behind \in Seq(Token) /\ Len(behind) = Len(text) - i - n + 1
        /\ \A k \in 1..(Len(text) - i - n + 1) : behind[k] = text[i + n + k - 1]
    <2>1. \A k \in (i + n)..Len(text) : text[k] \in Token
      BY <1>1, <1>2
    <2>2. i + n \in Int /\ Len(text) \in Int
      BY <1>1, <1>2
    <2>3. /\ behind \in Seq(Token)
          /\ Len(behind) = IF i + n <= Len(text) THEN Len(text) - (i + n) + 1 ELSE 0
          /\ \A k \in 1..(Len(text) - (i + n) + 1) : behind[k] = text[(i + n) + k - 1]
      BY <2>1, <2>2, SubSeqProperties
    <2> QED BY <1>1, <1>2, <2>3
  <1> HIDE DEF before, behind
  <1>5. <<Redaction>> \in Seq(Token) /\ Len(<<Redaction>>) = 1 /\ <<Redaction>>[1] = Redaction
    OBVIOUS
  <1>6. /\ marked \in Seq(Token) /\ Len(marked) = i
        /\ \A k \in 1..(i - 1) : marked[k] = text[k]
        /\ marked[i] = Redaction
    <2>1. /\ marked \in Seq(Token)
          /\ Len(marked) = Len(before) + Len(<<Redaction>>)
          /\ \A k \in 1..(Len(before) + Len(<<Redaction>>)) :
                marked[k] = IF k <= Len(before) THEN before[k] ELSE <<Redaction>>[k - Len(before)]
      BY <1>3, <1>5, ConcatProperties
    <2>2. Len(before) + Len(<<Redaction>>) = i /\ i - Len(before) = 1 /\ ~ (i <= Len(before))
      BY <1>1, <1>2, <1>3, <1>5
    <2>3. \A k \in 1..i : marked[k] = IF k <= i - 1 THEN before[k] ELSE <<Redaction>>[k - (i - 1)]
      BY <1>3, <2>1, <2>2
    <2>4. marked[i] = Redaction
      <3>1. i \in 1..i /\ ~ (i <= i - 1) /\ i - (i - 1) = 1
        BY <1>1, <1>2
      <3>2. marked[i] = <<Redaction>>[i - (i - 1)]
        BY <2>3, <3>1
      <3> QED BY <1>5, <3>1, <3>2
    <2>5. \A k \in 1..(i - 1) : marked[k] = text[k]
      BY <1>1, <1>2, <1>3, <2>3
    <2> QED BY <2>1, <2>2, <2>4, <2>5
  <1> HIDE DEF marked
  <1>7. /\ red \in Seq(Token)
        /\ Len(red) = i + (Len(text) - i - n + 1)
        /\ \A k \in 1..(i + (Len(text) - i - n + 1)) :
              red[k] = IF k <= i THEN marked[k] ELSE behind[k - i]
    <2>1. /\ red \in Seq(Token)
          /\ Len(red) = Len(marked) + Len(behind)
          /\ \A k \in 1..(Len(marked) + Len(behind)) :
                red[k] = IF k <= Len(marked) THEN marked[k] ELSE behind[k - Len(marked)]
      BY <1>4, <1>6, ConcatProperties
    <2>2. Len(marked) = i /\ Len(behind) = Len(text) - i - n + 1
      BY <1>4, <1>6
    <2> HIDE DEF red
    <2> QED BY <2>1, <2>2
  <1>8. red = RedactFirst(text, unit)
    BY DEF red, marked, before, behind, i, n, RedactFirst
  <1> HIDE DEF red
  <1>9. Len(red) = Len(text) - n + 1
    BY <1>1, <1>2, <1>7
  <1>10. (\A k \in 1..(i - 1) : red[k] = text[k]) /\ red[i] = Redaction
    <2>1. \A k \in 1..i : k \in 1..(i + (Len(text) - i - n + 1)) /\ k <= i
      BY <1>1, <1>2
    <2>2. \A k \in 1..i : red[k] = marked[k]
      BY <1>7, <2>1
    <2>3. i \in 1..i /\ 1..(i - 1) \subseteq 1..i
      BY <1>2
    <2> QED BY <1>6, <2>2, <2>3
  <1>11. ASSUME NEW k \in (i + 1)..Len(red)
         PROVE  red[k] = text[k + n - 1]
    <2>1. /\ k \in 1..(i + (Len(text) - i - n + 1)) /\ ~ (k <= i)
          /\ k - i \in 1..(Len(text) - i - n + 1) /\ i + n + (k - i) - 1 = k + n - 1
      BY <1>1, <1>2, <1>9
    <2>2. red[k] = behind[k - i]
      BY <1>7, <2>1
    <2>3. behind[k - i] = text[i + n + (k - i) - 1]
      BY <1>4, <2>1
    <2> QED BY <2>1, <2>2, <2>3
  <1> QED BY <1>7, <1>8, <1>9, <1>10, <1>11 DEF i, n

\* A redaction makes no occurrence of a unit that does not hold the marker: an occurrence
\* in the new text lies before the marker or behind it, and so was in the old text.
LEMMA RedactionMakesNone ==
    ASSUME NEW text \in Seq(Token), NEW unit \in Seq(Token), Len(unit) > 0,
           NEW gone \in Seq(Token), Len(gone) > 0, Redaction \in Token,
           \A j \in 1..Len(gone) : Lower[gone[j]] # Lower[Redaction],
           Occurrences(text, unit) # {},
           Occurrences(text, gone) = {}
    PROVE  Occurrences(RedactFirst(text, unit), gone) = {}
  <1> DEFINE i == Min(Occurrences(text, unit))
             red == RedactFirst(text, unit)
             n == Len(unit)
             m == Len(gone)
  <1>1. Len(text) \in Nat /\ n \in Nat /\ n > 0 /\ m \in Nat /\ m > 0
    BY LenProperties
  <1>2. i \in 1..Len(text) /\ i + n - 1 <= Len(text)
    BY OccurrencesExist
  <1>3. /\ red \in Seq(Token)
        /\ Len(red) = Len(text) - n + 1
        /\ \A k \in 1..(i - 1) : red[k] = text[k]
        /\ red[i] = Redaction
        /\ \A k \in (i + 1)..Len(red) : red[k] = text[k + n - 1]
    BY RedactedByToken
  <1> HIDE DEF i, red, n, m
  <1>4. SUFFICES ASSUME NEW p \in Occurrences(red, gone)
                 PROVE  FALSE
    BY DEF red
  <1>5. p \in 1..Len(red) /\ OccursAt(red, gone, p)
    BY <1>3, LenProperties DEF Occurrences
  <1>6. /\ p + m - 1 <= Len(red)
        /\ \A j \in 1..m : Lower[red[p + j - 1]] = Lower[gone[j]]
    BY <1>3, <1>5, OccursByToken DEF m
  <1>7. DOMAIN text = 1..Len(text) /\ p \in Nat /\ i \in Nat
    BY <1>1, <1>2, <1>3, <1>5, LenProperties
  <1>8. CASE p <= i /\ i <= p + m - 1
    <2>1. i - p + 1 \in 1..m /\ p + (i - p + 1) - 1 = i
      BY <1>1, <1>2, <1>3, <1>5, <1>8
    <2>2. Lower[red[i]] = Lower[gone[i - p + 1]]
      BY <1>6, <2>1
    <2>3. Lower[gone[i - p + 1]] # Lower[Redaction]
      BY <2>1 DEF m
    <2> QED BY <1>3, <2>2, <2>3
  <1>9. CASE p + m - 1 < i
    <2>1. p \in 1..Len(text) /\ p + m - 1 <= Len(text)
      BY <1>1, <1>2, <1>3, <1>5, <1>9
    <2>2. ASSUME NEW j \in 1..m
          PROVE  Lower[text[p + j - 1]] = Lower[gone[j]]
      <3>1. p + j - 1 \in 1..(i - 1)
        <4>1. p >= 1
          BY <1>5
        <4> QED BY <1>1, <1>7, <1>9, <4>1
      <3>2. red[p + j - 1] = text[p + j - 1]
        BY <1>3, <3>1
      <3>3. Lower[red[p + j - 1]] = Lower[gone[j]]
        BY <1>6
      <3> QED BY <3>2, <3>3
    <2>3. OccursAt(text, gone, p)
      BY <2>1, <2>2, OccursByToken DEF m
    <2> QED BY <1>7, <2>1, <2>3 DEF Occurrences
  <1>10. CASE i < p
    <2> DEFINE q == p + n - 1
    <2>1. q \in 1..Len(text) /\ q + m - 1 <= Len(text)
      BY <1>1, <1>2, <1>3, <1>5, <1>6, <1>10
    <2>2. ASSUME NEW j \in 1..m
          PROVE  Lower[text[q + j - 1]] = Lower[gone[j]]
      <3>1. p + j - 1 \in (i + 1)..Len(red)
        <4>1. p + m - 1 <= Len(red) /\ Len(red) \in Int
          BY <1>1, <1>3, <1>6
        <4> QED BY <1>1, <1>7, <1>10, <4>1
      <3>4. (p + j - 1) + n - 1 = q + j - 1
        BY <1>1, <1>7
      <3>2. red[p + j - 1] = text[(p + j - 1) + n - 1]
        BY <1>3, <3>1
      <3>3. Lower[red[p + j - 1]] = Lower[gone[j]]
        BY <1>6
      <3> QED BY <3>2, <3>3, <3>4
    <2> HIDE DEF q
    <2>3. OccursAt(text, gone, q)
      BY <2>1, <2>2, OccursByToken DEF m
    <2> QED BY <1>7, <2>1, <2>3 DEF Occurrences
  <1> QED BY <1>1, <1>2, <1>3, <1>5, <1>8, <1>9, <1>10

-----------------------------------------------------------------------------
(* The guard: what it is done with does not occur in the text.             *)

Guarding(t) ==
    t.phase = "guarding" =>
        /\ t.text \in Seq(Token)
        /\ t.units \subseteq Units
        /\ \A u \in Units \ t.units : Occurrences(t.text, u) = {}

LetOut(t) ==
    t.phase \in {"criticised", "sent"} => \A u \in Units : Occurrences(t.text, u) = {}

Guarded(t) == DOMAIN t = DOMAIN Blank /\ Guarding(t) /\ LetOut(t)

Inv == Guarded(turn)

LEMMA UnitsTyped == \A u \in Units : u \in Seq(Token) /\ Len(u) > 0
  <1> TAKE u \in Units
  <1>1. u \in Seq(Token) /\ Len(u) >= MinFactTokens
    BY GuardAssumption DEF Units, Token, MatchableUnits
  <1> QED BY <1>1, GuardAssumption, LenProperties

\* A phase the guard has no part in.
LEMMA Elsewhere ==
    ASSUME NEW t, DOMAIN t = DOMAIN Blank, t.phase \notin {"guarding", "criticised", "sent"}
    PROVE  Guarded(t)
  BY DEF Guarded, Guarding, LetOut

\* The guard starts with every unit.
LEMMA SpeakGuarded ==
    ASSUME NEW role, NEW text \in Speech, Speak(role, text)
    PROVE  Guarded(turn')
  <1> DEFINE t == turn'
  <1>1. /\ DOMAIN t = DOMAIN Blank
        /\ t.phase = "guarding" /\ t.text = text /\ t.units = Units
    BY DEF Speak, Blank, Units
  <1>2. text \in Seq(Token)
    BY SpeechAssumption DEF Token
  <1> HIDE DEF t
  <1>3. Guarded(t)
    BY <1>1, <1>2 DEF Guarded, Guarding, LetOut
  <1> QED BY <1>3 DEF t

\* One unit is redacted once more, or done with as it does not occur.
LEMMA RedactNextGuarded ==
    ASSUME MarkerUnsaid, Guarded(turn), RedactNext
    PROVE  Guarded(turn')
  <1>1. /\ DOMAIN turn = DOMAIN Blank
        /\ turn.phase = "guarding"
        /\ turn.text \in Seq(Token) /\ turn.units \subseteq Units
        /\ \A v \in Units \ turn.units : Occurrences(turn.text, v) = {}
    BY DEF RedactNext, Guarded, Guarding
  <1>2. PICK u \in NextUnits(turn.units) :
          turn' = IF Occurrences(turn.text, u) # {}
                  THEN [turn EXCEPT !.text = RedactFirst(turn.text, u)]
                  ELSE [turn EXCEPT !.units = turn.units \ {u}]
    BY DEF RedactNext
  <1>3. u \in turn.units /\ u \in Seq(Token) /\ Len(u) > 0
    BY <1>1, <1>2, UnitsTyped DEF NextUnits
  <1>4. "phase" \in DOMAIN Blank /\ "text" \in DOMAIN Blank /\ "units" \in DOMAIN Blank
    BY DEF Blank
  <1>5. CASE Occurrences(turn.text, u) # {}
    <2> DEFINE t == turn'
    <2>1. /\ DOMAIN t = DOMAIN Blank
          /\ t.phase = "guarding" /\ t.text = RedactFirst(turn.text, u) /\ t.units = turn.units
      BY <1>1, <1>2, <1>4, <1>5
    <2>2. RedactFirst(turn.text, u) \in Seq(Token)
      BY <1>1, <1>3, <1>5, GuardAssumption, RedactedByToken DEF Token
    <2>3. ASSUME NEW v \in Units \ turn.units
          PROVE  Occurrences(RedactFirst(turn.text, u), v) = {}
      <3>1. v \in Seq(Token) /\ Len(v) > 0 /\ Occurrences(turn.text, v) = {}
        BY <1>1, UnitsTyped
      <3>2. \A j \in 1..Len(v) : Lower[v[j]] # Lower[Redaction]
        BY DEF MarkerUnsaid
      <3>3. Redaction \in Token
        BY GuardAssumption DEF Token
      <3> QED BY <1>1, <1>3, <1>5, <3>1, <3>2, <3>3, RedactionMakesNone
    <2> HIDE DEF t
    <2>4. Guarded(t)
      BY <1>1, <2>1, <2>2, <2>3 DEF Guarded, Guarding, LetOut
    <2> QED BY <2>4 DEF t
  <1>6. CASE Occurrences(turn.text, u) = {}
    <2> DEFINE t == turn'
    <2>1. /\ DOMAIN t = DOMAIN Blank
          /\ t.phase = "guarding" /\ t.text = turn.text /\ t.units = turn.units \ {u}
      BY <1>1, <1>2, <1>4, <1>6
    <2> HIDE DEF t
    <2>2. Guarded(t)
      BY <1>1, <1>6, <2>1 DEF Guarded, Guarding, LetOut
    <2> QED BY <2>2 DEF t
  <1> QED BY <1>5, <1>6

\* What is let out has no unit left to look for.
LEMMA FinishGuardGuarded ==
    ASSUME Guarded(turn), FinishGuard
    PROVE  Guarded(turn')
  <1> DEFINE t == turn'
  <1>1. /\ DOMAIN turn = DOMAIN Blank /\ turn.units = {}
        /\ \A v \in Units : Occurrences(turn.text, v) = {}
    BY DEF FinishGuard, Guarded, Guarding
  <1>2. "phase" \in DOMAIN Blank /\ "text" \in DOMAIN Blank
    BY DEF Blank
  <1>3. /\ DOMAIN t = DOMAIN Blank /\ t.text = turn.text
        /\ t.phase \in {"criticised", "sent"}
    BY <1>1, <1>2 DEF FinishGuard
  <1> HIDE DEF t
  <1>4. Guarded(t)
    BY <1>1, <1>3 DEF Guarded, Guarding, LetOut
  <1> QED BY <1>4 DEF t

\* Every other step of a turn takes it to a phase the guard has no part in.
LEMMA OtherStep ==
    ASSUME Guarded(turn),
           \/ \E message \in Messages : Load(message)
           \/ SkipRetrieval
           \/ ScoreSlice
           \/ ScoreFails
           \/ \E nears \in Queries : Retrieve(nears)
           \/ RetrieveFails
           \/ Order
           \/ OrderFails
           \/ BuildPrompt
           \/ SkipCuration
           \/ \E answer \in CuratorAnswers : Curate(answer)
           \/ CuratorFails
           \/ \E cacheUp, embedderUp \in BOOLEAN : Persist(cacheUp, embedderUp)
           \/ PersistFails
           \/ \E ok \in BOOLEAN : Index(ok)
    PROVE  Guarded(turn')
  <1> DEFINE t == turn'
  <1> SUFFICES DOMAIN t = DOMAIN Blank /\ t.phase \notin {"guarding", "criticised", "sent"}
    <2> HIDE DEF t
    <2>1. ASSUME DOMAIN t = DOMAIN Blank, t.phase \notin {"guarding", "criticised", "sent"}
          PROVE  Guarded(t)
      BY <2>1, Elsewhere
    <2> QED BY <2>1 DEF t
  <1>1. DOMAIN turn = DOMAIN Blank
    BY DEF Guarded
  <1>2. ASSUME NEW message \in Messages, Load(message)
        PROVE  DOMAIN t = DOMAIN Blank /\ t.phase = "loaded"
    BY <1>2 DEF Load, Blank
  <1>3. ASSUME NEW ranking
        PROVE  DOMAIN Ranked(ranking) = DOMAIN Blank /\ Ranked(ranking).phase = "ordered"
    BY <1>1 DEF Ranked, Blank
  <1>4. CASE SkipRetrieval
    BY <1>1, <1>4 DEF SkipRetrieval, Goto, Blank
  <1>5. CASE ScoreSlice
    BY <1>1, <1>5 DEF ScoreSlice, Blank
  <1>6. CASE ScoreFails
    BY <1>1, <1>6 DEF ScoreFails, Goto, Blank
  <1>7. ASSUME NEW nears \in Queries, Retrieve(nears)
        PROVE  DOMAIN t = DOMAIN Blank /\ t.phase = "retrieved"
    BY <1>1, <1>7 DEF Retrieve, Blank
  <1>8. CASE RetrieveFails
    <2>1. \/ t = Ranked(ApplySlice(Blank.ranking, turn.hits, setup.quota))
          \/ t = [turn EXCEPT !.phase = "ordered"]
      BY <1>8 DEF RetrieveFails, Goto
    <2> QED BY <1>1, <1>3, <2>1 DEF Blank
  <1>9. CASE Order
    <2>1. t = Ranked(ApplySlice(turn.ranking, turn.hits, setup.quota))
      BY <1>9 DEF Order
    <2> QED BY <1>3, <2>1
  <1>10. CASE OrderFails
    <2>1. t = [Ranked(turn.ranking) EXCEPT !.sliced = FALSE]
      BY <1>10 DEF OrderFails
    <2> QED BY <1>3, <2>1 DEF Blank
  <1>11. CASE BuildPrompt
    BY <1>1, <1>11 DEF BuildPrompt, Blank
  <1>12. CASE SkipCuration
    BY <1>12 DEF SkipCuration, Blank
  <1>13. ASSUME NEW answer \in CuratorAnswers, Curate(answer)
         PROVE  DOMAIN t = DOMAIN Blank /\ t.phase = "curated"
    BY <1>13 DEF Curate, Blank
  <1>14. CASE CuratorFails
    BY <1>14 DEF CuratorFails, Blank
  <1>15. ASSUME NEW cacheUp \in BOOLEAN, NEW embedderUp \in BOOLEAN, Persist(cacheUp, embedderUp)
         PROVE  DOMAIN t = DOMAIN Blank /\ t.phase = "stored"
    BY <1>1, <1>15 DEF Persist, Blank
  <1>16. CASE PersistFails
    <2>1. /\ turn.phase = "curated"
          /\ \/ t = [turn EXCEPT !.curated = <<>>, !.fallback = TRUE,
                                !.batch = ExplicitEvents(turn.message)]
             \/ t = Blank
      BY <1>16 DEF PersistFails
    <2>2. Blank.phase = "idle"
      BY DEF Blank
    <2>3. "phase" \in DOMAIN Blank
      BY DEF Blank
    <2>4. ASSUME t = [turn EXCEPT !.curated = <<>>, !.fallback = TRUE,
                                  !.batch = ExplicitEvents(turn.message)]
          PROVE  DOMAIN t = DOMAIN Blank /\ t.phase = "curated"
      BY <1>1, <2>1, <2>3, <2>4
    <2> HIDE DEF t
    <2> QED BY <2>1, <2>2, <2>4
  <1>17. ASSUME NEW ok \in BOOLEAN, Index(ok)
         PROVE  DOMAIN t = DOMAIN Blank /\ t.phase = "idle"
    BY <1>17 DEF Index, Blank
  <1> QED BY <1>2, <1>4, <1>5, <1>6, <1>7, <1>8, <1>9, <1>10, <1>11, <1>12, <1>13, <1>14,
             <1>15, <1>16, <1>17

\* An edit from outside leaves the turn as it is.
LEMMA EditStep ==
    ASSUME \/ \E t \in CanonTexts : Pin(t)
           \/ \E i \in DOMAIN pinned : Unpin(i)
           \/ \E m \in memories, ok \in BOOLEAN : Retire(m, ok)
           \/ \E m \in memories, ok \in BOOLEAN : Forget(m, ok)
    PROVE  turn' = turn
  BY DEF Pin, Unpin, Retire, Forget, Edit

LEMMA InitInv == Init => Inv
  <1> SUFFICES ASSUME Init PROVE Guarded(turn)
    BY DEF Inv
  <1>1. DOMAIN turn = DOMAIN Blank /\ turn.phase = "idle"
    BY DEF Init, Blank
  <1> QED BY <1>1, Elsewhere

LEMMA NextInv ==
    ASSUME MarkerUnsaid, Inv, [Next]_vars
    PROVE  Inv'
  <1>1. Guarded(turn)
    BY DEF Inv
  <1> SUFFICES Guarded(turn')
    BY DEF Inv
  <1>2. ASSUME NEW role \in {"actor", "critic"}, NEW text \in Speech, Speak(role, text)
        PROVE  Guarded(turn')
    BY <1>2, SpeakGuarded
  <1>3. CASE RedactNext
    BY <1>1, <1>3, RedactNextGuarded
  <1>4. CASE FinishGuard
    BY <1>1, <1>4, FinishGuardGuarded
  <1>5. CASE \/ \E t \in CanonTexts : Pin(t)
             \/ \E i \in DOMAIN pinned : Unpin(i)
             \/ \E m \in memories, ok \in BOOLEAN : Retire(m, ok)
             \/ \E m \in memories, ok \in BOOLEAN : Forget(m, ok)
    <2>1. turn' = turn
      BY <1>5, EditStep
    <2> QED BY <1>1, <2>1
  <1>6. CASE UNCHANGED vars
    <2>1. turn' = turn
      BY <1>6 DEF vars
    <2> QED BY <1>1, <2>1
  <1> QED BY <1>1, <1>2, <1>3, <1>4, <1>5, <1>6, OtherStep DEF Next

\* The guard's invariant, for every set of hidden facts that do not hold the marker,
\* every text the actor and the critic may write, and every order of the units.
THEOREM Invariance ==
    ASSUME MarkerUnsaid
    PROVE  Spec => []Inv
  <1>1. Init => Inv
    BY InitInv
  <1>2. Inv /\ [Next]_vars => Inv'
    BY NextInv
  <1> QED BY <1>1, <1>2, PTL DEF Spec

\* What leaves the guard holds no matchable unit of a hidden fact, case aside, however
\* the redactions of one unit change the text the others are looked for in.
\* (_redact_one, scan_reply)
THEOREM Containment ==
    ASSUME MarkerUnsaid
    PROVE  Spec => []Contained
  <1>1. Inv => Contained
    BY DEF Inv, Guarded, LetOut, Contained, Units
  <1> QED BY <1>1, Invariance, PTL

-----------------------------------------------------------------------------
(* What the recall is built from: sets listed by an order, and walks. *)

\* An induction: what holds of 0 and of n with n - 1 holds up to N.
LEMMA UpTo ==
    ASSUME NEW N \in Nat, NEW P, 0 \in P, \A n \in 1..N : n - 1 \in P => n \in P
    PROVE  0..N \subseteq P
  <1> DEFINE Bad == {n \in 0..N : n \notin P}
  <1>1. SUFFICES ASSUME Bad # {} PROVE FALSE
    OBVIOUS
  <1>2. Bad \in SUBSET Nat
    OBVIOUS
  <1>3. Min(Bad) \in Bad /\ \A n \in Bad : Min(Bad) <= n
    <2> HIDE DEF Bad
    <2> QED BY <1>1, <1>2, LeastExists
  <1> DEFINE k == Min(Bad)
  <1> HIDE DEF k
  <1>4. k \in 0..N /\ k \notin P
    BY <1>3 DEF k
  <1>5. k # 0
    BY <1>4
  <1>6. k \in 1..N /\ k - 1 \in 0..N /\ ~(k <= k - 1)
    BY <1>4, <1>5
  <1>7. k - 1 \in Bad
    BY <1>4, <1>6
  <1> HIDE DEF Bad
  <1> QED BY <1>3, <1>6, <1>7 DEF k

Below(S, R, x) == {y \in S : <<y, x>> \in R}

StrictOrder(S, R) ==
    /\ \A x \in S : <<x, x>> \notin R
    /\ \A x, y, z \in S : <<x, y>> \in R /\ <<y, z>> \in R => <<x, z>> \in R
    /\ \A x, y \in S : x # y => <<x, y>> \in R \/ <<y, x>> \in R

\* s lists S in the order R, each element once.
Lists(s, S, R) ==
    /\ s \in Seq(S) /\ Len(s) = Cardinality(S) /\ DOMAIN s = 1..Cardinality(S)
    /\ \A i \in 1..Cardinality(S) : s[i] \in S
    /\ \A x \in S : \E i \in 1..Cardinality(S) : s[i] = x
    /\ \A i, j \in 1..Cardinality(S) : i < j => <<s[i], s[j]>> \in R
    /\ \A i, j \in 1..Cardinality(S) : s[i] = s[j] => i = j

LEMMA RanksGrow ==
    ASSUME NEW S, IsFiniteSet(S), NEW R, StrictOrder(S, R)
    PROVE  /\ \A x \in S : /\ Cardinality(Below(S, R, x)) \in Nat
                           /\ Cardinality(Below(S, R, x)) < Cardinality(S)
           /\ \A x, y \in S : <<x, y>> \in R =>
                 Cardinality(Below(S, R, x)) < Cardinality(Below(S, R, y))
           /\ \A x, y \in S :
                 Cardinality(Below(S, R, x)) = Cardinality(Below(S, R, y)) => x = y
  <1>1. Cardinality(S) \in Nat
    BY FS_CardinalityType
  <1>2. ASSUME NEW x \in S
        PROVE  /\ IsFiniteSet(Below(S, R, x)) /\ Cardinality(Below(S, R, x)) \in Nat
               /\ Cardinality(Below(S, R, x)) < Cardinality(S)
    <2>1. Below(S, R, x) \in SUBSET S /\ x \notin Below(S, R, x)
      BY DEF Below, StrictOrder
    <2>2. /\ IsFiniteSet(Below(S, R, x))
          /\ Cardinality(Below(S, R, x)) <= Cardinality(S)
          /\ Cardinality(S) = Cardinality(Below(S, R, x)) => S = Below(S, R, x)
      BY <2>1, FS_Subset
    <2>3. Cardinality(Below(S, R, x)) \in Nat
      BY <2>2, FS_CardinalityType
    <2>4. S # Below(S, R, x)
      BY <2>1
    <2> QED BY <1>1, <2>2, <2>3, <2>4
  <1>3. ASSUME NEW x \in S, NEW y \in S, <<x, y>> \in R
        PROVE  Cardinality(Below(S, R, x)) < Cardinality(Below(S, R, y))
    <2>1. Below(S, R, x) \in SUBSET Below(S, R, y)
      BY <1>3 DEF Below, StrictOrder
    <2>2. x \in Below(S, R, y) /\ x \notin Below(S, R, x)
      BY <1>3 DEF Below, StrictOrder
    <2>3. IsFiniteSet(Below(S, R, y))
      BY <1>2
    <2>4. /\ Cardinality(Below(S, R, x)) <= Cardinality(Below(S, R, y))
          /\ Cardinality(Below(S, R, y)) = Cardinality(Below(S, R, x))
                => Below(S, R, y) = Below(S, R, x)
      BY <2>1, <2>3, FS_Subset
    <2>5. Below(S, R, y) # Below(S, R, x)
      BY <2>2
    <2>6. Cardinality(Below(S, R, x)) \in Nat /\ Cardinality(Below(S, R, y)) \in Nat
      BY <1>2
    <2> QED BY <2>4, <2>5, <2>6
  <1>4. ASSUME NEW x \in S, NEW y \in S,
               Cardinality(Below(S, R, x)) = Cardinality(Below(S, R, y)), x # y
        PROVE  FALSE
    <2>1. <<x, y>> \in R \/ <<y, x>> \in R
      BY <1>4 DEF StrictOrder
    <2>2. Cardinality(Below(S, R, x)) \in Nat /\ Cardinality(Below(S, R, y)) \in Nat
      BY <1>2
    <2>3. \/ Cardinality(Below(S, R, x)) < Cardinality(Below(S, R, y))
          \/ Cardinality(Below(S, R, y)) < Cardinality(Below(S, R, x))
      BY <1>3, <2>1
    <2> QED BY <1>4, <2>2, <2>3
  <1> QED BY <1>2, <1>3, <1>4

\* Every rank is taken: as many ranks as elements, and no two elements on one.
LEMMA RanksTaken ==
    ASSUME NEW S, IsFiniteSet(S), NEW R, StrictOrder(S, R), NEW i \in 1..Cardinality(S)
    PROVE  \E x \in S : Cardinality(Below(S, R, x)) = i - 1
  <1> DEFINE n == Cardinality(S)
             rank == [x \in S |-> Cardinality(Below(S, R, x))]
             free == (0..(n - 1)) \ {i - 1}
  <1>1. n \in Nat
    BY FS_CardinalityType
  <1>2. SUFFICES ASSUME \A x \in S : Cardinality(Below(S, R, x)) # i - 1
                 PROVE  FALSE
    OBVIOUS
  <1>3. /\ \A x \in S : Cardinality(Below(S, R, x)) \in Nat /\ Cardinality(Below(S, R, x)) < n
        /\ \A x, y \in S :
              Cardinality(Below(S, R, x)) = Cardinality(Below(S, R, y)) => x = y
    BY RanksGrow
  <1>4. rank \in [S -> free]
    BY <1>1, <1>2, <1>3
  <1>5. IsFiniteSet(free) /\ Cardinality(free) = n - 1
    <2>1. IsFiniteSet(0..(n - 1)) /\ Cardinality(0..(n - 1)) = n
      <3>1. 0 \in Int /\ n - 1 \in Int
        BY <1>1
      <3>2. /\ IsFiniteSet(0..(n - 1))
            /\ Cardinality(0..(n - 1)) = IF 0 > n - 1 THEN 0 ELSE (n - 1) - 0 + 1
        BY <3>1, FS_Interval
      <3> HIDE DEF n
      <3> QED BY <1>1, <3>2
    <2>2. i - 1 \in 0..(n - 1)
      BY <1>1
    <2> HIDE DEF n
    <2> QED BY <2>1, <2>2, FS_RemoveElement
  <1>6. Cardinality(free) < Cardinality(S)
    BY <1>1, <1>5
  <1> HIDE DEF rank, free
  <1>7. PICK x, y \in S : x # y /\ rank[x] = rank[y]
    BY <1>4, <1>5, <1>6, FS_PigeonHole
  <1> QED BY <1>3, <1>7 DEF rank

\* Listed by rank, a set is listed in order.
LEMMA ListedByRank ==
    ASSUME NEW S, IsFiniteSet(S), NEW R, StrictOrder(S, R), NEW s,
           s = [i \in 1..Cardinality(S) |-> s[i]],
           \A i \in 1..Cardinality(S) : s[i] \in S /\ Cardinality(Below(S, R, s[i])) = i - 1
    PROVE  Lists(s, S, R)
  <1> DEFINE n == Cardinality(S)
  <1>1. n \in Nat
    BY FS_CardinalityType
  <1>2. /\ \A x \in S : Cardinality(Below(S, R, x)) \in Nat /\ Cardinality(Below(S, R, x)) < n
        /\ \A x, y \in S : <<x, y>> \in R =>
              Cardinality(Below(S, R, x)) < Cardinality(Below(S, R, y))
        /\ \A x, y \in S :
              Cardinality(Below(S, R, x)) = Cardinality(Below(S, R, y)) => x = y
    BY RanksGrow
  <1>3. DOMAIN s = 1..n /\ s \in [1..n -> S]
    OBVIOUS
  <1>4. s \in Seq(S) /\ Len(s) = n
    BY <1>1, <1>3, SeqDef, LenProperties
  <1>5. ASSUME NEW x \in S
        PROVE  \E i \in 1..n : s[i] = x
    <2> DEFINE i == Cardinality(Below(S, R, x)) + 1
    <2>1. i \in 1..n /\ i - 1 = Cardinality(Below(S, R, x))
      BY <1>1, <1>2
    <2>2. s[i] \in S /\ Cardinality(Below(S, R, s[i])) = Cardinality(Below(S, R, x))
      BY <2>1
    <2> QED BY <1>2, <2>1, <2>2
  <1>6. ASSUME NEW i \in 1..n, NEW j \in 1..n, i < j
        PROVE  <<s[i], s[j]>> \in R
    <2>1. /\ s[i] \in S /\ s[j] \in S
          /\ Cardinality(Below(S, R, s[i])) = i - 1 /\ Cardinality(Below(S, R, s[j])) = j - 1
      OBVIOUS
    <2>2. s[i] # s[j]
      BY <1>6, <2>1
    <2>3. <<s[j], s[i]>> \notin R
      BY <1>2, <1>6, <2>1
    <2> QED BY <2>1, <2>2, <2>3 DEF StrictOrder
  <1>7. \A i, j \in 1..n : s[i] = s[j] => i = j
    <2>1. SUFFICES ASSUME NEW i \in 1..n, NEW j \in 1..n, s[i] = s[j]
                   PROVE  i = j
      OBVIOUS
    <2>2. Cardinality(Below(S, R, s[i])) = i - 1 /\ Cardinality(Below(S, R, s[j])) = j - 1
      OBVIOUS
    <2>3. i - 1 = j - 1
      BY <2>1, <2>2
    <2> QED BY <2>3
  <1> QED BY <1>3, <1>4, <1>5, <1>6, <1>7 DEF Lists

Earlier(I) == {p \in I \X I : p[1] < p[2]}

LEMMA EarlierOrders ==
    ASSUME NEW I \in SUBSET Int
    PROVE  StrictOrder(I, Earlier(I))
  <1>1. \A i, j \in I : <<i, j>> \in Earlier(I) <=> i < j
    BY DEF Earlier
  <1>2. \A i \in I : i \in Int
    OBVIOUS
  <1>3. \A i \in I : ~(i < i)
    BY <1>2
  <1>4. \A i, j, k \in I : i < j /\ j < k => i < k
    BY <1>2
  <1>5. \A i, j \in I : i # j => i < j \/ j < i
    BY <1>2
  <1> QED BY <1>1, <1>3, <1>4, <1>5 DEF StrictOrder

LEMMA NumbersListed ==
    ASSUME NEW I \in SUBSET Int, IsFiniteSet(I)
    PROVE  Lists(Ordered(I, LAMBDA i, j : i < j), I, Earlier(I))
  <1> DEFINE ranked(i) == CHOOSE x \in I : Cardinality({y \in I : y < x}) = i - 1
             s == [i \in 1..Cardinality(I) |-> ranked(i)]
  <1>1. StrictOrder(I, Earlier(I))
    BY EarlierOrders
  <1>2. \A x \in I : {y \in I : y < x} = Below(I, Earlier(I), x)
    BY DEF Below, Earlier
  <1>3. s = Ordered(I, LAMBDA i, j : i < j)
    BY DEF Ordered
  <1>4. ASSUME NEW i \in 1..Cardinality(I)
        PROVE  s[i] \in I /\ Cardinality(Below(I, Earlier(I), s[i])) = i - 1
    <2>1. \E x \in I : Cardinality(Below(I, Earlier(I), x)) = i - 1
      BY <1>1, RanksTaken
    <2>2. \E x \in I : Cardinality({y \in I : y < x}) = i - 1
      BY <1>2, <2>1
    <2>3. ranked(i) \in I /\ Cardinality({y \in I : y < ranked(i)}) = i - 1
      BY <2>2
    <2> HIDE DEF ranked
    <2>4. s[i] = ranked(i)
      OBVIOUS
    <2> HIDE DEF s
    <2> QED BY <1>2, <2>3, <2>4
  <1> HIDE DEF ranked
  <1>5. s = [i \in 1..Cardinality(I) |-> s[i]]
    OBVIOUS
  <1> HIDE DEF s
  <1>6. Lists(s, I, Earlier(I))
    BY <1>1, <1>4, <1>5, ListedByRank
  <1> QED BY <1>3, <1>6

\* The elements of s at the indices I, in the order of s.
LEMMA AtListed ==
    ASSUME NEW T, NEW s \in Seq(T), NEW I \in SUBSET DOMAIN s
    PROVE  \E order : /\ Lists(order, I, Earlier(I))
                      /\ At(s, I) = [k \in 1..Cardinality(I) |-> s[order[k]]]
                      /\ At(s, I) \in Seq(T)
                      /\ Cardinality(I) \in Nat /\ Len(At(s, I)) = Cardinality(I)
                      /\ DOMAIN At(s, I) = 1..Cardinality(I)
  <1> DEFINE order == Ordered(I, LAMBDA i, j : i < j)
             at == [k \in 1..Cardinality(I) |-> s[order[k]]]
  <1>1. DOMAIN s = 1..Len(s) /\ Len(s) \in Nat /\ \A i \in 1..Len(s) : s[i] \in T
    BY LenProperties, ElementOfSeq
  <1>2. I \in SUBSET Int /\ IsFiniteSet(I)
    <2>1. IsFiniteSet(1..Len(s))
      BY <1>1, FS_Interval
    <2> QED BY <1>1, <2>1, FS_Subset
  <1>3. Cardinality(I) \in Nat
    BY <1>2, FS_CardinalityType
  <1>4. Lists(order, I, Earlier(I))
    BY <1>2, NumbersListed
  <1>5. At(s, I) = at
    <2>1. DOMAIN order = 1..Cardinality(I)
      BY <1>4 DEF Lists
    <2>2. At(s, I) = [k \in DOMAIN order |-> s[order[k]]]
      BY DEF At
    <2> HIDE DEF order
    <2> QED BY <2>1, <2>2
  <1> HIDE DEF order
  <1>6. \A k \in 1..Cardinality(I) : s[order[k]] \in T
    BY <1>1, <1>4 DEF Lists
  <1>7. at \in Seq(T) /\ Len(at) = Cardinality(I) /\ DOMAIN at = 1..Cardinality(I)
    <2>1. at \in [1..Cardinality(I) -> T]
      BY <1>6
    <2> HIDE DEF at
    <2> QED BY <1>3, <2>1, SeqDef, LenProperties
  <1> HIDE DEF at
  <1>8. QED
    BY <1>3, <1>4, <1>5, <1>7 DEF at

\* A finite set of numbers has a greatest.
LEMMA GreatestExists ==
    ASSUME NEW S \in SUBSET Int, IsFiniteSet(S), S # {}
    PROVE  Max(S) \in S /\ \A y \in S : Max(S) >= y
  <1> DEFINE n == Cardinality(S)
             s == Ordered(S, LAMBDA i, j : i < j)
  <1>1. Lists(s, S, Earlier(S))
    BY NumbersListed
  <1>2. n \in Nat /\ n # 0
    BY FS_CardinalityType, FS_EmptySet
  <1> HIDE DEF s
  <1>3. n \in 1..n /\ s[n] \in S
    BY <1>1, <1>2 DEF Lists
  <1>4. ASSUME NEW y \in S
        PROVE  s[n] >= y
    <2>1. PICK i \in 1..n : s[i] = y
      BY <1>1 DEF Lists
    <2>2. i < n => <<s[i], s[n]>> \in Earlier(S)
      BY <1>1, <1>3 DEF Lists
    <2>3. i < n => s[i] < s[n]
      BY <2>2 DEF Earlier
    <2>4. y \in Int /\ s[n] \in Int
      BY <1>3
    <2> HIDE DEF n
    <2>5. i = n \/ i < n
      BY <1>2, <2>1
    <2> QED BY <2>1, <2>3, <2>4, <2>5
  <1> HIDE DEF n
  <1>5. \E x \in S : \A y \in S : x >= y
    BY <1>3, <1>4
  <1> QED BY <1>5 DEF Max

LEMMA GreaterOfTwo ==
    ASSUME NEW a \in Int, NEW b \in Int
    PROVE  /\ Max({a, b}) \in {a, b} /\ Max({a, b}) >= a /\ Max({a, b}) >= b
           /\ Max({a, b}) \in Int
  <1>1. {a, b} \in SUBSET Int /\ {a, b} # {} /\ IsFiniteSet({a, b})
    <2>1. IsFiniteSet({a}) /\ {a, b} = {a} \cup {b}
      BY FS_Singleton
    <2> QED BY <2>1, FS_AddElement
  <1> QED BY <1>1, GreatestExists

LEMMA LesserOfTwo ==
    ASSUME NEW a \in Nat, NEW b \in Nat
    PROVE  Min({a, b}) = IF a <= b THEN a ELSE b
  <1>1. {a, b} \in SUBSET Nat /\ {a, b} # {}
    OBVIOUS
  <1>2. Min({a, b}) \in {a, b} /\ \A y \in {a, b} : Min({a, b}) <= y
    BY <1>1, LeastExists
  <1> QED BY <1>2

\* A walk: from start, one step for each of N elements.
Steps(N, X) == [1..N -> [X -> X]]
Walk(f, start, step, N, X) ==
    f \in [0..N -> X] /\ f[0] = start /\ \A n \in 1..N : f[n] = step[n][f[n - 1]]

LEMMA WalkExists ==
    ASSUME NEW X, NEW start \in X, NEW N \in Nat, NEW step \in Steps(N, X)
    PROVE  \E f : Walk(f, start, step, N, X)
  <1> DEFINE Walks(k, f) == f[0] = start /\ \A n \in 1..k : f[n] = step[n][f[n - 1]]
             Good == {k \in 0..N : \E f \in [0..k -> X] : Walks(k, f)}
  <1> USE DEF Steps
  <1>1. 0 \in Good
    <2>1. [n \in 0..0 |-> start] \in [0..0 -> X] /\ Walks(0, [n \in 0..0 |-> start])
      OBVIOUS
    <2> HIDE DEF Walks
    <2> QED BY <2>1
  <1>2. ASSUME NEW k \in 1..N, k - 1 \in Good
        PROVE  k \in Good
    <2>1. PICK f \in [0..(k - 1) -> X] : Walks(k - 1, f)
      BY <1>2
    <2> DEFINE g == [n \in 0..k |-> IF n = k THEN step[k][f[k - 1]] ELSE f[n]]
    <2>2. k - 1 \in 0..(k - 1) /\ f[k - 1] \in X /\ step[k] \in [X -> X]
      BY <1>2
    <2>3. g \in [0..k -> X]
      <3>1. step[k][f[k - 1]] \in X
        BY <2>2
      <3>2. \A n \in 0..k : n # k => n \in 0..(k - 1)
        BY <1>2
      <3> QED BY <3>1, <3>2
    <2>4. g[0] = start
      <3>1. 0 \in 0..k /\ 0 # k
        BY <1>2
      <3> QED BY <2>1, <3>1
    <2>5. ASSUME NEW n \in 1..k
          PROVE  g[n] = step[n][g[n - 1]]
      <3>1. n - 1 \in 0..k /\ n - 1 # k /\ n \in 0..k
        BY <1>2
      <3>2. g[n - 1] = f[n - 1]
        BY <3>1
      <3>3. CASE n = k
        BY <3>1, <3>2, <3>3
      <3>4. CASE n # k
        <4>1. n \in 1..(k - 1)
          BY <1>2, <3>4
        <4>2. f[n] = step[n][f[n - 1]]
          BY <2>1, <4>1
        <4> QED BY <3>1, <3>2, <3>4, <4>2
      <3> QED BY <3>3, <3>4
    <2> HIDE DEF g
    <2>6. Walks(k, g)
      BY <2>4, <2>5
    <2> HIDE DEF Walks
    <2> QED BY <1>2, <2>3, <2>6
  <1>3. 0..N \subseteq Good
    <2> HIDE DEF Good
    <2> QED BY <1>1, <1>2, UpTo
  <1>4. N \in Good
    BY <1>3
  <1> QED BY <1>4 DEF Walk

FactsAdmitted(f, texts) ==
    f[0] = <<>> /\ \A n \in 1..Len(texts) : f[n] = AdmitFact(f[n - 1], texts[n])

LEMMA AdmitWalk ==
    ASSUME NEW T, NEW texts \in Seq(T)
    PROVE  \E f \in [0..Len(texts) -> Seq(T)] :
              FactsAdmitted(f, texts) /\ AdmitFacts(texts) = f[Len(texts)]
  <1> DEFINE N == Len(texts)
             X == Seq(T)
             step == [n \in 1..N |-> [x \in X |-> AdmitFact(x, texts[n])]]
             Rec(f) == f = [n \in 0..N |-> IF n = 0 THEN <<>> ELSE AdmitFact(f[n - 1], texts[n])]
  <1>1. N \in Nat /\ \A n \in 1..N : texts[n] \in T
    BY LenProperties, ElementOfSeq
  <1>2. <<>> \in X
    OBVIOUS
  <1>3. ASSUME NEW n \in 1..N, NEW x \in X
        PROVE  AdmitFact(x, texts[n]) \in X
    <2>1. texts[n] \in T
      BY <1>1
    <2>2. Append(x, texts[n]) \in X
      BY <2>1, AppendProperties
    <2> QED BY <2>2 DEF AdmitFact
  <1> HIDE DEF N, X
  <1>4. step \in Steps(N, X)
    BY <1>3 DEF Steps
  <1>5. PICK g \in [0..N -> X] : g[0] = <<>> /\ \A n \in 1..N : g[n] = step[n][g[n - 1]]
    <2> DEFINE start == <<>>
    <2>1. start \in X
      BY <1>2
    <2> HIDE DEF step, start
    <2>2. \E g : Walk(g, start, step, N, X)
      BY <1>1, <1>4, <2>1, WalkExists
    <2> QED BY <2>2 DEF Walk, start
  <1>6. ASSUME NEW n \in 1..N
        PROVE  g[n] = AdmitFact(g[n - 1], texts[n])
    <2>1. n - 1 \in 0..N
      BY <1>1
    <2>2. g[n - 1] \in X
      BY <2>1
    <2> QED BY <1>5, <2>2
  <1>7. Rec(g)
    <2>1. g = [n \in 0..N |-> g[n]]
      OBVIOUS
    <2>2. \A n \in 0..N : g[n] = IF n = 0 THEN <<>> ELSE AdmitFact(g[n - 1], texts[n])
      <3>1. \A n \in 0..N : n # 0 => n \in 1..N
        BY <1>1
      <3> QED BY <1>5, <1>6, <3>1
    <2> QED BY <2>1, <2>2
  <1> DEFINE f == CHOOSE f : Rec(f)
  <1>8. Rec(f)
    <2> HIDE DEF Rec
    <2> QED BY <1>7
  <1>9. AdmitFacts(texts) = f[N]
    BY DEF AdmitFacts, N
  <1> HIDE DEF f
  <1>10. FactsAdmitted(f, texts)
    BY <1>1, <1>8 DEF FactsAdmitted, N
  <1>11. f \in [0..N -> X]
    <2> DEFINE P == {n \in 0..N : f[n] \in X}
    <2>1. 0 \in P
      BY <1>1, <1>2, <1>10 DEF FactsAdmitted
    <2>2. ASSUME NEW n \in 1..N, n - 1 \in P
          PROVE  n \in P
      <3>1. f[n - 1] \in X
        BY <2>2
      <3>2. f[n] = AdmitFact(f[n - 1], texts[n])
        BY <1>10 DEF FactsAdmitted, N
      <3>3. n \in 0..N
        BY <1>1
      <3> QED BY <1>3, <3>1, <3>2, <3>3
    <2>3. 0..N \subseteq P
      <3> HIDE DEF P
      <3> QED BY <1>1, <2>1, <2>2, UpTo
    <2> QED BY <1>8, <2>3
  <1> QED BY <1>9, <1>10, <1>11 DEF N, X

ChunksTaken(f, selected, standing) ==
    f[0] = <<>> /\ \A n \in 1..Len(selected) : f[n] = TakeChunk(standing, f[n - 1], selected[n])

LEMMA TakeWalk ==
    ASSUME NEW T, NEW selected \in Seq(T), NEW standing
    PROVE  \E f \in [0..Len(selected) -> Seq(T)] :
              ChunksTaken(f, selected, standing) /\ PromptChunks(selected, standing) = f[Len(selected)]
  <1> DEFINE N == Len(selected)
             X == Seq(T)
             step == [n \in 1..N |-> [x \in X |-> TakeChunk(standing, x, selected[n])]]
             Rec(f) == f = [n \in 0..N |-> IF n = 0 THEN <<>> ELSE TakeChunk(standing, f[n - 1], selected[n])]
  <1>1. N \in Nat /\ \A n \in 1..N : selected[n] \in T
    BY LenProperties, ElementOfSeq
  <1>2. <<>> \in X
    OBVIOUS
  <1>3. ASSUME NEW n \in 1..N, NEW x \in X
        PROVE  TakeChunk(standing, x, selected[n]) \in X
    <2>1. selected[n] \in T
      BY <1>1
    <2>2. Append(x, selected[n]) \in X
      BY <2>1, AppendProperties
    <2> QED BY <2>2 DEF TakeChunk
  <1> HIDE DEF N, X
  <1>4. step \in Steps(N, X)
    BY <1>3 DEF Steps
  <1>5. PICK g \in [0..N -> X] : g[0] = <<>> /\ \A n \in 1..N : g[n] = step[n][g[n - 1]]
    <2> DEFINE start == <<>>
    <2>1. start \in X
      BY <1>2
    <2> HIDE DEF step, start
    <2>2. \E g : Walk(g, start, step, N, X)
      BY <1>1, <1>4, <2>1, WalkExists
    <2> QED BY <2>2 DEF Walk, start
  <1>6. ASSUME NEW n \in 1..N
        PROVE  g[n] = TakeChunk(standing, g[n - 1], selected[n])
    <2>1. n - 1 \in 0..N
      BY <1>1
    <2>2. g[n - 1] \in X
      BY <2>1
    <2> QED BY <1>5, <2>2
  <1>7. Rec(g)
    <2>1. g = [n \in 0..N |-> g[n]]
      OBVIOUS
    <2>2. \A n \in 0..N : g[n] = IF n = 0 THEN <<>> ELSE TakeChunk(standing, g[n - 1], selected[n])
      <3>1. \A n \in 0..N : n # 0 => n \in 1..N
        BY <1>1
      <3> QED BY <1>5, <1>6, <3>1
    <2> QED BY <2>1, <2>2
  <1> DEFINE f == CHOOSE f : Rec(f)
  <1>8. Rec(f)
    <2> HIDE DEF Rec
    <2> QED BY <1>7
  <1>9. PromptChunks(selected, standing) = f[N]
    BY DEF PromptChunks, N
  <1> HIDE DEF f
  <1>10. ChunksTaken(f, selected, standing)
    BY <1>1, <1>8 DEF ChunksTaken, N
  <1>11. f \in [0..N -> X]
    <2> DEFINE P == {n \in 0..N : f[n] \in X}
    <2>1. 0 \in P
      BY <1>1, <1>2, <1>10 DEF ChunksTaken
    <2>2. ASSUME NEW n \in 1..N, n - 1 \in P
          PROVE  n \in P
      <3>1. f[n - 1] \in X
        BY <2>2
      <3>2. f[n] = TakeChunk(standing, f[n - 1], selected[n])
        BY <1>10 DEF ChunksTaken, N
      <3>3. n \in 0..N
        BY <1>1
      <3> QED BY <1>3, <3>1, <3>2, <3>3
    <2>3. 0..N \subseteq P
      <3> HIDE DEF P
      <3> QED BY <1>1, <2>1, <2>2, UpTo
    <2> QED BY <1>8, <2>3
  <1> QED BY <1>9, <1>10, <1>11 DEF N, X

CoveredDropped(f, candidates, existing) ==
    f[0] = <<>> /\ \A n \in 1..Len(candidates) : f[n] = KeepUncovered(existing, f[n - 1], candidates[n])

LEMMA CoverWalk ==
    ASSUME NEW T, NEW candidates \in Seq(T), NEW existing
    PROVE  \E f \in [0..Len(candidates) -> Seq(T)] :
              CoveredDropped(f, candidates, existing) /\ DropCovered(candidates, existing) = f[Len(candidates)]
  <1> DEFINE N == Len(candidates)
             X == Seq(T)
             step == [n \in 1..N |-> [x \in X |-> KeepUncovered(existing, x, candidates[n])]]
             Rec(f) == f = [n \in 0..N |-> IF n = 0 THEN <<>> ELSE KeepUncovered(existing, f[n - 1], candidates[n])]
  <1>1. N \in Nat /\ \A n \in 1..N : candidates[n] \in T
    BY LenProperties, ElementOfSeq
  <1>2. <<>> \in X
    OBVIOUS
  <1>3. ASSUME NEW n \in 1..N, NEW x \in X
        PROVE  KeepUncovered(existing, x, candidates[n]) \in X
    <2>1. candidates[n] \in T
      BY <1>1
    <2>2. Append(x, candidates[n]) \in X
      BY <2>1, AppendProperties
    <2> QED BY <2>2 DEF KeepUncovered
  <1> HIDE DEF N, X
  <1>4. step \in Steps(N, X)
    BY <1>3 DEF Steps
  <1>5. PICK g \in [0..N -> X] : g[0] = <<>> /\ \A n \in 1..N : g[n] = step[n][g[n - 1]]
    <2> DEFINE start == <<>>
    <2>1. start \in X
      BY <1>2
    <2> HIDE DEF step, start
    <2>2. \E g : Walk(g, start, step, N, X)
      BY <1>1, <1>4, <2>1, WalkExists
    <2> QED BY <2>2 DEF Walk, start
  <1>6. ASSUME NEW n \in 1..N
        PROVE  g[n] = KeepUncovered(existing, g[n - 1], candidates[n])
    <2>1. n - 1 \in 0..N
      BY <1>1
    <2>2. g[n - 1] \in X
      BY <2>1
    <2> QED BY <1>5, <2>2
  <1>7. Rec(g)
    <2>1. g = [n \in 0..N |-> g[n]]
      OBVIOUS
    <2>2. \A n \in 0..N : g[n] = IF n = 0 THEN <<>> ELSE KeepUncovered(existing, g[n - 1], candidates[n])
      <3>1. \A n \in 0..N : n # 0 => n \in 1..N
        BY <1>1
      <3> QED BY <1>5, <1>6, <3>1
    <2> QED BY <2>1, <2>2
  <1> DEFINE f == CHOOSE f : Rec(f)
  <1>8. Rec(f)
    <2> HIDE DEF Rec
    <2> QED BY <1>7
  <1>9. DropCovered(candidates, existing) = f[N]
    BY DEF DropCovered, N
  <1> HIDE DEF f
  <1>10. CoveredDropped(f, candidates, existing)
    BY <1>1, <1>8 DEF CoveredDropped, N
  <1>11. f \in [0..N -> X]
    <2> DEFINE P == {n \in 0..N : f[n] \in X}
    <2>1. 0 \in P
      BY <1>1, <1>2, <1>10 DEF CoveredDropped
    <2>2. ASSUME NEW n \in 1..N, n - 1 \in P
          PROVE  n \in P
      <3>1. f[n - 1] \in X
        BY <2>2
      <3>2. f[n] = KeepUncovered(existing, f[n - 1], candidates[n])
        BY <1>10 DEF CoveredDropped, N
      <3>3. n \in 0..N
        BY <1>1
      <3> QED BY <1>3, <3>1, <3>2, <3>3
    <2>3. 0..N \subseteq P
      <3> HIDE DEF P
      <3> QED BY <1>1, <2>1, <2>2, UpTo
    <2> QED BY <1>8, <2>3
  <1> QED BY <1>9, <1>10, <1>11 DEF N, X

AlikeDropped(f, candidates, existing) ==
    f[0] = <<>> /\ \A n \in 1..Len(candidates) : f[n] = KeepUnlike(existing, f[n - 1], candidates[n])

LEMMA AlikeWalk ==
    ASSUME NEW T, NEW candidates \in Seq(T), NEW existing
    PROVE  \E f \in [0..Len(candidates) -> Seq(T)] :
              AlikeDropped(f, candidates, existing) /\ DropAlike(candidates, existing) = f[Len(candidates)]
  <1> DEFINE N == Len(candidates)
             X == Seq(T)
             step == [n \in 1..N |-> [x \in X |-> KeepUnlike(existing, x, candidates[n])]]
             Rec(f) == f = [n \in 0..N |-> IF n = 0 THEN <<>> ELSE KeepUnlike(existing, f[n - 1], candidates[n])]
  <1>1. N \in Nat /\ \A n \in 1..N : candidates[n] \in T
    BY LenProperties, ElementOfSeq
  <1>2. <<>> \in X
    OBVIOUS
  <1>3. ASSUME NEW n \in 1..N, NEW x \in X
        PROVE  KeepUnlike(existing, x, candidates[n]) \in X
    <2>1. candidates[n] \in T
      BY <1>1
    <2>2. Append(x, candidates[n]) \in X
      BY <2>1, AppendProperties
    <2> QED BY <2>2 DEF KeepUnlike
  <1> HIDE DEF N, X
  <1>4. step \in Steps(N, X)
    BY <1>3 DEF Steps
  <1>5. PICK g \in [0..N -> X] : g[0] = <<>> /\ \A n \in 1..N : g[n] = step[n][g[n - 1]]
    <2> DEFINE start == <<>>
    <2>1. start \in X
      BY <1>2
    <2> HIDE DEF step, start
    <2>2. \E g : Walk(g, start, step, N, X)
      BY <1>1, <1>4, <2>1, WalkExists
    <2> QED BY <2>2 DEF Walk, start
  <1>6. ASSUME NEW n \in 1..N
        PROVE  g[n] = KeepUnlike(existing, g[n - 1], candidates[n])
    <2>1. n - 1 \in 0..N
      BY <1>1
    <2>2. g[n - 1] \in X
      BY <2>1
    <2> QED BY <1>5, <2>2
  <1>7. Rec(g)
    <2>1. g = [n \in 0..N |-> g[n]]
      OBVIOUS
    <2>2. \A n \in 0..N : g[n] = IF n = 0 THEN <<>> ELSE KeepUnlike(existing, g[n - 1], candidates[n])
      <3>1. \A n \in 0..N : n # 0 => n \in 1..N
        BY <1>1
      <3> QED BY <1>5, <1>6, <3>1
    <2> QED BY <2>1, <2>2
  <1> DEFINE f == CHOOSE f : Rec(f)
  <1>8. Rec(f)
    <2> HIDE DEF Rec
    <2> QED BY <1>7
  <1>9. DropAlike(candidates, existing) = f[N]
    BY DEF DropAlike, N
  <1> HIDE DEF f
  <1>10. AlikeDropped(f, candidates, existing)
    BY <1>1, <1>8 DEF AlikeDropped, N
  <1>11. f \in [0..N -> X]
    <2> DEFINE P == {n \in 0..N : f[n] \in X}
    <2>1. 0 \in P
      BY <1>1, <1>2, <1>10 DEF AlikeDropped
    <2>2. ASSUME NEW n \in 1..N, n - 1 \in P
          PROVE  n \in P
      <3>1. f[n - 1] \in X
        BY <2>2
      <3>2. f[n] = KeepUnlike(existing, f[n - 1], candidates[n])
        BY <1>10 DEF AlikeDropped, N
      <3>3. n \in 0..N
        BY <1>1
      <3> QED BY <1>3, <3>1, <3>2, <3>3
    <2>3. 0..N \subseteq P
      <3> HIDE DEF P
      <3> QED BY <1>1, <2>1, <2>2, UpTo
    <2> QED BY <1>8, <2>3
  <1> QED BY <1>9, <1>10, <1>11 DEF N, X

-----------------------------------------------------------------------------
(* What the walks keep. *)

\* The facts among texts admitted so far: few enough, each once.
Facts(lines, texts) ==
    /\ Len(lines) <= CanonMaxItems
    /\ \A i, j \in 1..Len(lines) : lines[i] = lines[j] => i = j
    /\ \A i \in 1..Len(lines) : \E k \in 1..Len(texts) : lines[i] = texts[k]

LEMMA AdmittedFacts ==
    ASSUME NEW T, NEW texts \in Seq(T)
    PROVE  AdmitFacts(texts) \in Seq(T) /\ Facts(AdmitFacts(texts), texts)
  <1> DEFINE N == Len(texts)
  <1>1. PICK f \in [0..N -> Seq(T)] : FactsAdmitted(f, texts) /\ AdmitFacts(texts) = f[N]
    BY AdmitWalk
  <1>2. N \in Nat /\ CanonMaxItems \in Nat /\ \A n \in 1..N : texts[n] \in T
    BY RecallAssumption, LenProperties, ElementOfSeq
  <1> HIDE DEF N
  <1> DEFINE P == {n \in 0..N : Facts(f[n], texts)}
  <1>3. 0 \in P
    BY <1>1, <1>2 DEF Facts, FactsAdmitted
  <1>4. ASSUME NEW n \in 1..N, n - 1 \in P
        PROVE  n \in P
    <2> DEFINE lines == f[n - 1]
               t == texts[n]
    <2>1. /\ n - 1 \in 0..N /\ n \in 0..N /\ lines \in Seq(T) /\ t \in T
          /\ Facts(lines, texts) /\ f[n] = AdmitFact(lines, t)
      BY <1>1, <1>2, <1>4 DEF FactsAdmitted, N
    <2> HIDE DEF lines, t
    <2>2. CASE f[n] = lines
      BY <2>1, <2>2
    <2>3. CASE f[n] # lines
      <3>1. f[n] = Append(lines, t) /\ t \notin ToSet(lines) /\ ~(Len(lines) >= CanonMaxItems)
        BY <2>1, <2>3 DEF AdmitFact
      <3> DEFINE more == Append(lines, t)
      <3>2. /\ Len(more) = Len(lines) + 1 /\ Len(lines) \in Nat
            /\ \A i \in 1..Len(lines) : more[i] = lines[i]
            /\ more[Len(lines) + 1] = t
        BY <2>1, AppendProperties, LenProperties
      <3>3. \A i \in 1..Len(lines) : lines[i] # t
        BY <2>1, <3>1, LenProperties DEF ToSet
      <3> HIDE DEF more
      <3>4. Len(more) <= CanonMaxItems
        BY <1>2, <3>1, <3>2
      <3>5. ASSUME NEW i \in 1..Len(more), NEW j \in 1..Len(more), more[i] = more[j]
            PROVE  i = j
        <4>1. /\ i \in 1..Len(lines) \/ i = Len(lines) + 1
              /\ j \in 1..Len(lines) \/ j = Len(lines) + 1
          BY <3>2
        <4>2. \A k, l \in 1..Len(lines) : lines[k] = lines[l] => k = l
          BY <2>1 DEF Facts
        <4> QED BY <3>2, <3>3, <3>5, <4>1, <4>2
      <3>6. ASSUME NEW i \in 1..Len(more)
            PROVE  \E k \in 1..Len(texts) : more[i] = texts[k]
        <4>1. i \in 1..Len(lines) \/ i = Len(lines) + 1
          BY <3>2
        <4>2. CASE i \in 1..Len(lines)
          BY <2>1, <3>2, <4>2 DEF Facts
        <4>3. CASE i = Len(lines) + 1
          BY <3>2, <4>3 DEF t, N
        <4> QED BY <4>1, <4>2, <4>3
      <3>7. Facts(more, texts)
        BY <3>4, <3>5, <3>6 DEF Facts
      <3> QED BY <2>1, <3>1, <3>7 DEF more
    <2> QED BY <2>2, <2>3
  <1>5. 0..N \subseteq P
    <2> HIDE DEF P
    <2> QED BY <1>2, <1>3, <1>4, UpTo
  <1>6. N \in 0..N
    BY <1>2
  <1> QED BY <1>1, <1>5, <1>6

\* What a walk over the first n of selected has made of them: the chunks taken fit the
\* window, may be shown, and repeat nothing; one not taken is shown already, unless it
\* came after Window others and the window is full.
Filled(taken, selected, standing, n) ==
    /\ Len(taken) <= Window /\ Len(taken) <= n
    /\ \A i \in 1..Len(taken) :
          /\ taken[i].chunk.vis = "player"
          /\ taken[i].chunk.text \notin ToSet(standing)
          /\ \E k \in 1..Len(selected) : taken[i] = selected[k]
    /\ \A i, j \in 1..Len(taken) :
          Shown(taken[i].chunk.text) = Shown(taken[j].chunk.text) => i = j
    /\ \A k \in 1..n :
          selected[k].chunk.vis = "player" =>
              \/ selected[k].chunk.text \in ToSet(standing)
              \/ Repeats(selected[k].chunk.text, taken)
              \/ Window < k /\ Len(taken) = Window

LEMMA TakenFill ==
    ASSUME NEW T, NEW selected \in Seq(T), NEW standing
    PROVE  /\ PromptChunks(selected, standing) \in Seq(T)
           /\ Filled(PromptChunks(selected, standing), selected, standing, Len(selected))
  <1> DEFINE N == Len(selected)
  <1>1. PICK f \in [0..N -> Seq(T)] :
           ChunksTaken(f, selected, standing) /\ PromptChunks(selected, standing) = f[N]
    BY TakeWalk
  <1>2. N \in Nat /\ Window \in Nat /\ \A n \in 1..N : selected[n] \in T
    BY RecallAssumption, LenProperties, ElementOfSeq
  <1> HIDE DEF N
  <1> DEFINE P == {n \in 0..N : Filled(f[n], selected, standing, n)}
  <1>3. 0 \in P
    BY <1>1, <1>2 DEF Filled, ChunksTaken
  <1>4. ASSUME NEW n \in 1..N, n - 1 \in P
        PROVE  n \in P
    <2> DEFINE taken == f[n - 1]
               r == selected[n]
    <2>1. /\ n - 1 \in 0..N /\ n \in 0..N /\ taken \in Seq(T) /\ r \in T
          /\ Filled(taken, selected, standing, n - 1) /\ f[n] = TakeChunk(standing, taken, r)
      BY <1>1, <1>2, <1>4 DEF ChunksTaken, N
    <2>2. \A k \in 1..n : k \in 1..(n - 1) \/ k = n
      BY <1>2
    <2>3. Len(taken) \in Nat /\ DOMAIN taken = 1..Len(taken)
      BY <2>1, LenProperties
    <2>4. r = selected[n]
      OBVIOUS
    <2> HIDE DEF taken, r
    <2>5. CASE f[n] = taken
      <3>1. \/ Len(taken) >= Window \/ r.chunk.vis # "player"
            \/ r.chunk.text \in ToSet(standing) \/ Repeats(r.chunk.text, taken)
        <4>1. Append(taken, r) # taken
          <5> DEFINE more == Append(taken, r)
          <5>1. Len(more) = Len(taken) + 1
            BY <2>1, AppendProperties
          <5> HIDE DEF more
          <5>2. more # taken
            BY <2>3, <5>1
          <5> QED BY <5>2 DEF more
        <4> QED BY <2>1, <2>5, <4>1 DEF TakeChunk
      <3>2. Len(taken) <= Window /\ Len(taken) <= n - 1
        BY <2>1 DEF Filled
      <3>3. Len(taken) >= Window => Len(taken) = Window /\ Window < n
        <4> DEFINE l == Len(taken)
        <4>1. n \in Nat /\ Window \in Nat /\ l \in Nat /\ l <= Window /\ l <= n - 1
          BY <1>2, <2>3, <3>2
        <4> HIDE DEF l, P
        <4>2. l >= Window => l = Window /\ Window < n
          BY <4>1
        <4> QED BY <4>2 DEF l
      <3>4. r.chunk.vis = "player" =>
               \/ r.chunk.text \in ToSet(standing) \/ Repeats(r.chunk.text, taken)
               \/ Window < n /\ Len(taken) = Window
        BY <3>1, <3>3
      <3>5. Len(taken) <= n
        BY <1>2, <2>1, <2>3, <3>2
      <3>6. Filled(taken, selected, standing, n)
        BY <2>1, <2>2, <2>4, <3>4, <3>5 DEF Filled
      <3> QED BY <2>1, <2>5, <3>6
    <2>6. CASE f[n] # taken
      <3>1. /\ f[n] = Append(taken, r) /\ ~(Len(taken) >= Window) /\ r.chunk.vis = "player"
            /\ r.chunk.text \notin ToSet(standing) /\ ~Repeats(r.chunk.text, taken)
        BY <2>1, <2>6 DEF TakeChunk
      <3> DEFINE more == Append(taken, r)
      <3>2. /\ Len(more) = Len(taken) + 1 /\ more \in Seq(T)
            /\ \A i \in 1..Len(taken) : more[i] = taken[i]
            /\ more[Len(taken) + 1] = r
        BY <2>1, AppendProperties
      <3> HIDE DEF more
      <3>3. DOMAIN more = 1..Len(more)
        BY <3>2, LenProperties
      <3>4. \A i \in 1..Len(more) : i \in 1..Len(taken) \/ i = Len(taken) + 1
        BY <2>3, <3>2
      <3>5. \A i \in 1..Len(taken) : i \in 1..Len(more)
        BY <2>3, <3>2
      <3>6. \A i \in 1..Len(taken) : Shown(taken[i].chunk.text) # Shown(r.chunk.text)
        BY <2>3, <3>1 DEF Repeats
      <3>7. Len(more) <= Window /\ Len(more) <= n
        <4>1. Len(taken) <= n - 1
          BY <2>1 DEF Filled
        <4> QED BY <1>2, <2>1, <2>3, <3>1, <3>2, <4>1
      <3>8. ASSUME NEW i \in 1..Len(more)
            PROVE  /\ more[i].chunk.vis = "player"
                   /\ more[i].chunk.text \notin ToSet(standing)
                   /\ \E k \in 1..Len(selected) : more[i] = selected[k]
        <4>1. CASE i \in 1..Len(taken)
          BY <2>1, <3>2, <4>1 DEF Filled
        <4>2. CASE i = Len(taken) + 1
          <5>1. more[i] = r /\ n \in 1..Len(selected)
            BY <3>2, <4>2 DEF N
          <5> QED BY <2>4, <3>1, <5>1
        <4> QED BY <3>4, <4>1, <4>2
      <3>9. ASSUME NEW i \in 1..Len(more), NEW j \in 1..Len(more),
                   Shown(more[i].chunk.text) = Shown(more[j].chunk.text)
            PROVE  i = j
        <4>1. \A k, l \in 1..Len(taken) :
                 Shown(taken[k].chunk.text) = Shown(taken[l].chunk.text) => k = l
          BY <2>1 DEF Filled
        <4> QED BY <3>2, <3>4, <3>6, <3>9, <4>1
      <3>10. ASSUME NEW k \in 1..n, selected[k].chunk.vis = "player"
             PROVE  \/ selected[k].chunk.text \in ToSet(standing)
                    \/ Repeats(selected[k].chunk.text, more)
                    \/ Window < k /\ Len(more) = Window
        <4>1. CASE k = n
          <5>1. Len(taken) + 1 \in 1..Len(more)
            BY <2>3, <3>2
          <5>2. Repeats(r.chunk.text, more)
            BY <3>2, <3>3, <5>1 DEF Repeats
          <5> QED BY <2>4, <4>1, <5>2
        <4>2. CASE k \in 1..(n - 1)
          <5>1. \/ selected[k].chunk.text \in ToSet(standing)
                \/ Repeats(selected[k].chunk.text, taken)
                \/ Len(taken) = Window
            BY <2>1, <3>10, <4>2 DEF Filled
          <5>2. Len(taken) # Window
            BY <1>2, <2>3, <3>1
          <5>3. Repeats(selected[k].chunk.text, taken) => Repeats(selected[k].chunk.text, more)
            BY <2>3, <3>2, <3>3, <3>5 DEF Repeats
          <5> QED BY <5>1, <5>2, <5>3
        <4> QED BY <2>2, <4>1, <4>2
      <3>11. Filled(more, selected, standing, n)
        BY <3>7, <3>8, <3>9, <3>10 DEF Filled
      <3> QED BY <2>1, <3>1, <3>11 DEF more
    <2> QED BY <2>5, <2>6
  <1>5. 0..N \subseteq P
    <2> HIDE DEF P
    <2> QED BY <1>2, <1>3, <1>4, UpTo
  <1>6. N \in 0..N
    BY <1>2
  <1> QED BY <1>1, <1>5, <1>6 DEF N

-----------------------------------------------------------------------------
(* The orders of the rankings. *)

LEMMA PrecedesTwo ==
    ASSUME NEW a \in Int, NEW b \in Int, NEW d \in Int, NEW e \in Int
    PROVE  Precedes(<<a, b>>, <<d, e>>) <=> a < d \/ (a = d /\ b < e)
  <1> DEFINE k == <<a, b>>
             l == <<d, e>>
  <1>1. DOMAIN k = {1, 2} /\ k[1] = a /\ k[2] = b /\ l[1] = d /\ l[2] = e
    OBVIOUS
  <1>2. 1..(1 - 1) = {} /\ 1..(2 - 1) = {1}
    OBVIOUS
  <1> HIDE DEF k, l
  <1>3. Precedes(k, l) <=> \E i \in {1, 2} : k[i] < l[i] /\ \A j \in 1..(i - 1) : k[j] = l[j]
    BY <1>1 DEF Precedes
  <1>4. Precedes(k, l) <=> a < d \/ (a = d /\ b < e)
    BY <1>1, <1>2, <1>3
  <1> QED BY <1>4 DEF k, l

LEMMA PrecedesThree ==
    ASSUME NEW a \in Int, NEW b \in Int, NEW c \in Int,
           NEW d \in Int, NEW e \in Int, NEW f \in Int
    PROVE  Precedes(<<a, b, c>>, <<d, e, f>>) <=>
              a < d \/ (a = d /\ b < e) \/ (a = d /\ b = e /\ c < f)
  <1> DEFINE k == <<a, b, c>>
             l == <<d, e, f>>
  <1>1. /\ DOMAIN k = {1, 2, 3} /\ k[1] = a /\ k[2] = b /\ k[3] = c
        /\ l[1] = d /\ l[2] = e /\ l[3] = f
    OBVIOUS
  <1>2. 1..(1 - 1) = {} /\ 1..(2 - 1) = {1} /\ 1..(3 - 1) = {1, 2}
    OBVIOUS
  <1> HIDE DEF k, l
  <1>3. Precedes(k, l) <=>
           \E i \in {1, 2, 3} : k[i] < l[i] /\ \A j \in 1..(i - 1) : k[j] = l[j]
    BY <1>1 DEF Precedes
  <1>4. Precedes(k, l) <=> a < d \/ (a = d /\ b < e) \/ (a = d /\ b = e /\ c < f)
    BY <1>1, <1>2, <1>3
  <1> QED BY <1>4 DEF k, l

LEMMA PrecedesFour ==
    ASSUME NEW k, NEW l, DOMAIN k = {1, 2, 3, 4}
    PROVE  Precedes(k, l) <=>
              \/ k[1] < l[1] \/ (k[1] = l[1] /\ k[2] < l[2])
              \/ (k[1] = l[1] /\ k[2] = l[2] /\ k[3] < l[3])
              \/ (k[1] = l[1] /\ k[2] = l[2] /\ k[3] = l[3] /\ k[4] < l[4])
  <1>1. 1..(1 - 1) = {} /\ 1..(2 - 1) = {1} /\ 1..(3 - 1) = {1, 2}
    OBVIOUS
  <1>2. 1..(4 - 1) = {1, 2, 3}
    <2>1. \A j \in Int : 1 <= j /\ j <= 3 <=> j = 1 \/ j = 2 \/ j = 3
      OBVIOUS
    <2>2. \A j : j \in 1..3 <=> j \in {1, 2, 3}
      BY <2>1
    <2>3. 4 - 1 = 3
      OBVIOUS
    <2> QED BY <2>2, <2>3
  <1>3. Precedes(k, l) <=>
           \E i \in {1, 2, 3, 4} : k[i] < l[i] /\ \A j \in 1..(i - 1) : k[j] = l[j]
    BY DEF Precedes
  <1> QED BY <1>1, <1>2, <1>3

LEMMA MemoryTyped ==
    ASSUME NEW m \in Memory
    PROVE  /\ m.id \in Nat /\ m.text \in Texts /\ m.importance \in Nat /\ m.created \in Nat
           /\ m.bond \in Nat /\ m.retired \in BOOLEAN
           /\ m.vis \in Visibility /\ m.tags \in SUBSET Tags
  BY DEF Memory

Canonical(S) == {p \in S \X S : CanonBefore(p[1], p[2])}

LEMMA CanonKeys ==
    ASSUME NEW m \in Memory, NEW n \in Memory
    PROVE  CanonBefore(m, n) <=>
              \/ m.importance > n.importance
              \/ m.importance = n.importance /\ m.created > n.created
              \/ m.importance = n.importance /\ m.created = n.created /\ m.id < n.id
  <1> DEFINE a == m.importance
             b == m.created
             c == m.id
             d == n.importance
             e == n.created
             f == n.id
  <1>1. a \in Nat /\ b \in Nat /\ c \in Nat /\ d \in Nat /\ e \in Nat /\ f \in Nat
    BY MemoryTyped
  <1>2. CanonBefore(m, n) <=> Precedes(<<-a, -b, c>>, <<-d, -e, f>>)
    BY DEF CanonBefore, CanonKey
  <1> HIDE DEF a, b, c, d, e, f
  <1>3. -a \in Int /\ -b \in Int /\ c \in Int /\ -d \in Int /\ -e \in Int /\ f \in Int
    BY <1>1
  <1>4. CanonBefore(m, n) <=>
           -a < -d \/ (-a = -d /\ -b < -e) \/ (-a = -d /\ -b = -e /\ c < f)
    BY <1>2, <1>3, PrecedesThree
  <1>5. /\ -a < -d <=> a > d
        /\ -a = -d <=> a = d
        /\ -b < -e <=> b > e
        /\ -b = -e <=> b = e
    BY <1>1
  <1>6. CanonBefore(m, n) <=> a > d \/ (a = d /\ b > e) \/ (a = d /\ b = e /\ c < f)
    BY <1>4, <1>5
  <1> QED BY <1>6 DEF a, b, c, d, e, f

LEMMA CanonOrders ==
    ASSUME NEW S \in SUBSET Memory, \A m, n \in S : m.id = n.id => m = n
    PROVE  StrictOrder(S, Canonical(S))
  <1>1. \A m, n \in S : <<m, n>> \in Canonical(S) <=> CanonBefore(m, n)
    BY DEF Canonical
  <1>2. ASSUME NEW m \in S
        PROVE  ~CanonBefore(m, m)
    <2>1. m.importance \in Nat /\ m.created \in Nat /\ m.id \in Nat
      BY MemoryTyped
    <2> QED BY <2>1, CanonKeys
  <1>3. ASSUME NEW m \in S, NEW n \in S, NEW o \in S, CanonBefore(m, n), CanonBefore(n, o)
        PROVE  CanonBefore(m, o)
    <2>1. /\ m.importance \in Nat /\ m.created \in Nat /\ m.id \in Nat
          /\ n.importance \in Nat /\ n.created \in Nat /\ n.id \in Nat
          /\ o.importance \in Nat /\ o.created \in Nat /\ o.id \in Nat
      BY MemoryTyped
    <2>2. /\ \/ m.importance > n.importance
             \/ m.importance = n.importance /\ m.created > n.created
             \/ m.importance = n.importance /\ m.created = n.created /\ m.id < n.id
          /\ \/ n.importance > o.importance
             \/ n.importance = o.importance /\ n.created > o.created
             \/ n.importance = o.importance /\ n.created = o.created /\ n.id < o.id
      BY <1>3, CanonKeys
    <2>3. \/ m.importance > o.importance
          \/ m.importance = o.importance /\ m.created > o.created
          \/ m.importance = o.importance /\ m.created = o.created /\ m.id < o.id
      BY <2>1, <2>2
    <2> QED BY <2>3, CanonKeys
  <1>4. ASSUME NEW m \in S, NEW n \in S, m # n
        PROVE  CanonBefore(m, n) \/ CanonBefore(n, m)
    <2>1. /\ m.importance \in Nat /\ m.created \in Nat /\ m.id \in Nat
          /\ n.importance \in Nat /\ n.created \in Nat /\ n.id \in Nat
          /\ m.id # n.id
      BY <1>4, MemoryTyped
    <2>2. \/ m.importance > n.importance
          \/ m.importance = n.importance /\ m.created > n.created
          \/ m.importance = n.importance /\ m.created = n.created /\ m.id < n.id
          \/ n.importance > m.importance
          \/ n.importance = m.importance /\ n.created > m.created
          \/ n.importance = m.importance /\ n.created = m.created /\ n.id < m.id
      BY <2>1
    <2> QED BY <2>2, CanonKeys
  <1> QED BY <1>1, <1>2, <1>3, <1>4 DEF StrictOrder

LEMMA CanonListed ==
    ASSUME NEW S \in SUBSET Memory, IsFiniteSet(S), \A m, n \in S : m.id = n.id => m = n
    PROVE  Lists(Ordered(S, CanonBefore), S, Canonical(S))
  <1> DEFINE R == Canonical(S)
             ranked(i) == CHOOSE x \in S : Cardinality({y \in S : CanonBefore(y, x)}) = i - 1
             s == [i \in 1..Cardinality(S) |-> ranked(i)]
  <1>1. StrictOrder(S, R)
    BY CanonOrders
  <1>2. \A x \in S : {y \in S : CanonBefore(y, x)} = Below(S, R, x)
    BY DEF Below, Canonical
  <1> HIDE DEF R
  <1>3. ASSUME NEW i \in 1..Cardinality(S)
        PROVE  s[i] \in S /\ Cardinality(Below(S, R, s[i])) = i - 1
    <2>1. \E x \in S : Cardinality(Below(S, R, x)) = i - 1
      BY <1>1, RanksTaken
    <2>2. \E x \in S : Cardinality({y \in S : CanonBefore(y, x)}) = i - 1
      BY <1>2, <2>1
    <2>3. s[i] \in S /\ Cardinality({y \in S : CanonBefore(y, s[i])}) = i - 1
      BY <2>2
    <2> QED BY <1>2, <2>3
  <1>4. s = [i \in 1..Cardinality(S) |-> s[i]]
    <2> HIDE DEF ranked
    <2> QED OBVIOUS
  <1>5. s = Ordered(S, CanonBefore)
    BY DEF Ordered
  <1> HIDE DEF s
  <1>6. Lists(s, S, R)
    BY <1>1, <1>3, <1>4, ListedByRank
  <1> QED BY <1>5, <1>6 DEF R

-----------------------------------------------------------------------------
(* The rarity of a hit, and the order it makes. *)

Positive == Nat \ {0}

LEMMA ProductsGrow ==
    ASSUME NEW a \in Nat, NEW b \in Nat, NEW c \in Nat, a >= b
    PROVE  a * c >= b * c
  <1>1. PICK d \in Nat : a = b + d
    <2>1. a - b \in Nat /\ a = b + (a - b)
      OBVIOUS
    <2> QED BY <2>1
  <1>2. a * c = b * c + d * c
    BY <1>1
  <1>3. d * c \in Nat /\ b * c \in Nat
    OBVIOUS
  <1> QED BY <1>2, <1>3

LEMMA FactorsCancel ==
    ASSUME NEW a \in Nat, NEW b \in Nat, NEW c \in Positive, a * c >= b * c
    PROVE  a >= b
  <1>1. SUFFICES ASSUME b > a PROVE FALSE
    OBVIOUS
  <1>2. b >= a + 1 /\ a + 1 \in Nat /\ c \in Nat
    BY <1>1 DEF Positive
  <1>3. b * c >= (a + 1) * c
    BY <1>2, ProductsGrow
  <1>4. (a + 1) * c = a * c + c
    BY <1>2
  <1>5. a * c \in Nat /\ b * c \in Nat /\ c > 0
    BY <1>2 DEF Positive
  <1> QED BY <1>2, <1>3, <1>4, <1>5

LEMMA AtLeastOrders ==
    /\ \A r, s \in Positive \X Positive : AtLeast(r, s) \/ AtLeast(s, r)
    /\ \A r, s, t \in Positive \X Positive : AtLeast(r, s) /\ AtLeast(s, t) => AtLeast(r, t)
  <1>1. ASSUME NEW r \in Positive \X Positive, NEW s \in Positive \X Positive
        PROVE  AtLeast(r, s) \/ AtLeast(s, r)
    <2> DEFINE x == r[1] * s[2]
               y == s[1] * r[2]
    <2>1. r[1] \in Nat /\ r[2] \in Nat /\ s[1] \in Nat /\ s[2] \in Nat
      BY DEF Positive
    <2>2. x \in Int /\ y \in Int
      BY <2>1
    <2>3. (AtLeast(r, s) <=> x >= y) /\ (AtLeast(s, r) <=> y >= x)
      BY DEF AtLeast
    <2> HIDE DEF x, y
    <2> QED BY <2>2, <2>3
  <1>2. ASSUME NEW r \in Positive \X Positive, NEW s \in Positive \X Positive,
               NEW t \in Positive \X Positive, AtLeast(r, s), AtLeast(s, t)
        PROVE  AtLeast(r, t)
    <2> DEFINE a == r[1]
               b == r[2]
               c == s[1]
               d == s[2]
               e == t[1]
               f == t[2]
    <2>1. /\ a \in Positive /\ b \in Positive /\ c \in Positive
          /\ d \in Positive /\ e \in Positive /\ f \in Positive
      OBVIOUS
    <2>2. a * d >= c * b /\ c * f >= e * d
      BY <1>2 DEF AtLeast
    <2>3. AtLeast(r, t) <=> a * f >= e * b
      BY DEF AtLeast
    <2> HIDE DEF a, b, c, d, e, f
    <2>4. /\ a \in Nat /\ b \in Nat /\ c \in Nat /\ d \in Nat /\ e \in Nat /\ f \in Nat
      BY <2>1 DEF Positive
    <2>5. /\ a * d \in Nat /\ c * b \in Nat /\ c * f \in Nat /\ e * d \in Nat
          /\ a * f \in Nat /\ e * b \in Nat
      BY <2>4
    <2>6. (a * d) * f >= (c * b) * f
      BY <2>2, <2>4, <2>5, ProductsGrow
    <2>7. (c * f) * b >= (e * d) * b
      BY <2>2, <2>4, <2>5, ProductsGrow
    <2>8. /\ (a * d) * f = (a * f) * d /\ (c * b) * f = (c * f) * b
          /\ (e * d) * b = (e * b) * d
      BY <2>4
    <2>9. (a * f) * d >= (e * b) * d
      <3>1. /\ (a * f) * d \in Nat /\ (c * f) * b \in Nat /\ (e * b) * d \in Nat
        BY <2>4, <2>5
      <3> QED BY <2>6, <2>7, <2>8, <3>1
    <2>10. a * f >= e * b
      BY <2>1, <2>5, <2>9, FactorsCancel
    <2> QED BY <2>3, <2>10
  <1> QED BY <1>1, <1>2

\* The product over the terms a memory shares with the message is one of positives.
LEMMA RarityTyped ==
    ASSUME NEW pool, IsFiniteSet(pool), NEW m \in pool, NEW query, IsFiniteSet(query)
    PROVE  Rarity(m, query, pool) \in Positive \X Positive
  <1> DEFINE M == query \cap DocTerms(m)
             all == Cardinality(pool)
             df(w) == Cardinality({n \in pool : w \in DocTerms(n)})
             Body(f, T) == IF T = {} THEN <<1, 1>>
                           ELSE LET w == CHOOSE w \in T : TRUE
                                    rest == f[T \ {w}]
                                IN  <<all * rest[1], df(w) * rest[2]>>
             Rec(f) == f = [T \in SUBSET M |-> Body(f, T)]
             n == Cardinality(M)
  <1>1. IsFiniteSet(M) /\ n \in Nat
    <2>1. IsFiniteSet(M)
      BY FS_Intersection
    <2> QED BY <2>1, FS_CardinalityType
  <1>2. all \in Positive
    <2>1. all \in Nat /\ all # 0
      BY FS_CardinalityType, FS_EmptySet
    <2> QED BY <2>1 DEF Positive
  <1>3. \A w \in M : df(w) \in Positive
    <2> TAKE w \in M
    <2> DEFINE D == {o \in pool : w \in DocTerms(o)}
    <2>1. D \in SUBSET pool /\ m \in D
      OBVIOUS
    <2>2. IsFiniteSet(D)
      BY <2>1, FS_Subset
    <2> HIDE DEF D
    <2>3. Cardinality(D) \in Nat /\ Cardinality(D) # 0
      BY <2>1, <2>2, FS_CardinalityType, FS_EmptySet
    <2> QED BY <2>3 DEF D, Positive
  <1>4. Rarity(m, query, pool) = (CHOOSE f : Rec(f))[M]
    BY DEF Rarity
  <1> DEFINE pick(T) == CHOOSE w \in T : TRUE
  <1>5. ASSUME NEW T \in SUBSET M
        PROVE  /\ IsFiniteSet(T) /\ Cardinality(T) \in 0..n
               /\ T # {} => /\ pick(T) \in T /\ T \ {pick(T)} \in SUBSET M
                            /\ Cardinality(T) \in 1..n
                            /\ Cardinality(T \ {pick(T)}) = Cardinality(T) - 1
    <2>1. IsFiniteSet(T) /\ Cardinality(T) <= n
      BY <1>1, FS_Subset
    <2>2. Cardinality(T) \in Nat /\ (Cardinality(T) = 0 <=> T = {})
      BY <2>1, FS_CardinalityType, FS_EmptySet
    <2>3. T # {} => pick(T) \in T
      OBVIOUS
    <2>4. pick(T) \in T => Cardinality(T \ {pick(T)}) = Cardinality(T) - 1
      BY <2>1, FS_RemoveElement
    <2> HIDE DEF pick, n
    <2> QED BY <1>1, <2>1, <2>2, <2>3, <2>4
  <1>6. ASSUME NEW f, NEW T
        PROVE  Body(f, T) = IF T = {} THEN <<1, 1>>
                            ELSE <<all * f[T \ {pick(T)}][1], df(pick(T)) * f[T \ {pick(T)}][2]>>
    OBVIOUS
  <1>7. ASSUME NEW f, NEW T, T # {} => f[T \ {pick(T)}] \in Positive \X Positive, T \in SUBSET M
        PROVE  Body(f, T) \in Positive \X Positive
    <2>1. CASE T = {}
      <3>1. <<1, 1>> \in Positive \X Positive
        BY DEF Positive
      <3> QED BY <1>6, <2>1, <3>1
    <2>2. CASE T # {}
      <3> DEFINE rest == f[T \ {pick(T)}]
                 a == all
                 b == df(pick(T))
      <3>1. rest \in Positive \X Positive /\ a \in Positive /\ b \in Positive
        <4>1. pick(T) \in M
          BY <1>5, <1>7, <2>2
        <4> HIDE DEF pick, df
        <4> QED BY <1>2, <1>3, <1>7, <2>2, <4>1
      <3>2. Body(f, T) = <<a * rest[1], b * rest[2]>>
        BY <1>6, <2>2
      <3> HIDE DEF rest, a, b, Body
      <3>3. rest[1] \in Nat /\ rest[1] > 0 /\ rest[2] \in Nat /\ rest[2] > 0
            /\ a \in Nat /\ a > 0 /\ b \in Nat /\ b > 0
        BY <3>1 DEF Positive
      <3>4. a * rest[1] \in Nat /\ a * rest[1] > 0 /\ b * rest[2] \in Nat /\ b * rest[2] > 0
        BY <3>3
      <3>5. a * rest[1] \in Positive /\ b * rest[2] \in Positive
        BY <3>4 DEF Positive
      <3> QED BY <3>2, <3>5
    <2> QED BY <2>1, <2>2
  <1>8. ASSUME NEW f, NEW g, NEW T \in SUBSET M,
               T # {} => f[T \ {pick(T)}] = g[T \ {pick(T)}]
        PROVE  Body(f, T) = Body(g, T)
    <2> HIDE DEF pick, df, all, Body
    <2>1. CASE T = {}
      BY <1>6, <2>1
    <2>2. CASE T # {}
      <3> DEFINE u == T \ {pick(T)}
      <3>1. Body(f, T) = <<all * f[u][1], df(pick(T)) * f[u][2]>>
        BY <1>6, <2>2
      <3>2. Body(g, T) = <<all * g[u][1], df(pick(T)) * g[u][2]>>
        BY <1>6, <2>2
      <3>3. f[u] = g[u]
        BY <1>8, <2>2
      <3> HIDE DEF u
      <3> QED BY <3>1, <3>2, <3>3
    <2> QED BY <2>1, <2>2
  <1> HIDE DEF M, n, all, df, Body, pick
  <1>a. \A T \in SUBSET M : /\ Cardinality(T) \in Nat /\ Cardinality(T) <= n
                            /\ Cardinality(T) <= 0 => T = {}
    <2> TAKE T \in SUBSET M
    <2>1. Cardinality(T) \in 0..n /\ (T # {} => Cardinality(T) \in 1..n)
      BY <1>5
    <2> QED BY <1>1, <2>1
  <1>b. ASSUME NEW T \in SUBSET M, T # {}, NEW k \in Nat, Cardinality(T) <= k
        PROVE  /\ T \ {pick(T)} \in SUBSET M
               /\ Cardinality(T \ {pick(T)}) <= k - 1
    <2>1. T \ {pick(T)} \in SUBSET M /\ Cardinality(T \ {pick(T)}) = Cardinality(T) - 1
      BY <1>5, <1>b
    <2>2. Cardinality(T) \in Nat
      BY <1>a
    <2> QED BY <1>b, <2>1, <2>2
  <1> DEFINE Holds(k, f) == /\ f = [T \in SUBSET M |-> f[T]]
                            /\ \A T \in SUBSET M : Cardinality(T) <= k => f[T] = Body(f, T)
             Good == {k \in 0..n : \E f : Holds(k, f)}
  <1>9. 0 \in Good
    <2> DEFINE f == [T \in SUBSET M |-> <<1, 1>>]
    <2>1. f = [T \in SUBSET M |-> f[T]]
      OBVIOUS
    <2>2. ASSUME NEW T \in SUBSET M, Cardinality(T) <= 0
          PROVE  f[T] = Body(f, T)
      <3>1. T = {}
        BY <1>a, <2>2
      <3>2. f[T] = <<1, 1>>
        OBVIOUS
      <3> HIDE DEF f
      <3> QED BY <1>6, <3>1, <3>2
    <2> HIDE DEF f
    <2>3. Holds(0, f)
      BY <2>1, <2>2
    <2> HIDE DEF Holds
    <2> QED BY <1>1, <2>3
  <1>10. ASSUME NEW k \in 1..n, k - 1 \in Good
         PROVE  k \in Good
    <2>1. PICK f : Holds(k - 1, f)
      BY <1>10
    <2> DEFINE g == [T \in SUBSET M |-> Body(f, T)]
    <2>2. g = [T \in SUBSET M |-> g[T]]
      OBVIOUS
    <2>3. ASSUME NEW T \in SUBSET M, Cardinality(T) <= k
          PROVE  g[T] = Body(g, T)
      <3>1. g[T] = Body(f, T)
        OBVIOUS
      <3>2. ASSUME T # {}
            PROVE  f[T \ {pick(T)}] = g[T \ {pick(T)}]
        <4> DEFINE U == T \ {pick(T)}
        <4>1. k \in Nat
          BY <1>1
        <4>2. U \in SUBSET M /\ Cardinality(U) <= k - 1
          BY <1>b, <2>3, <3>2, <4>1
        <4> HIDE DEF U
        <4>3. f[U] = Body(f, U)
          BY <2>1, <4>2
        <4>4. g[U] = Body(f, U)
          BY <4>2
        <4> QED BY <4>3, <4>4 DEF U
      <3> HIDE DEF g
      <3> QED BY <1>8, <3>1, <3>2
    <2> HIDE DEF g
    <2>4. Holds(k, g)
      BY <2>2, <2>3
    <2>5. k \in 0..n
      BY <1>1
    <2> HIDE DEF Holds
    <2> QED BY <2>4, <2>5
  <1>11. 0..n \subseteq Good
    <2> HIDE DEF Good
    <2> QED BY <1>1, <1>9, <1>10, UpTo
  <1>12. \E f : Rec(f)
    <2>1. PICK f : Holds(n, f)
      <3>1. n \in 0..n
        BY <1>1
      <3> HIDE DEF Holds
      <3> QED BY <1>11, <3>1
    <2>2. \A T \in SUBSET M : f[T] = Body(f, T)
      BY <1>a, <2>1
    <2>3. f = [T \in SUBSET M |-> Body(f, T)]
      BY <2>1, <2>2
    <2> QED BY <2>3
  <1> DEFINE p == CHOOSE f : Rec(f)
  <1>13. Rec(p)
    <2> HIDE DEF Rec
    <2> QED BY <1>12
  <1>14. \A T \in SUBSET M : p[T] = Body(p, T)
    <2> HIDE DEF p
    <2> QED BY <1>13
  <1>15. Rarity(m, query, pool) = p[M]
    BY <1>4 DEF M, Body, n, all, df, pick
  <1> HIDE DEF p, Rec
  <1> DEFINE Q == {k \in 0..n : \A T \in SUBSET M :
                      Cardinality(T) <= k => p[T] \in Positive \X Positive}
  <1>16. 0 \in Q
    <2>1. ASSUME NEW T \in SUBSET M, Cardinality(T) <= 0
          PROVE  p[T] \in Positive \X Positive
      <3>1. T = {}
        BY <1>a, <2>1
      <3>2. Body(p, T) \in Positive \X Positive
        BY <1>7, <3>1
      <3> QED BY <1>14, <3>2
    <2> QED BY <1>1, <2>1
  <1>17. ASSUME NEW k \in 1..n, k - 1 \in Q
         PROVE  k \in Q
    <2>1. ASSUME NEW T \in SUBSET M, Cardinality(T) <= k
          PROVE  p[T] \in Positive \X Positive
      <3>1. ASSUME T # {}
            PROVE  p[T \ {pick(T)}] \in Positive \X Positive
        <4> DEFINE U == T \ {pick(T)}
        <4>1. k \in Nat
          BY <1>1
        <4>2. U \in SUBSET M /\ Cardinality(U) <= k - 1
          BY <1>b, <2>1, <3>1, <4>1
        <4> HIDE DEF U
        <4>3. p[U] \in Positive \X Positive
          BY <1>17, <4>2
        <4> QED BY <4>3 DEF U
      <3>2. Body(p, T) \in Positive \X Positive
        BY <1>7, <3>1
      <3> QED BY <1>14, <3>2
    <2>2. k \in 0..n
      BY <1>1
    <2> QED BY <2>1, <2>2
  <1>18. 0..n \subseteq Q
    <2> HIDE DEF Q
    <2> QED BY <1>1, <1>16, <1>17, UpTo
  <1>19. M \in SUBSET M /\ Cardinality(M) <= n /\ n \in 0..n
    BY <1>1 DEF n
  <1>20. p[M] \in Positive \X Positive
    BY <1>18, <1>19
  <1> QED BY <1>15, <1>20

\* Sessions whose rows a lemma is about: typed, finitely many, one row per id.
Rows(mems) ==
    /\ mems \subseteq Memory /\ IsFiniteSet(mems)
    /\ \A m, n \in mems : m.id = n.id => m = n

HitBefore(rarity, m, n) ==
    \/ ~AtLeast(rarity[n], rarity[m])
    \/ AtLeast(rarity[n], rarity[m]) /\ AtLeast(rarity[m], rarity[n]) /\ CanonBefore(m, n)

Rarer(S, rarity) == {p \in S \X S : HitBefore(rarity, p[1], p[2])}

LEMMA HitsOrder ==
    ASSUME NEW S, Rows(S), NEW rarity, \A m \in S : rarity[m] \in Positive \X Positive
    PROVE  StrictOrder(S, Rarer(S, rarity))
  <1> DEFINE Up(m, n) == AtLeast(rarity[m], rarity[n])
  <1>1. \A m, n \in S : <<m, n>> \in Rarer(S, rarity) <=>
           ~Up(n, m) \/ (Up(n, m) /\ Up(m, n) /\ CanonBefore(m, n))
    BY DEF Rarer, HitBefore
  <1>2. /\ \A m, n \in S : Up(m, n) \/ Up(n, m)
        /\ \A m, n, o \in S : Up(m, n) /\ Up(n, o) => Up(m, o)
    <2>1. ASSUME NEW m \in S, NEW n \in S
          PROVE  Up(m, n) \/ Up(n, m)
      BY AtLeastOrders
    <2>2. ASSUME NEW m \in S, NEW n \in S, NEW o \in S, Up(m, n), Up(n, o)
          PROVE  Up(m, o)
      <3>1. /\ rarity[m] \in Positive \X Positive /\ rarity[n] \in Positive \X Positive
            /\ rarity[o] \in Positive \X Positive
        OBVIOUS
      <3>2. AtLeast(rarity[m], rarity[n]) /\ AtLeast(rarity[n], rarity[o])
        BY <2>2
      <3> QED BY <3>1, <3>2, AtLeastOrders
    <2> HIDE DEF Up
    <2> QED BY <2>1, <2>2
  <1> HIDE DEF Up
  <1>3. StrictOrder(S, Canonical(S))
    BY CanonOrders DEF Rows
  <1>4. \A m, n \in S : <<m, n>> \in Canonical(S) <=> CanonBefore(m, n)
    BY DEF Canonical
  <1>5. /\ \A m \in S : ~CanonBefore(m, m)
        /\ \A m, n, o \in S : CanonBefore(m, n) /\ CanonBefore(n, o) => CanonBefore(m, o)
        /\ \A m, n \in S : m # n => CanonBefore(m, n) \/ CanonBefore(n, m)
    BY <1>3, <1>4 DEF StrictOrder
  <1>6. \A m \in S : <<m, m>> \notin Rarer(S, rarity)
    BY <1>1, <1>2, <1>5
  <1>7. ASSUME NEW m \in S, NEW n \in S, NEW o \in S,
               <<m, n>> \in Rarer(S, rarity), <<n, o>> \in Rarer(S, rarity)
        PROVE  <<m, o>> \in Rarer(S, rarity)
    <2>1. /\ ~Up(n, m) \/ (Up(n, m) /\ Up(m, n) /\ CanonBefore(m, n))
          /\ ~Up(o, n) \/ (Up(o, n) /\ Up(n, o) /\ CanonBefore(n, o))
      BY <1>1, <1>7
    <2>2. /\ Up(m, n) /\ Up(n, o) /\ Up(m, o)
      BY <1>2, <2>1
    <2>3. Up(o, m) => Up(n, m) /\ Up(o, n)
      BY <1>2, <2>2
    <2>4. ~Up(o, m) \/ (Up(o, m) /\ Up(m, o) /\ CanonBefore(m, o))
      BY <1>5, <2>1, <2>2, <2>3
    <2> QED BY <1>1, <2>4
  <1>8. ASSUME NEW m \in S, NEW n \in S, m # n
        PROVE  <<m, n>> \in Rarer(S, rarity) \/ <<n, m>> \in Rarer(S, rarity)
    BY <1>1, <1>2, <1>5, <1>8
  <1> QED BY <1>6, <1>7, <1>8 DEF StrictOrder

HitOf(mems) == [memory : LexicalPool(mems), rarity : Positive \X Positive]

\* The lexical hits: each a live memory the player may know, and each once.
Hits(hits, mems) ==
    /\ hits \in Seq(HitOf(mems))
    /\ \A i, j \in 1..Len(hits) : hits[i].memory = hits[j].memory => i = j

LEMMA HitsFound ==
    ASSUME NEW mems, Rows(mems), NEW query, IsFiniteSet(query)
    PROVE  Hits(LexicalHits(mems, query), mems)
  <1> DEFINE pool == LexicalPool(mems)
             rarity == [m \in pool |-> Rarity(m, query, pool)]
             S == {m \in pool : query \cap DocTerms(m) # {}}
             R == Rarer(S, rarity)
             Before(m, n) == \/ ~AtLeast(rarity[n], rarity[m])
                             \/ AtLeast(rarity[n], rarity[m]) /\ AtLeast(rarity[m], rarity[n])
                                /\ CanonBefore(m, n)
             ranked(i) == CHOOSE x \in S : Cardinality({y \in S : Before(y, x)}) = i - 1
             order == [i \in 1..Cardinality(S) |-> ranked(i)]
             hits == [i \in DOMAIN order |->
                         [memory |-> order[i], rarity |-> rarity[order[i]]]]
  <1>1. pool \subseteq mems /\ S \subseteq pool
    BY DEF LexicalPool
  <1>2. IsFiniteSet(pool)
    BY <1>1, FS_Subset DEF Rows
  <1>3. LexicalHits(mems, query) = hits
    BY DEF LexicalHits, Ordered
  <1> HIDE DEF pool
  <1>4. \A m \in pool : rarity[m] \in Positive \X Positive
    BY <1>2, RarityTyped
  <1>5. Rows(S)
    <2>1. S \subseteq mems
      BY <1>1
    <2>2. IsFiniteSet(S)
      BY <1>1, <1>2, FS_Subset
    <2> HIDE DEF S
    <2> QED BY <2>1, <2>2 DEF Rows
  <1> HIDE DEF S
  <1> HIDE DEF rarity
  <1>6. \A m, n \in S : Before(m, n) <=> HitBefore(rarity, m, n)
    BY DEF HitBefore
  <1> HIDE DEF Before
  <1>7. StrictOrder(S, R)
    BY <1>1, <1>4, <1>5, HitsOrder
  <1>8. \A x \in S : {y \in S : Before(y, x)} = Below(S, R, x)
    BY <1>6 DEF Below, Rarer
  <1> HIDE DEF R
  <1>9. IsFiniteSet(S)
    BY <1>5 DEF Rows
  <1>10. ASSUME NEW i \in 1..Cardinality(S)
         PROVE  order[i] \in S /\ Cardinality(Below(S, R, order[i])) = i - 1
    <2>1. \E x \in S : Cardinality(Below(S, R, x)) = i - 1
      BY <1>7, <1>9, RanksTaken
    <2>2. \E x \in S : Cardinality({y \in S : Before(y, x)}) = i - 1
      BY <1>8, <2>1
    <2>3. ranked(i) \in S /\ Cardinality({y \in S : Before(y, ranked(i))}) = i - 1
      BY <2>2
    <2> HIDE DEF ranked
    <2>4. order[i] = ranked(i)
      OBVIOUS
    <2> HIDE DEF order
    <2> QED BY <1>8, <2>3, <2>4
  <1> HIDE DEF ranked
  <1>11. order = [i \in 1..Cardinality(S) |-> order[i]]
    OBVIOUS
  <1> HIDE DEF order
  <1>12. Lists(order, S, R)
    BY <1>7, <1>9, <1>10, <1>11, ListedByRank
  <1> DEFINE n == Cardinality(S)
  <1>13. /\ n \in Nat /\ DOMAIN order = 1..n /\ \A i \in 1..n : order[i] \in S
         /\ \A i, j \in 1..n : order[i] = order[j] => i = j
    BY <1>9, <1>12, FS_CardinalityType DEF Lists
  <1> HIDE DEF n
  <1>14. hits \in [1..n -> HitOf(mems)]
    <2>1. ASSUME NEW i \in 1..n
          PROVE  [memory |-> order[i], rarity |-> rarity[order[i]]] \in HitOf(mems)
      <3>1. order[i] \in pool /\ rarity[order[i]] \in Positive \X Positive
        BY <1>1, <1>4, <1>13
      <3> QED BY <3>1 DEF HitOf, pool
    <2> QED BY <1>13, <2>1
  <1>15. hits \in Seq(HitOf(mems)) /\ Len(hits) = n
    <2> HIDE DEF hits
    <2> QED BY <1>13, <1>14, SeqDef, LenProperties
  <1>16. \A i, j \in 1..n : hits[i].memory = hits[j].memory => i = j
    BY <1>13
  <1> HIDE DEF hits
  <1>17. Hits(hits, mems)
    BY <1>15, <1>16 DEF Hits
  <1> QED BY <1>3, <1>17

LEMMA FirstNListed ==
    ASSUME NEW T, NEW s \in Seq(T), NEW n \in Nat
    PROVE  /\ FirstN(s, n) \in Seq(T)
           /\ Len(FirstN(s, n)) = IF n <= Len(s) THEN n ELSE Len(s)
           /\ \A i \in 1..Len(FirstN(s, n)) : FirstN(s, n)[i] = s[i]
           /\ Len(FirstN(s, n)) \in Nat /\ Len(FirstN(s, n)) <= n
           /\ Len(FirstN(s, n)) <= Len(s)
  <1> DEFINE l == Min({n, Len(s)})
             t == SubSeq(s, 1, l)
  <1>1. Len(s) \in Nat /\ \A i \in 1..Len(s) : s[i] \in T
    BY LenProperties, ElementOfSeq
  <1>2. l = IF n <= Len(s) THEN n ELSE Len(s)
    BY <1>1, LesserOfTwo
  <1> HIDE DEF l
  <1>3. l \in Nat /\ l <= n /\ l <= Len(s)
    BY <1>1, <1>2
  <1>4. \A i \in 1..l : s[i] \in T
    BY <1>1, <1>3
  <1>5. /\ t \in Seq(T)
        /\ Len(t) = IF 1 <= l THEN l - 1 + 1 ELSE 0
        /\ \A i \in 1..(l - 1 + 1) : t[i] = s[1 + i - 1]
    <2>1. 1 \in Int /\ l \in Int
      BY <1>3
    <2> QED BY <1>4, <2>1, SubSeqProperties
  <1> HIDE DEF t
  <1>6. Len(t) = l
    BY <1>3, <1>5
  <1>7. \A i \in 1..l : t[i] = s[i]
    <2>1. \A i \in 1..l : i \in 1..(l - 1 + 1) /\ 1 + i - 1 = i
      BY <1>3
    <2> QED BY <1>5, <2>1
  <1>8. FirstN(s, n) = t
    BY DEF FirstN, t, l
  <1> QED BY <1>2, <1>3, <1>5, <1>6, <1>7, <1>8

LEMMA EligibleFound ==
    ASSUME NEW mems, NEW hits, Hits(hits, mems), NEW quota \in Nat
    PROVE  Hits(EligibleHits(hits, quota), mems) /\ Len(EligibleHits(hits, quota)) <= quota
  <1> DEFINE T == HitOf(mems)
             I == {i \in DOMAIN hits : AtLeast(hits[i].rarity, SliceFloor)}
             at == At(hits, I)
             e == FirstN(at, quota)
             n == Cardinality(I)
  <1>1. hits \in Seq(T) /\ DOMAIN hits = 1..Len(hits) /\ Len(hits) \in Nat
    BY LenProperties DEF Hits
  <1>2. I \in SUBSET DOMAIN hits
    OBVIOUS
  <1>3. EligibleHits(hits, quota) = e
    BY DEF EligibleHits
  <1> HIDE DEF I, T
  <1>4. PICK order : /\ Lists(order, I, Earlier(I))
                     /\ at = [k \in 1..n |-> hits[order[k]]]
                     /\ at \in Seq(T) /\ n \in Nat /\ Len(at) = n
    BY <1>1, <1>2, AtListed
  <1>5. \A k \in 1..n : order[k] \in I /\ at[k] = hits[order[k]]
    BY <1>4 DEF Lists
  <1>6. \A k, l \in 1..n : order[k] = order[l] => k = l
    BY <1>4 DEF Lists
  <1> HIDE DEF at, n
  <1>7. /\ e \in Seq(T) /\ Len(e) \in Nat /\ Len(e) <= quota /\ Len(e) <= n
        /\ \A i \in 1..Len(e) : e[i] = at[i]
    <2>1. at \in Seq(T) /\ Len(at) = n
      BY <1>4
    <2>2. /\ e \in Seq(T) /\ \A i \in 1..Len(e) : e[i] = at[i]
          /\ Len(e) \in Nat /\ Len(e) <= quota /\ Len(e) <= Len(at)
      BY <2>1, FirstNListed
    <2> QED BY <2>1, <2>2
  <1> HIDE DEF e
  <1>8. ASSUME NEW i \in 1..Len(e), NEW j \in 1..Len(e), e[i].memory = e[j].memory
        PROVE  i = j
    <2>1. i \in 1..n /\ j \in 1..n
      BY <1>4, <1>7
    <2>2. /\ order[i] \in 1..Len(hits) /\ order[j] \in 1..Len(hits)
          /\ e[i] = hits[order[i]] /\ e[j] = hits[order[j]]
      BY <1>1, <1>2, <1>5, <1>7, <2>1
    <2>3. order[i] = order[j]
      BY <1>8, <2>2 DEF Hits
    <2> QED BY <1>6, <2>1, <2>3
  <1> QED BY <1>3, <1>7, <1>8 DEF Hits, T

\* The quota's members: live memories the player may know, of different ids.
Membership(members, mems, quota) ==
    /\ members \in Seq(LexicalPool(mems)) /\ Len(members) <= quota
    /\ \A i, j \in 1..Len(members) : members[i].id = members[j].id => i = j

LEMMA MembersFound ==
    ASSUME NEW mems, Rows(mems), NEW hits, Hits(hits, mems), NEW quota \in Nat
    PROVE  /\ Membership(Members(hits, quota), mems, quota)
           /\ Len(Members(hits, quota)) = Len(EligibleHits(hits, quota))
           /\ \A i \in 1..Len(Members(hits, quota)) :
                 Members(hits, quota)[i] = EligibleHits(hits, quota)[i].memory
  <1> DEFINE e == EligibleHits(hits, quota)
             members == [i \in DOMAIN e |-> e[i].memory]
             n == Len(e)
  <1>1. Hits(e, mems) /\ n <= quota
    BY EligibleFound
  <1>2. Members(hits, quota) = members
    BY DEF Members
  <1> HIDE DEF e
  <1>3. /\ DOMAIN e = 1..n /\ n \in Nat
        /\ \A i \in 1..n : e[i] \in HitOf(mems)
        /\ \A i, j \in 1..n : e[i].memory = e[j].memory => i = j
    BY <1>1, LenProperties, ElementOfSeq DEF Hits
  <1>4. \A i \in 1..n : e[i].memory \in LexicalPool(mems)
    BY <1>3 DEF HitOf
  <1> HIDE DEF n
  <1>5. members \in [1..n -> LexicalPool(mems)] /\ \A i \in 1..n : members[i] = e[i].memory
    BY <1>3, <1>4
  <1> HIDE DEF members
  <1>6. members \in Seq(LexicalPool(mems)) /\ Len(members) = n
    BY <1>3, <1>5, SeqDef, LenProperties
  <1>7. ASSUME NEW i \in 1..n, NEW j \in 1..n, members[i].id = members[j].id
        PROVE  i = j
    <2>1. members[i] \in mems /\ members[j] \in mems
      BY <1>4, <1>5 DEF LexicalPool
    <2>2. members[i] = members[j]
      BY <1>7, <2>1 DEF Rows
    <2> QED BY <1>3, <1>5, <2>2
  <1>8. Membership(members, mems, quota)
    BY <1>1, <1>6, <1>7 DEF Membership
  <1> QED BY <1>2, <1>5, <1>6, <1>8 DEF e, n

LEMMA ConcatParts ==
    ASSUME NEW S, NEW s \in Seq(S), NEW t \in Seq(S)
    PROVE  /\ s \o t \in Seq(S) /\ Len(s \o t) = Len(s) + Len(t)
           /\ \A k \in 1..Len(s) : (s \o t)[k] = s[k]
           /\ \A k \in 1..Len(t) : (s \o t)[Len(s) + k] = t[k]
           /\ \A k \in 1..Len(s \o t) :
                 \/ k \in 1..Len(s) /\ (s \o t)[k] = s[k]
                 \/ \E j \in 1..Len(t) : k = Len(s) + j /\ (s \o t)[k] = t[j]
  <1> DEFINE u == s \o t
  <1>1. Len(s) \in Nat /\ Len(t) \in Nat
    BY LenProperties
  <1>2. /\ u \in Seq(S) /\ Len(u) = Len(s) + Len(t)
        /\ \A k \in 1..(Len(s) + Len(t)) : u[k] = IF k <= Len(s) THEN s[k] ELSE t[k - Len(s)]
    BY ConcatProperties
  <1> HIDE DEF u
  <1>3. \A k \in 1..Len(s) : u[k] = s[k]
    <2> TAKE k \in 1..Len(s)
    <2>1. k \in 1..(Len(s) + Len(t)) /\ k <= Len(s)
      BY <1>1
    <2> QED BY <1>2, <2>1
  <1>4. \A k \in 1..Len(t) : u[Len(s) + k] = t[k]
    <2> TAKE k \in 1..Len(t)
    <2>1. /\ Len(s) + k \in 1..(Len(s) + Len(t)) /\ ~(Len(s) + k <= Len(s))
          /\ (Len(s) + k) - Len(s) = k
      BY <1>1
    <2> QED BY <1>2, <2>1
  <1>5. ASSUME NEW k \in 1..Len(u)
        PROVE  \/ k \in 1..Len(s) /\ u[k] = s[k]
               \/ \E j \in 1..Len(t) : k = Len(s) + j /\ u[k] = t[j]
    <2>1. CASE k <= Len(s)
      <3>1. k \in 1..Len(s)
        BY <1>1, <1>2, <2>1
      <3> QED BY <1>3, <3>1
    <2>2. CASE ~(k <= Len(s))
      <3> DEFINE j == k - Len(s)
      <3>1. j \in 1..Len(t) /\ k = Len(s) + j
        BY <1>1, <1>2, <2>2
      <3> HIDE DEF j
      <3> QED BY <1>4, <3>1
    <2> QED BY <2>1, <2>2
  <1>6. QED
    BY <1>2, <1>3, <1>4, <1>5 DEF u

\* What stands in the Standing-facts block: few enough lines, each once, and each pinned or
\* said by an eligible memory.
Standing(lines, mems, pins, pinning) ==
    /\ lines \in Seq(Texts) /\ Len(lines) <= CanonMaxItems
    /\ \A i, j \in 1..Len(lines) : lines[i] = lines[j] => i = j
    /\ \A i \in 1..Len(lines) :
          \/ lines[i] \in ToSet(pins)
          \/ \E m \in CanonEligible(mems, pinning) : lines[i] = m.text

LEMMA StandingFound ==
    ASSUME NEW mems, Rows(mems), NEW pins \in Seq(CanonTexts), NEW pinning
    PROVE  Standing(StandingFacts(mems, pins, pinning), mems, pins, pinning)
  <1> DEFINE S == CanonEligible(mems, pinning)
             eligible == Ordered(S, CanonBefore)
             said == [i \in DOMAIN eligible |-> eligible[i].text]
             texts == pins \o said
             n == Cardinality(S)
             lines == AdmitFacts(texts)
  <1>1. StandingFacts(mems, pins, pinning) = lines
    BY DEF StandingFacts
  <1>2. S \subseteq mems
    BY DEF CanonEligible, CanonCandidates
  <1> HIDE DEF S
  <1>3. S \in SUBSET Memory /\ IsFiniteSet(S) /\ \A m, o \in S : m.id = o.id => m = o
    BY <1>2, FS_Subset DEF Rows
  <1>4. Lists(eligible, S, Canonical(S))
    BY <1>3, CanonListed
  <1> HIDE DEF eligible
  <1>5. n \in Nat /\ DOMAIN eligible = 1..n /\ \A i \in 1..n : eligible[i] \in S
    BY <1>3, <1>4, FS_CardinalityType DEF Lists
  <1> HIDE DEF n
  <1>6. said \in [1..n -> Texts] /\ \A i \in 1..n : said[i] = eligible[i].text
    BY <1>3, <1>5, MemoryTyped
  <1> HIDE DEF said
  <1>7. said \in Seq(Texts) /\ Len(said) = n
    BY <1>5, <1>6, SeqDef, LenProperties
  <1>8. pins \in Seq(Texts)
    <2>1. CanonTexts \subseteq Texts
      BY SessionAssumption
    <2>2. DOMAIN pins = 1..Len(pins) /\ Len(pins) \in Nat /\ pins \in [1..Len(pins) -> CanonTexts]
      BY LenProperties, SeqDef
    <2>3. pins \in [1..Len(pins) -> Texts]
      BY <2>1, <2>2
    <2> QED BY <2>2, <2>3, SeqDef
  <1>9. /\ texts \in Seq(Texts)
        /\ \A k \in 1..Len(texts) :
              \/ k \in 1..Len(pins) /\ texts[k] = pins[k]
              \/ \E j \in 1..Len(said) : k = Len(pins) + j /\ texts[k] = said[j]
    BY <1>7, <1>8, ConcatParts
  <1> HIDE DEF texts
  <1>10. lines \in Seq(Texts) /\ Facts(lines, texts)
    BY <1>9, AdmittedFacts
  <1> HIDE DEF lines
  <1>11. ASSUME NEW i \in 1..Len(lines)
         PROVE  lines[i] \in ToSet(pins) \/ \E m \in S : lines[i] = m.text
    <2>1. PICK k \in 1..Len(texts) : lines[i] = texts[k]
      BY <1>10 DEF Facts
    <2>2. CASE k \in 1..Len(pins) /\ texts[k] = pins[k]
      BY <2>1, <2>2, LenProperties DEF ToSet
    <2>3. CASE \E j \in 1..Len(said) : k = Len(pins) + j /\ texts[k] = said[j]
      <3>1. PICK j \in 1..n : texts[k] = said[j]
        BY <1>7, <2>3
      <3>2. eligible[j] \in S /\ lines[i] = eligible[j].text
        BY <1>5, <1>6, <2>1, <3>1
      <3> QED BY <3>2
    <2> QED BY <1>9, <2>2, <2>3
  <1>12. Standing(lines, mems, pins, pinning)
    BY <1>10, <1>11 DEF Standing, Facts, S
  <1> QED BY <1>1, <1>12

LEMMA ImageFinite ==
    ASSUME NEW S, IsFiniteSet(S), NEW f, DOMAIN f = S
    PROVE  IsFiniteSet({f[x] : x \in S}) /\ Cardinality({f[x] : x \in S}) <= Cardinality(S)
  <1> DEFINE T == {f[x] : x \in S}
             g == [x \in S |-> f[x]]
  <1>1. g \in Surjection(S, T)
    BY DEF Surjection
  <1> HIDE DEF g, T
  <1>2. IsFiniteSet(T) /\ Cardinality(T) <= Cardinality(S)
    BY <1>1, FS_Surjection
  <1> QED BY <1>2 DEF T

-----------------------------------------------------------------------------
(* The search. *)

\* Indexes a lemma is about: finitely many chunks, an id always for the same text, and once
\* per collection.
Chunks(pts) ==
    /\ pts \subseteq Chunk /\ IsFiniteSet(pts)
    /\ \A p, q \in pts : p.id = q.id => p.text = q.text /\ (p.collection = q.collection => p = q)

LEMMA ChunkTyped ==
    ASSUME NEW p \in Chunk
    PROVE  /\ p.id \in Nat /\ p.text \in Texts /\ p.importance \in Nat /\ p.created \in Nat
           /\ p.bond \in Nat /\ p.collection \in DOMAIN CollectionWeight
           /\ p.vis \in Visibility /\ p.tags \in SUBSET Tags
  BY DEF Chunk

NearerBy(near, p, q) == Precedes(<<-near[p.text], p.id>>, <<-near[q.text], q.id>>)
NearFirst(S, near) == {p \in S \X S : NearerBy(near, p[1], p[2])}

LEMMA NearOrders ==
    ASSUME NEW S \in SUBSET Chunk, \A p, q \in S : p.id = q.id => p = q,
           NEW near \in [Texts -> Int]
    PROVE  StrictOrder(S, NearFirst(S, near))
  <1>1. ASSUME NEW p \in S, NEW q \in S
        PROVE  <<p, q>> \in NearFirst(S, near) <=>
                  \/ near[p.text] > near[q.text]
                  \/ near[p.text] = near[q.text] /\ p.id < q.id
    <2> DEFINE a == near[p.text]
               b == p.id
               c == near[q.text]
               d == q.id
    <2>1. a \in Int /\ b \in Int /\ c \in Int /\ d \in Int
      BY ChunkTyped
    <2>2. <<p, q>> \in NearFirst(S, near) <=> Precedes(<<-a, b>>, <<-c, d>>)
      BY DEF NearFirst, NearerBy
    <2> HIDE DEF a, b, c, d
    <2>3. -a \in Int /\ -c \in Int /\ (-a < -c <=> a > c) /\ (-a = -c <=> a = c)
      BY <2>1
    <2>4. Precedes(<<-a, b>>, <<-c, d>>) <=> -a < -c \/ (-a = -c /\ b < d)
      BY <2>1, <2>3, PrecedesTwo
    <2>5. <<p, q>> \in NearFirst(S, near) <=> a > c \/ (a = c /\ b < d)
      BY <2>2, <2>3, <2>4
    <2> QED BY <2>5 DEF a, b, c, d
  <1>2. \A p \in S : near[p.text] \in Int /\ p.id \in Int
    <2> TAKE p \in S
    <2>1. p.text \in Texts /\ p.id \in Nat
      BY ChunkTyped
    <2> QED BY <2>1
  <1> DEFINE a == [p \in S |-> near[p.text]]
             b == [p \in S |-> p.id]
  <1>3. /\ \A p, q \in S : <<p, q>> \in NearFirst(S, near) <=>
                             a[p] > a[q] \/ (a[p] = a[q] /\ b[p] < b[q])
        /\ \A p \in S : a[p] \in Int /\ b[p] \in Int
        /\ \A p, q \in S : b[p] = b[q] => p = q
    BY <1>1, <1>2
  <1> HIDE DEF a, b
  <1>4. \A p \in S : <<p, p>> \notin NearFirst(S, near)
    BY <1>3
  <1>5. ASSUME NEW p \in S, NEW q \in S, NEW r \in S,
               <<p, q>> \in NearFirst(S, near), <<q, r>> \in NearFirst(S, near)
        PROVE  <<p, r>> \in NearFirst(S, near)
    <2>1. /\ a[p] > a[q] \/ (a[p] = a[q] /\ b[p] < b[q])
          /\ a[q] > a[r] \/ (a[q] = a[r] /\ b[q] < b[r])
          /\ a[p] \in Int /\ a[q] \in Int /\ a[r] \in Int
          /\ b[p] \in Int /\ b[q] \in Int /\ b[r] \in Int
      BY <1>3, <1>5
    <2>2. a[p] > a[r] \/ (a[p] = a[r] /\ b[p] < b[r])
      BY <2>1
    <2> QED BY <1>3, <2>2
  <1>6. ASSUME NEW p \in S, NEW q \in S, p # q
        PROVE  <<p, q>> \in NearFirst(S, near) \/ <<q, p>> \in NearFirst(S, near)
    <2>1. /\ b[p] # b[q] /\ a[p] \in Int /\ a[q] \in Int /\ b[p] \in Int /\ b[q] \in Int
      BY <1>3, <1>6
    <2>2. \/ a[p] > a[q] \/ (a[p] = a[q] /\ b[p] < b[q])
          \/ a[q] > a[p] \/ (a[q] = a[p] /\ b[q] < b[p])
      BY <2>1
    <2> QED BY <1>3, <2>2
  <1> QED BY <1>4, <1>5, <1>6 DEF StrictOrder

\* A search finds all there is, or as many as it may.
LEMMA NearestFound ==
    ASSUME NEW S \in SUBSET Chunk, IsFiniteSet(S), \A p, q \in S : p.id = q.id => p = q,
           NEW near \in [Texts -> Int], NEW limit \in Nat
    PROVE  /\ Nearest(S, near, limit) \subseteq S
           /\ \/ Nearest(S, near, limit) = S
              \/ Cardinality(Nearest(S, near, limit)) = limit
  <1> DEFINE R == NearFirst(S, near)
             ranked(i) == CHOOSE x \in S : Cardinality({y \in S : NearerBy(near, y, x)}) = i - 1
             order == [i \in 1..Cardinality(S) |-> ranked(i)]
             first == FirstN(order, limit)
             n == Cardinality(S)
  <1>1. StrictOrder(S, R)
    BY NearOrders
  <1>2. \A x \in S : {y \in S : NearerBy(near, y, x)} = Below(S, R, x)
    BY DEF Below, NearFirst
  <1> HIDE DEF R
  <1>3. Nearest(S, near, limit) = ToSet(first)
    BY DEF Nearest, Ordered, NearerBy
  <1>4. ASSUME NEW i \in 1..Cardinality(S)
        PROVE  order[i] \in S /\ Cardinality(Below(S, R, order[i])) = i - 1
    <2>1. \E x \in S : Cardinality(Below(S, R, x)) = i - 1
      BY <1>1, RanksTaken
    <2>2. \E x \in S : Cardinality({y \in S : NearerBy(near, y, x)}) = i - 1
      BY <1>2, <2>1
    <2>3. ranked(i) \in S /\ Cardinality({y \in S : NearerBy(near, y, ranked(i))}) = i - 1
      BY <2>2
    <2> HIDE DEF ranked
    <2>4. order[i] = ranked(i)
      OBVIOUS
    <2> HIDE DEF order
    <2> QED BY <1>2, <2>3, <2>4
  <1> HIDE DEF ranked
  <1>5. order = [i \in 1..Cardinality(S) |-> order[i]]
    OBVIOUS
  <1> HIDE DEF order
  <1>6. Lists(order, S, R)
    BY <1>1, <1>4, <1>5, ListedByRank
  <1>7. /\ n \in Nat /\ order \in Seq(S) /\ Len(order) = n /\ \A i \in 1..n : order[i] \in S
        /\ \A i, j \in 1..n : order[i] = order[j] => i = j
        /\ \A x \in S : \E i \in 1..n : order[i] = x
    BY <1>6, FS_CardinalityType DEF Lists
  <1> HIDE DEF n
  <1>8. /\ first \in Seq(S) /\ Len(first) = IF limit <= n THEN limit ELSE n
        /\ \A i \in 1..Len(first) : first[i] = order[i]
        /\ Len(first) \in Nat /\ Len(first) <= limit /\ Len(first) <= n
    <2>1. order \in Seq(S) /\ Len(order) = n
      BY <1>7
    <2>2. /\ first \in Seq(S) /\ Len(first) = IF limit <= Len(order) THEN limit ELSE Len(order)
          /\ \A i \in 1..Len(first) : first[i] = order[i]
          /\ Len(first) \in Nat /\ Len(first) <= limit /\ Len(first) <= Len(order)
      BY <2>1, FirstNListed
    <2> QED BY <2>1, <2>2
  <1> HIDE DEF first
  <1> DEFINE l == Len(first)
  <1>9. DOMAIN first = 1..l /\ ToSet(first) = {first[i] : i \in 1..l}
    BY <1>8, LenProperties DEF ToSet
  <1>10. \A i \in 1..l : i \in 1..n
    BY <1>7, <1>8
  <1>11. ToSet(first) \subseteq S
    BY <1>7, <1>8, <1>9, <1>10
  <1>12. CASE limit <= n
    <2>1. l = limit
      BY <1>8, <1>12
    <2> DEFINE T == ToSet(first)
               f == [i \in 1..l |-> first[i]]
    <2>2. f \in Bijection(1..l, T)
      <3>1. f \in [1..l -> T]
        BY <1>9
      <3>2. \A t \in T : \E i \in 1..l : f[i] = t
        BY <1>9
      <3>3. \A i, j \in 1..l : f[i] = f[j] => i = j
        <4>1. \A i \in 1..l : f[i] = order[i]
          BY <1>8
        <4> HIDE DEF f
        <4> QED BY <1>7, <1>10, <4>1
      <3> HIDE DEF f, T
      <3>4. DOMAIN f = 1..l
        BY <3>1
      <3> QED BY <3>1, <3>2, <3>3, <3>4 DEF Bijection, Injection, Surjection, IsInjective
    <2> HIDE DEF f, T
    <2>3. ExistsBijection(1..l, T)
      BY <2>2 DEF ExistsBijection
    <2>4. Cardinality(T) = l
      BY <1>8, <2>3, FS_CountingElements
    <2> QED BY <1>3, <1>11, <2>1, <2>4 DEF T
  <1>13. CASE ~(limit <= n)
    <2>1. l = n
      BY <1>8, <1>13
    <2>2. \A x \in S : \E i \in 1..l : first[i] = x
      BY <1>7, <1>8, <2>1
    <2>3. S \subseteq ToSet(first)
      BY <1>9, <2>2
    <2> QED BY <1>3, <1>11, <2>3
  <1> QED BY <1>12, <1>13

\* What a search finds: chunks of the index that the player may know, with their scores.
FoundIn(pts) == {f \in [chunk : pts, score : Int] : f.chunk.vis = "player"}

Separate(S) == S \in SUBSET Chunk /\ IsFiniteSet(S) /\ \A p, q \in S : p.id = q.id => p = q

LEMMA VisibleSeparate ==
    ASSUME NEW pts, Chunks(pts), NEW collection
    PROVE  Separate(Visible(pts, collection))
  <1>1. \A p \in Visible(pts, collection) :
           p \in pts /\ p.vis = "player" /\ p.collection = collection
    BY DEF Visible
  <1>2. Visible(pts, collection) \subseteq pts /\ pts \subseteq Chunk /\ IsFiniteSet(pts)
    BY <1>1 DEF Chunks
  <1>3. IsFiniteSet(Visible(pts, collection))
    BY <1>2, FS_Subset
  <1>4. \A p, q \in Visible(pts, collection) : p.id = q.id => p = q
    BY <1>1 DEF Chunks
  <1> QED BY <1>2, <1>3, <1>4 DEF Separate

LEMMA SearchFound ==
    ASSUME NEW pts, Chunks(pts), NEW nears \in Queries, NEW topK \in Nat
    PROVE  /\ SearchAll(pts, nears, topK) \subseteq FoundIn(pts)
           /\ IsFiniteSet(SearchAll(pts, nears, topK))
  <1> DEFINE found == SearchAll(pts, nears, topK)
  <1>1. PICK a \in Nearness, b \in Nearness : nears = {a, b}
    BY DEF Queries
  <1>2. a \in [Texts -> Int] /\ b \in [Texts -> Int]
    BY SessionAssumption
  <1>3. topK * Oversample \in Nat
    BY RecallAssumption
  <1>4. ASSUME NEW f \in found
        PROVE  \E near \in {a, b} : \E p \in pts : f = Hit(p, near) /\ p.vis = "player"
    <2>1. PICK c \in DOMAIN CollectionWeight, near \in {a, b} :
             f \in Search(pts, c, near, topK * Oversample)
      BY <1>1 DEF SearchAll
    <2>2. PICK p \in Nearest(Visible(pts, c), near, topK * Oversample) : f = Hit(p, near)
      BY <2>1 DEF Search
    <2>3. p \in Visible(pts, c)
      <3> DEFINE limit == topK * Oversample
                 S == Visible(pts, c)
      <3>1. Separate(S)
        BY VisibleSeparate
      <3>3. near \in [Texts -> Int] /\ limit \in Nat
        BY <1>2, <1>3
      <3> HIDE DEF limit, S
      <3>2. Nearest(S, near, limit) \subseteq S
        BY <3>1, <3>3, NearestFound DEF Separate
      <3> QED BY <2>2, <3>2 DEF limit, S
    <2>4. p \in pts /\ p.vis = "player"
      BY <2>3 DEF Visible
    <2> QED BY <2>1, <2>2, <2>4
  <1>5. \A p \in pts : p.text \in Texts
    BY ChunkTyped DEF Chunks
  <1>6. found \subseteq FoundIn(pts)
    <2> SUFFICES ASSUME NEW f \in found PROVE f \in FoundIn(pts)
      OBVIOUS
    <2> HIDE DEF found
    <2>1. PICK near \in {a, b}, p \in pts : f = Hit(p, near) /\ p.vis = "player"
      BY <1>4
    <2>2. near[p.text] \in Int
      BY <1>2, <1>5
    <2> QED BY <2>1, <2>2 DEF FoundIn, Hit
  <1>7. IsFiniteSet(found)
    <2> DEFINE first == [p \in pts |-> Hit(p, a)]
               second == [p \in pts |-> Hit(p, b)]
               A == {first[p] : p \in pts}
               B == {second[p] : p \in pts}
    <2>1. IsFiniteSet(pts)
      BY DEF Chunks
    <2>2. DOMAIN first = pts /\ DOMAIN second = pts
      OBVIOUS
    <2>3. found \subseteq A \cup B
      BY <1>4
    <2> HIDE DEF first, second, found
    <2>4. IsFiniteSet(A) /\ IsFiniteSet(B)
      BY <2>1, <2>2, ImageFinite
    <2> HIDE DEF A, B
    <2>5. IsFiniteSet(A \cup B)
      BY <2>4, FS_Union
    <2> QED BY <2>3, <2>5, FS_Subset
  <1> QED BY <1>6, <1>7

RankedIn(pts) ==
    {r \in [id : Nat, chunk : pts, score : Int, guaranteed : BOOLEAN, boost : Int] :
        r.id = r.chunk.id /\ r.chunk.vis = "player" /\ r.guaranteed = FALSE}

LEMMA BoostTyped ==
    ASSUME NEW pts, Chunks(pts), NEW found \in SUBSET FoundIn(pts), IsFiniteSet(found),
           NEW query, IsFiniteSet(query), NEW f \in found
    PROVE  RankChunk(f, found, query) \in RankedIn(pts)
  <1> DEFINE c == f.chunk
  <1>1. c \in pts /\ c \in Chunk /\ c.vis = "player" /\ f.score \in Int
    BY DEF FoundIn, Chunks
  <1>2. /\ c.id \in Nat /\ c.bond \in Nat /\ c.importance \in Nat /\ c.created \in Nat
        /\ c.collection \in DOMAIN CollectionWeight
    BY <1>1, ChunkTyped
  <1>3. CollectionWeight[c.collection] \in Int
    BY <1>2 DEF CollectionWeight
  <1>4. Max({c.importance - 1, 0}) \in Int
    <2>1. c.importance - 1 \in Int /\ 0 \in Int
      BY <1>2
    <2> HIDE DEF c
    <2> QED BY <2>1, GreaterOfTwo
  <1>5. LexicalBoost(c, query) \in Int
    <2> DEFINE k == Cardinality(query \cap DocTerms(c))
    <2>1. k \in Nat
      <3>1. IsFiniteSet(query \cap DocTerms(c))
        BY FS_Intersection
      <3> QED BY <3>1, FS_CardinalityType
    <2> HIDE DEF k
    <2>2. 50 * k \in Nat /\ 250 \in Nat
      BY <2>1
    <2>3. Min({50 * k, 250}) \in Int
      BY <2>2, LesserOfTwo
    <2> QED BY <2>3 DEF LexicalBoost, k
  <1>6. RecencyBoost(c, found) \in Int
    <2> DEFINE created == [g \in found |-> g.chunk.created]
               all == {created[g] : g \in found}
               stamps == {g.chunk.created : g \in found} \ {0}
               older == {s \in stamps : s < c.created}
               k == Cardinality(stamps)
               l == Cardinality(older)
               w == Min({c.importance, 5})
    <2>1. IsFiniteSet(all)
      <3>1. DOMAIN created = found
        OBVIOUS
      <3> HIDE DEF created
      <3> QED BY <3>1, ImageFinite
    <2>2. stamps \subseteq all /\ older \subseteq stamps
      OBVIOUS
    <2> HIDE DEF all, stamps
    <2>3. IsFiniteSet(stamps)
      BY <2>1, <2>2, FS_Subset
    <2>4. IsFiniteSet(older)
      BY <2>2, <2>3, FS_Subset
    <2>5. k \in Nat /\ l \in Nat
      BY <2>3, <2>4, FS_CardinalityType
    <2>6. w \in Nat
      <3>1. c.importance \in Nat /\ 5 \in Nat
        BY <1>2
      <3> HIDE DEF c
      <3> QED BY <3>1, LesserOfTwo
    <2>7. RecencyBoost(c, found) =
            IF k < 2 \/ c.created = 0 THEN 0
            ELSE (RecencyWeight * l * w) \div (5 * (k - 1))
      BY DEF RecencyBoost, stamps
    <2>8. RecencyWeight \in Nat
      BY RecallAssumption
    <2> HIDE DEF k, l, w
    <2>9. CASE k < 2
      BY <2>7, <2>9
    <2>10. CASE ~(k < 2)
      <3> DEFINE top == RecencyWeight * l * w
                 bottom == 5 * (k - 1)
      <3>1. top \in Int
        BY <2>5, <2>6, <2>8
      <3>2. bottom \in Int /\ bottom > 0
        BY <2>5, <2>10
      <3> HIDE DEF top, bottom
      <3>3. top \div bottom \in Int
        BY <3>1, <3>2
      <3> QED BY <2>7, <3>3 DEF top, bottom
    <2> QED BY <2>9, <2>10
  <1> DEFINE boost == CollectionWeight[c.collection]
                        + c.bond
                        + 15 * Max({c.importance - 1, 0})
                        + LexicalBoost(c, query)
                        + RecencyBoost(c, found)
  <1>7. boost \in Int
    <2> DEFINE weight == CollectionWeight[c.collection]
               most == Max({c.importance - 1, 0})
               terms == LexicalBoost(c, query)
               age == RecencyBoost(c, found)
               bond == c.bond
    <2>1. /\ weight \in Int /\ most \in Int /\ terms \in Int /\ age \in Int
          /\ bond \in Int
      BY <1>2, <1>3, <1>4, <1>5, <1>6
    <2>2. boost = weight + bond + 15 * most + terms + age
      OBVIOUS
    <2> HIDE DEF boost, weight, most, terms, age, bond
    <2> QED BY <2>1, <2>2
  <1>8. RankChunk(f, found, query) =
           [id |-> c.id, chunk |-> c, score |-> f.score, guaranteed |-> FALSE, boost |-> boost]
    BY DEF RankChunk
  <1> HIDE DEF boost, c
  <1> QED BY <1>1, <1>2, <1>7, <1>8 DEF RankedIn

LEMMA RankedTyped ==
    ASSUME NEW pts, Chunks(pts), NEW r \in RankedIn(pts)
    PROVE  /\ r.score \in Int /\ r.boost \in Int /\ r.id \in Int
           /\ CollectionPriority[r.chunk.collection] \in Int
           /\ r.chunk \in pts /\ r.id = r.chunk.id /\ r.chunk.vis = "player"
           /\ r = [id |-> r.id, chunk |-> r.chunk, score |-> r.score, guaranteed |-> FALSE,
                   boost |-> r.boost]
  <1>1. /\ r \in [id : Nat, chunk : pts, score : Int, guaranteed : BOOLEAN, boost : Int]
        /\ r.id = r.chunk.id /\ r.chunk.vis = "player" /\ r.guaranteed = FALSE
    BY DEF RankedIn
  <1>2. r.chunk \in pts /\ r.score \in Int /\ r.boost \in Int /\ r.id \in Int
    BY <1>1
  <1>3. r.chunk.collection \in DOMAIN CollectionWeight
    BY <1>2, ChunkTyped DEF Chunks
  <1>4. CollectionPriority[r.chunk.collection] \in Int
    BY <1>3 DEF CollectionPriority, CollectionWeight
  <1>5. r = [id |-> r.id, chunk |-> r.chunk, score |-> r.score, guaranteed |-> FALSE,
             boost |-> r.boost]
    BY <1>1
  <1> QED BY <1>1, <1>2, <1>4, <1>5

RankFirst(S) == {p \in S \X S : RankBefore(p[1], p[2])}

LEMMA SamePriority ==
    ASSUME NEW c \in DOMAIN CollectionWeight, NEW d \in DOMAIN CollectionWeight,
           CollectionPriority[c] = CollectionPriority[d]
    PROVE  c = d
  BY DEF CollectionPriority, CollectionWeight

LEMMA RankOrders ==
    ASSUME NEW pts, Chunks(pts), NEW S \in SUBSET RankedIn(pts)
    PROVE  StrictOrder(S, RankFirst(S))
  <1> DEFINE a == [r \in S |-> r.score + r.boost]
             b == [r \in S |-> r.score]
             c == [r \in S |-> CollectionPriority[r.chunk.collection]]
             d == [r \in S |-> r.id]
             Less(r, s) == \/ a[r] > a[s] \/ (a[r] = a[s] /\ b[r] > b[s])
                           \/ (a[r] = a[s] /\ b[r] = b[s] /\ c[r] < c[s])
                           \/ (a[r] = a[s] /\ b[r] = b[s] /\ c[r] = c[s] /\ d[r] < d[s])
  <1>1. \A r \in S : a[r] \in Int /\ b[r] \in Int /\ c[r] \in Int /\ d[r] \in Int
    <2> TAKE r \in S
    <2>1. /\ r.score \in Int /\ r.boost \in Int /\ r.id \in Int
          /\ CollectionPriority[r.chunk.collection] \in Int
      BY RankedTyped
    <2> QED BY <2>1
  <1>2. ASSUME NEW r \in S, NEW s \in S
        PROVE  <<r, s>> \in RankFirst(S) <=> Less(r, s)
    <2>1. <<r, s>> \in RankFirst(S) <=>
             Precedes(<<-a[r], -b[r], c[r], d[r]>>, <<-a[s], -b[s], c[s], d[s]>>)
      BY DEF RankFirst, RankBefore, RankKey
    <2>2. /\ a[r] \in Int /\ b[r] \in Int /\ c[r] \in Int /\ d[r] \in Int
          /\ a[s] \in Int /\ b[s] \in Int /\ c[s] \in Int /\ d[s] \in Int
      BY <1>1
    <2> HIDE DEF a, b, c, d
    <2>3. /\ -a[r] \in Int /\ -b[r] \in Int /\ -a[s] \in Int /\ -b[s] \in Int
          /\ (-a[r] < -a[s] <=> a[r] > a[s]) /\ (-a[r] = -a[s] <=> a[r] = a[s])
          /\ (-b[r] < -b[s] <=> b[r] > b[s]) /\ (-b[r] = -b[s] <=> b[r] = b[s])
      BY <2>2
    <2> DEFINE k == <<-a[r], -b[r], c[r], d[r]>>
               l == <<-a[s], -b[s], c[s], d[s]>>
    <2>4. /\ DOMAIN k = {1, 2, 3, 4}
          /\ k[1] = -a[r] /\ k[2] = -b[r] /\ k[3] = c[r] /\ k[4] = d[r]
          /\ l[1] = -a[s] /\ l[2] = -b[s] /\ l[3] = c[s] /\ l[4] = d[s]
      OBVIOUS
    <2>5. <<r, s>> \in RankFirst(S) <=> Precedes(k, l)
      BY <2>1
    <2> HIDE DEF k, l
    <2>6. Precedes(k, l) <=>
             \/ k[1] < l[1] \/ (k[1] = l[1] /\ k[2] < l[2])
             \/ (k[1] = l[1] /\ k[2] = l[2] /\ k[3] < l[3])
             \/ (k[1] = l[1] /\ k[2] = l[2] /\ k[3] = l[3] /\ k[4] < l[4])
      BY <2>4, PrecedesFour
    <2> QED BY <2>3, <2>4, <2>5, <2>6
  <1>3. ASSUME NEW r \in S, NEW s \in S, a[r] = a[s], b[r] = b[s], c[r] = c[s], d[r] = d[s]
        PROVE  r = s
    <2>1. /\ r.score \in Int /\ r.boost \in Int /\ r.chunk \in pts /\ r.id = r.chunk.id
          /\ r = [id |-> r.id, chunk |-> r.chunk, score |-> r.score, guaranteed |-> FALSE,
                  boost |-> r.boost]
      BY RankedTyped
    <2>2. /\ s.score \in Int /\ s.boost \in Int /\ s.chunk \in pts /\ s.id = s.chunk.id
          /\ s = [id |-> s.id, chunk |-> s.chunk, score |-> s.score, guaranteed |-> FALSE,
                  boost |-> s.boost]
      BY RankedTyped
    <2>3. r.score = s.score /\ r.boost = s.boost /\ r.id = s.id
      <3>1. r.score + r.boost = s.score + s.boost /\ r.score = s.score /\ r.id = s.id
        BY <1>3
      <3>2. r.score \in Int /\ r.boost \in Int /\ s.score \in Int /\ s.boost \in Int
        BY <2>1, <2>2
      <3> DEFINE x == r.score
                 y == r.boost
                 z == s.boost
      <3>3. x + y = x + z /\ x \in Int /\ y \in Int /\ z \in Int
        BY <3>1, <3>2
      <3> HIDE DEF x, y, z
      <3>4. y = z
        BY <3>3
      <3>5. r.boost = s.boost
        BY <3>4 DEF y, z
      <3> QED BY <3>1, <3>5
    <2>4. r.chunk.collection = s.chunk.collection
      <3>1. /\ r.chunk.collection \in DOMAIN CollectionWeight
            /\ s.chunk.collection \in DOMAIN CollectionWeight
        BY <2>1, <2>2, ChunkTyped DEF Chunks
      <3>2. CollectionPriority[r.chunk.collection] = CollectionPriority[s.chunk.collection]
        BY <1>3
      <3> QED BY <3>1, <3>2, SamePriority
    <2>5. r.chunk = s.chunk
      BY <2>1, <2>2, <2>3, <2>4 DEF Chunks
    <2> QED BY <2>1, <2>2, <2>3, <2>5
  <1> HIDE DEF a, b, c, d
  <1>4. \A r \in S : <<r, r>> \notin RankFirst(S)
    BY <1>1, <1>2
  <1>5. ASSUME NEW r \in S, NEW s \in S, NEW t \in S, Less(r, s), Less(s, t)
        PROVE  Less(r, t)
    <2>1. /\ a[r] \in Int /\ b[r] \in Int /\ c[r] \in Int /\ d[r] \in Int
          /\ a[s] \in Int /\ b[s] \in Int /\ c[s] \in Int /\ d[s] \in Int
          /\ a[t] \in Int /\ b[t] \in Int /\ c[t] \in Int /\ d[t] \in Int
      BY <1>1
    <2> QED BY <1>5, <2>1
  <1>6. ASSUME NEW r \in S, NEW s \in S, r # s
        PROVE  Less(r, s) \/ Less(s, r)
    <2>1. /\ a[r] \in Int /\ b[r] \in Int /\ c[r] \in Int /\ d[r] \in Int
          /\ a[s] \in Int /\ b[s] \in Int /\ c[s] \in Int /\ d[s] \in Int
      BY <1>1
    <2>2. a[r] # a[s] \/ b[r] # b[s] \/ c[r] # c[s] \/ d[r] # d[s]
      BY <1>3, <1>6
    <2> QED BY <2>1, <2>2
  <1> HIDE DEF Less
  <1> QED BY <1>2, <1>4, <1>5, <1>6 DEF StrictOrder

\* Rankings of one entry per id.
Once(s) == \A i, j \in 1..Len(s) : s[i].id = s[j].id => i = j
Apart(s, t) == \A i \in 1..Len(s), j \in 1..Len(t) : s[i].id # t[j].id

Ranking(ranking, pts) ==
    /\ ranking.selected \in Seq(RankedIn(pts)) /\ ranking.rejected \in Seq(RankedIn(pts))
    /\ Once(ranking.selected) /\ Once(ranking.rejected)
    /\ Apart(ranking.selected, ranking.rejected)

\* All that was found is selected, or as much as asked for.
Served(ranking, found, topK) ==
    \/ Len(ranking.selected) = topK
    \/ \A f \in found : \E i \in 1..Len(ranking.selected) : ranking.selected[i].id = f.chunk.id

LEMMA Reranked ==
    ASSUME NEW pts, Chunks(pts), NEW found \in SUBSET FoundIn(pts), IsFiniteSet(found),
           NEW query, IsFiniteSet(query), NEW topK \in Nat
    PROVE  /\ Ranking(Rerank(found, query, topK), pts)
           /\ Served(Rerank(found, query, topK), found, topK)
  <1> DEFINE all == {RankChunk(f, found, query) : f \in found}
             best == {r \in all : \A s \in all : s.id = r.id => ~RankBefore(s, r)}
             R == RankFirst(best)
             ranked(i) == CHOOSE x \in best : Cardinality({y \in best : RankBefore(y, x)}) = i - 1
             order == [i \in 1..Cardinality(best) |-> ranked(i)]
             selected == FirstN(order, topK)
             rejected == SubSeq(order, topK + 1, Len(order))
             ranking == [selected |-> selected, rejected |-> rejected]
             n == Cardinality(best)
  <1>1. Rerank(found, query, topK) = ranking
    BY DEF Rerank, Ordered
  <1>2. all \in SUBSET RankedIn(pts)
    BY BoostTyped
  <1>3. IsFiniteSet(all)
    <2> DEFINE rank == [f \in found |-> RankChunk(f, found, query)]
    <2>1. DOMAIN rank = found /\ all = {rank[f] : f \in found}
      OBVIOUS
    <2> HIDE DEF rank, all
    <2> QED BY <2>1, ImageFinite
  <1>4. \A f \in found : \E r \in all : r.id = f.chunk.id
    <2> TAKE f \in found
    <2>1. RankChunk(f, found, query).id = f.chunk.id
      BY DEF RankChunk
    <2>2. RankChunk(f, found, query) \in all
      OBVIOUS
    <2> HIDE DEF all
    <2> QED BY <2>1, <2>2
  <1> HIDE DEF all
  <1>5. best \in SUBSET RankedIn(pts) /\ IsFiniteSet(best) /\ best \subseteq all
    BY <1>2, <1>3, FS_Subset
  <1>6. \A r, s \in best : r.id = s.id => r = s
    <2>1. SUFFICES ASSUME NEW r \in best, NEW s \in best, r.id = s.id, r # s PROVE FALSE
      OBVIOUS
    <2>2. ~RankBefore(r, s) /\ ~RankBefore(s, r)
      BY <2>1
    <2>3. StrictOrder(best, R)
      <3> HIDE DEF best
      <3> QED BY <1>5, RankOrders
    <2>4. <<r, s>> \in R \/ <<s, r>> \in R
      <3> HIDE DEF best, R
      <3> QED BY <2>1, <2>3 DEF StrictOrder
    <2> HIDE DEF best
    <2> QED BY <2>2, <2>4 DEF RankFirst
  <1>7. ASSUME NEW r \in all
        PROVE  \E s \in best : s.id = r.id
    <2> DEFINE C == {s \in all : s.id = r.id}
               Q == RankFirst(C)
    <2>1. C \in SUBSET RankedIn(pts) /\ IsFiniteSet(C) /\ r \in C
      <3>1. C \in SUBSET all
        OBVIOUS
      <3> HIDE DEF C
      <3>2. IsFiniteSet(C) /\ C \in SUBSET RankedIn(pts)
        BY <1>2, <1>3, <3>1, FS_Subset
      <3> QED BY <3>2 DEF C
    <2>2. \A s \in C : s \in all /\ s.id = r.id
      OBVIOUS
    <2>3. \A s \in all : s.id = r.id => s \in C
      OBVIOUS
    <2> HIDE DEF C
    <2>4. StrictOrder(C, Q)
      BY <2>1, RankOrders
    <2>5. 1 \in 1..Cardinality(C)
      <3>1. Cardinality(C) \in Nat /\ Cardinality(C) # 0
        BY <2>1, FS_CardinalityType, FS_EmptySet
      <3> QED BY <3>1
    <2> DEFINE one == 1
    <2>6. one \in 1..Cardinality(C) /\ one - 1 = 0
      BY <2>5
    <2> HIDE DEF one, Q
    <2>7. PICK s \in C : Cardinality(Below(C, Q, s)) = one - 1
      BY <2>1, <2>4, <2>6, RanksTaken
    <2>8. Below(C, Q, s) = {}
      <3>1. IsFiniteSet(Below(C, Q, s))
        <4>1. Below(C, Q, s) \in SUBSET C
          BY DEF Below
        <4> QED BY <2>1, <4>1, FS_Subset
      <3> QED BY <2>6, <2>7, <3>1, FS_EmptySet
    <2>9. \A t \in C : ~RankBefore(t, s)
      BY <2>8 DEF Below, Q, RankFirst
    <2>10. s \in best
      BY <2>2, <2>3, <2>9
    <2> QED BY <2>2, <2>10
  <1>8. \A f \in found : \E s \in best : s.id = f.chunk.id
    BY <1>4, <1>7
  <1> HIDE DEF best
  <1>9. StrictOrder(best, R)
    BY <1>5, RankOrders
  <1>10. \A x \in best : {y \in best : RankBefore(y, x)} = Below(best, R, x)
    BY DEF Below, RankFirst
  <1> HIDE DEF R
  <1>11. ASSUME NEW i \in 1..Cardinality(best)
         PROVE  order[i] \in best /\ Cardinality(Below(best, R, order[i])) = i - 1
    <2>1. \E x \in best : Cardinality(Below(best, R, x)) = i - 1
      BY <1>5, <1>9, RanksTaken
    <2>2. \E x \in best : Cardinality({y \in best : RankBefore(y, x)}) = i - 1
      BY <1>10, <2>1
    <2>3. ranked(i) \in best /\ Cardinality({y \in best : RankBefore(y, ranked(i))}) = i - 1
      BY <2>2
    <2> HIDE DEF ranked
    <2>4. order[i] = ranked(i)
      OBVIOUS
    <2> HIDE DEF order
    <2> QED BY <1>10, <2>3, <2>4
  <1> HIDE DEF ranked
  <1>12. order = [i \in 1..Cardinality(best) |-> order[i]]
    OBVIOUS
  <1> HIDE DEF order
  <1>13. Lists(order, best, R)
    BY <1>5, <1>9, <1>11, <1>12, ListedByRank
  <1>14. /\ n \in Nat /\ order \in Seq(best) /\ Len(order) = n /\ \A i \in 1..n : order[i] \in best
         /\ \A i, j \in 1..n : order[i] = order[j] => i = j
         /\ \A x \in best : \E i \in 1..n : order[i] = x
    BY <1>5, <1>13, FS_CardinalityType DEF Lists
  <1>15. \A i, j \in 1..n : order[i].id = order[j].id => i = j
    BY <1>6, <1>14
  <1> HIDE DEF n
  <1>16. order \in Seq(RankedIn(pts))
    <2>1. DOMAIN order = 1..n /\ order \in [1..n -> RankedIn(pts)]
      BY <1>5, <1>14, LenProperties, SeqDef
    <2> QED BY <1>14, <2>1, SeqDef
  <1>17. /\ selected \in Seq(RankedIn(pts)) /\ Len(selected) = IF topK <= n THEN topK ELSE n
         /\ \A i \in 1..Len(selected) : selected[i] = order[i]
         /\ Len(selected) \in Nat /\ Len(selected) <= topK /\ Len(selected) <= n
    <2>1. /\ selected \in Seq(RankedIn(pts))
          /\ Len(selected) = IF topK <= Len(order) THEN topK ELSE Len(order)
          /\ \A i \in 1..Len(selected) : selected[i] = order[i]
          /\ Len(selected) \in Nat /\ Len(selected) <= topK /\ Len(selected) <= Len(order)
      BY <1>16, FirstNListed
    <2> HIDE DEF selected
    <2> QED BY <1>14, <2>1
  <1>18. /\ rejected \in Seq(RankedIn(pts))
         /\ \A i \in 1..Len(rejected) : rejected[i] = order[topK + i] /\ topK + i \in 1..n
         /\ Len(rejected) \in Nat
    <2>1. \A i \in (topK + 1)..n : order[i] \in RankedIn(pts)
      BY <1>5, <1>14
    <2>2. topK + 1 \in Int /\ n \in Int /\ rejected = SubSeq(order, topK + 1, n)
      BY <1>14
    <2> HIDE DEF rejected
    <2>3. /\ rejected \in Seq(RankedIn(pts))
          /\ Len(rejected) = IF topK + 1 <= n THEN n - (topK + 1) + 1 ELSE 0
          /\ \A i \in 1..(n - (topK + 1) + 1) : rejected[i] = order[(topK + 1) + i - 1]
      BY <2>1, <2>2, SubSeqProperties
    <2>4. ASSUME NEW i \in 1..Len(rejected)
          PROVE  rejected[i] = order[topK + i] /\ topK + i \in 1..n
      <3>1. i \in 1..(n - (topK + 1) + 1) /\ (topK + 1) + i - 1 = topK + i /\ topK + i \in 1..n
        <4> DEFINE l == Len(rejected)
        <4>1. n \in Nat /\ topK \in Nat /\ i \in 1..l /\ l = IF topK + 1 <= n THEN n - (topK + 1) + 1 ELSE 0
          BY <1>14, <2>3
        <4> HIDE DEF l
        <4>2. topK + 1 <= n /\ i \in Nat /\ 1 <= i /\ i <= n - (topK + 1) + 1
          BY <4>1
        <4> QED BY <4>1, <4>2
      <3> QED BY <2>3, <3>1
    <2> QED BY <2>3, <2>4, LenProperties
  <1> HIDE DEF selected, rejected
  <1>19. \A i \in 1..Len(selected) : i \in 1..n /\ i <= topK
    BY <1>14, <1>17
  <1>20. Once(selected)
    BY <1>15, <1>17, <1>19 DEF Once
  <1>21. Once(rejected)
    <2>1. SUFFICES ASSUME NEW i \in 1..Len(rejected), NEW j \in 1..Len(rejected),
                          rejected[i].id = rejected[j].id
                   PROVE  i = j
      BY DEF Once
    <2>2. /\ topK + i \in 1..n /\ topK + j \in 1..n
          /\ order[topK + i].id = order[topK + j].id
      BY <1>18, <2>1
    <2>3. topK + i = topK + j
      BY <1>15, <2>2
    <2>4. i \in Int /\ j \in Int
      OBVIOUS
    <2> QED BY <2>3, <2>4
  <1>22. Apart(selected, rejected)
    <2>1. SUFFICES ASSUME NEW i \in 1..Len(selected), NEW j \in 1..Len(rejected),
                          selected[i].id = rejected[j].id
                   PROVE  FALSE
      BY DEF Apart
    <2>2. i = topK + j
      <3>1. i \in 1..n /\ selected[i] = order[i]
        BY <1>17, <1>19
      <3>2. topK + j \in 1..n /\ rejected[j] = order[topK + j]
        BY <1>18
      <3> DEFINE k == topK + j
      <3>3. k \in 1..n /\ order[i].id = order[k].id
        BY <2>1, <3>1, <3>2
      <3> HIDE DEF k
      <3>4. i = k
        BY <1>15, <3>1, <3>3
      <3> QED BY <3>4 DEF k
    <2>3. i <= topK
      BY <1>19
    <2> QED BY <2>2, <2>3
  <1>23. ranking.selected = selected /\ ranking.rejected = rejected
    OBVIOUS
  <1> HIDE DEF ranking
  <1>24. Ranking(ranking, pts)
    BY <1>17, <1>18, <1>20, <1>21, <1>22, <1>23 DEF Ranking
  <1>25. Served(ranking, found, topK)
    <2>1. CASE topK <= n
      BY <1>17, <1>23, <2>1 DEF Served
    <2>2. CASE ~(topK <= n)
      <3>1. Len(selected) = n
        BY <1>17, <2>2
      <3>2. ASSUME NEW f \in found
            PROVE  \E i \in 1..Len(selected) : selected[i].id = f.chunk.id
        <4>1. PICK s \in best : s.id = f.chunk.id
          BY <1>8
        <4>2. PICK i \in 1..n : order[i] = s
          BY <1>14
        <4> QED BY <1>17, <3>1, <4>1, <4>2
      <3> QED BY <1>23, <3>2 DEF Served
    <2> QED BY <2>1, <2>2
  <1> QED BY <1>1, <1>24, <1>25

-----------------------------------------------------------------------------
(* The slice. *)

\* One id stands for one text, in the rows and in the index.
SameText(mems, pts) == \A m \in mems, p \in pts : m.id = p.id => m.text = p.text

\* What a prompt is filled from: found chunks and members of the slice.
Entries(mems, pts) ==
    {r \in [id : Nat, chunk : pts \cup {MemoryChunk(m) : m \in LexicalPool(mems)}, score : Int,
            guaranteed : BOOLEAN, boost : Int] :
        r.id = r.chunk.id /\ r.chunk.vis = "player"}

Mixed(ranking, mems, pts) ==
    /\ ranking.selected \in Seq(Entries(mems, pts)) /\ ranking.rejected \in Seq(Entries(mems, pts))
    /\ Once(ranking.selected) /\ Once(ranking.rejected)
    /\ Apart(ranking.selected, ranking.rejected)

LEMMA EntryTyped ==
    ASSUME NEW mems, NEW pts, NEW r \in Entries(mems, pts)
    PROVE  /\ r.id \in Nat /\ r.score \in Int /\ r.boost \in Int /\ r.guaranteed \in BOOLEAN
           /\ r.chunk.vis = "player" /\ r.id = r.chunk.id
           /\ \/ r.chunk \in pts
              \/ \E m \in LexicalPool(mems) : r.id = m.id /\ r.chunk.text = m.text
           /\ r = [id |-> r.id, chunk |-> r.chunk, score |-> r.score,
                   guaranteed |-> r.guaranteed, boost |-> r.boost]
  <1> DEFINE C == pts \cup {MemoryChunk(m) : m \in LexicalPool(mems)}
  <1>1. /\ r \in [id : Nat, chunk : C, score : Int, guaranteed : BOOLEAN, boost : Int]
        /\ r.id = r.chunk.id /\ r.chunk.vis = "player"
    BY DEF Entries
  <1>2. r.chunk \in C
    BY <1>1
  <1>3. ASSUME r.chunk \notin pts
        PROVE  \E m \in LexicalPool(mems) : r.id = m.id /\ r.chunk.text = m.text
    <2>1. PICK m \in LexicalPool(mems) : r.chunk = MemoryChunk(m)
      BY <1>2, <1>3
    <2>2. MemoryChunk(m).id = m.id /\ MemoryChunk(m).text = m.text
      BY DEF MemoryChunk
    <2> QED BY <1>1, <2>1, <2>2
  <1> HIDE DEF C
  <1> QED BY <1>1, <1>3

\* An entry is of the index or of the memories.
Backed(r, mems, pts) ==
    /\ r.id = r.chunk.id /\ r.chunk.vis = "player"
    /\ \/ r.chunk \in pts
       \/ \E m \in LexicalPool(mems) : r.id = m.id /\ r.chunk.text = m.text

LEMMA EntryBacked ==
    ASSUME NEW mems, NEW pts, NEW r \in Entries(mems, pts)
    PROVE  Backed(r, mems, pts)
  BY EntryTyped DEF Backed

LEMMA SeqWidens ==
    ASSUME NEW S, NEW T, S \subseteq T, NEW s \in Seq(S)
    PROVE  s \in Seq(T)
  <1>1. DOMAIN s = 1..Len(s) /\ Len(s) \in Nat /\ \A i \in 1..Len(s) : s[i] \in S
    BY LenProperties, ElementOfSeq
  <1>2. s \in [1..Len(s) -> T]
    <2>1. s \in [1..Len(s) -> S]
      BY <1>1, SeqDef
    <2> QED BY <2>1
  <1> QED BY <1>1, <1>2, SeqDef

\* A ranking is one of found chunks only.
LEMMA RankingMixed ==
    ASSUME NEW mems, NEW pts, NEW ranking, Ranking(ranking, pts)
    PROVE  Mixed(ranking, mems, pts)
  <1>1. RankedIn(pts) \subseteq Entries(mems, pts)
    BY DEF RankedIn, Entries
  <1>2. /\ ranking.selected \in Seq(RankedIn(pts)) /\ ranking.rejected \in Seq(RankedIn(pts))
        /\ Once(ranking.selected) /\ Once(ranking.rejected)
        /\ Apart(ranking.selected, ranking.rejected)
    BY DEF Ranking
  <1>3. ranking.selected \in Seq(Entries(mems, pts))
    BY <1>1, <1>2, SeqWidens
  <1>4. ranking.rejected \in Seq(Entries(mems, pts))
    BY <1>1, <1>2, SeqWidens
  <1> QED BY <1>2, <1>3, <1>4 DEF Mixed

\* A member of the slice: the entry it has, or one of its own, with its text.
Guaranteed(r, m) == r.id = m.id /\ r.chunk.text = m.text /\ r.guaranteed = TRUE

LEMMA GuaranteeFound ==
    ASSUME NEW mems, Rows(mems), NEW pts, SameText(mems, pts),
           NEW m \in LexicalPool(mems), NEW s \in Seq(Entries(mems, pts))
    PROVE  Guarantee(m, s) \in Entries(mems, pts) /\ Guaranteed(Guarantee(m, s), m)
  <1> DEFINE E == Entries(mems, pts)
  <1>1. m \in mems /\ m \in Memory /\ m.vis = "player"
    BY DEF LexicalPool, Rows
  <1>2. DOMAIN s = 1..Len(s) /\ Len(s) \in Nat /\ \A i \in 1..Len(s) : s[i] \in E
    BY LenProperties, ElementOfSeq
  <1>3. CASE m.id \in Ids(s)
    <2> DEFINE I == {i \in 1..Len(s) : s[i].id = m.id}
               i == SelectInSeq(s, LAMBDA r : r.id = m.id)
               r == s[i]
               g == [r EXCEPT !.guaranteed = TRUE]
    <2>1. Guarantee(m, s) = g
      BY <1>3 DEF Guarantee
    <2>2. I \in SUBSET Nat /\ I # {}
      <3>1. \E j \in 1..Len(s) : s[j].id = m.id
        BY <1>2, <1>3 DEF Ids
      <3> QED BY <3>1
    <2>3. i = Min(I)
      BY <2>2 DEF SelectInSeq
    <2>4. i \in I
      <3> HIDE DEF I, i
      <3> QED BY <2>2, <2>3, LeastExists
    <2> HIDE DEF i
    <2>5. r \in E /\ r.id = m.id
      BY <1>2, <2>4
    <2> HIDE DEF r
    <2>6. /\ r.id \in Nat /\ r.score \in Int /\ r.boost \in Int /\ r.chunk.vis = "player"
          /\ r.id = r.chunk.id
          /\ r = [id |-> r.id, chunk |-> r.chunk, score |-> r.score,
                  guaranteed |-> r.guaranteed, boost |-> r.boost]
      BY <2>5, EntryTyped
    <2>7. r.chunk.text = m.text
      <3>1. CASE r.chunk \in pts
        BY <1>1, <2>5, <2>6, <3>1 DEF SameText
      <3>2. CASE \E n \in LexicalPool(mems) : r.id = n.id /\ r.chunk.text = n.text
        <4>1. PICK n \in LexicalPool(mems) : r.id = n.id /\ r.chunk.text = n.text
          BY <3>2
        <4>2. n \in mems
          BY DEF LexicalPool
        <4>3. n = m
          BY <1>1, <2>5, <4>1, <4>2 DEF Rows
        <4> QED BY <4>1, <4>3
      <3>3. \/ r.chunk \in pts
            \/ \E n \in LexicalPool(mems) : r.id = n.id /\ r.chunk.text = n.text
        BY <2>5, EntryTyped
      <3> QED BY <3>1, <3>2, <3>3
    <2> DEFINE C == pts \cup {MemoryChunk(n) : n \in LexicalPool(mems)}
    <2>8. r.chunk \in C
      BY <2>5 DEF Entries
    <2>9. /\ g \in [id : Nat, chunk : C, score : Int, guaranteed : BOOLEAN, boost : Int]
          /\ g.id = r.id /\ g.chunk = r.chunk /\ g.guaranteed = TRUE
      <3>1. r \in [id : Nat, chunk : C, score : Int, guaranteed : BOOLEAN, boost : Int]
        BY <2>5 DEF Entries
      <3> HIDE DEF C
      <3> QED BY <3>1
    <2> HIDE DEF g, C
    <2>10. g \in Entries(mems, pts)
      BY <2>6, <2>8, <2>9 DEF Entries, C
    <2>11. Guaranteed(g, m)
      BY <2>5, <2>7, <2>9 DEF Guaranteed
    <2> QED BY <2>1, <2>10, <2>11
  <1>4. CASE m.id \notin Ids(s)
    <2> DEFINE C == pts \cup {MemoryChunk(n) : n \in LexicalPool(mems)}
               c == MemoryChunk(m)
               g == [id |-> m.id, chunk |-> c, score |-> 0, boost |-> 0, guaranteed |-> TRUE]
    <2>1. Guarantee(m, s) = g
      BY <1>4 DEF Guarantee, Injected
    <2>2. c \in C
      OBVIOUS
    <2>3. c.id = m.id /\ c.text = m.text /\ c.vis = m.vis
      BY DEF MemoryChunk
    <2>4. m.id \in Nat
      BY <1>1, MemoryTyped
    <2> HIDE DEF C, c
    <2>5. /\ g.id = m.id /\ g.chunk = c /\ g.guaranteed = TRUE
          /\ g \in [id : Nat, chunk : C, score : Int, guaranteed : BOOLEAN, boost : Int]
      BY <2>2, <2>4
    <2> HIDE DEF g
    <2>6. g \in Entries(mems, pts)
      BY <1>1, <2>3, <2>5 DEF Entries, C
    <2>7. Guaranteed(g, m)
      BY <2>3, <2>5 DEF Guaranteed
    <2> QED BY <2>1, <2>6, <2>7
  <1> QED BY <1>3, <1>4

\* The entries that are not members keep their order, and each its place in it.
LEMMA OthersFound ==
    ASSUME NEW T, NEW s \in Seq(T), Once(s), NEW members
    PROVE  /\ Others(s, members) \in Seq(T) /\ Once(Others(s, members))
           /\ \A k \in 1..Len(Others(s, members)) :
                 /\ Others(s, members)[k].id \notin Ids(members)
                 /\ \E i \in 1..Len(s) : Others(s, members)[k] = s[i]
           /\ \A i \in 1..Len(s) : s[i].id \notin Ids(members) =>
                 \E k \in 1..Len(Others(s, members)) : Others(s, members)[k] = s[i]
  <1> DEFINE I == {i \in DOMAIN s : s[i].id \notin Ids(members)}
             o == At(s, I)
             n == Cardinality(I)
  <1>1. Others(s, members) = o
    BY DEF Others
  <1>2. DOMAIN s = 1..Len(s) /\ Len(s) \in Nat
    BY LenProperties
  <1>3. /\ I \in SUBSET DOMAIN s /\ \A i \in I : s[i].id \notin Ids(members)
        /\ \A i \in 1..Len(s) : s[i].id \notin Ids(members) => i \in I
    BY <1>2
  <1> HIDE DEF I
  <1>4. PICK order : /\ Lists(order, I, Earlier(I))
                     /\ o = [k \in 1..n |-> s[order[k]]]
                     /\ o \in Seq(T) /\ n \in Nat /\ Len(o) = n
    BY <1>3, AtListed
  <1>5. \A k \in 1..n : order[k] \in I /\ o[k] = s[order[k]]
    BY <1>4 DEF Lists
  <1>6. /\ \A k, l \in 1..n : order[k] = order[l] => k = l
        /\ \A i \in I : \E k \in 1..n : order[k] = i
    BY <1>4 DEF Lists
  <1> HIDE DEF o, n
  <1>7. ASSUME NEW k \in 1..n, NEW l \in 1..n, o[k].id = o[l].id
        PROVE  k = l
    <2>1. /\ order[k] \in 1..Len(s) /\ order[l] \in 1..Len(s)
          /\ s[order[k]].id = s[order[l]].id
      BY <1>2, <1>3, <1>5, <1>7
    <2>2. order[k] = order[l]
      BY <2>1 DEF Once
    <2> QED BY <1>6, <2>2
  <1>8. ASSUME NEW k \in 1..n
        PROVE  o[k].id \notin Ids(members) /\ \E i \in 1..Len(s) : o[k] = s[i]
    BY <1>2, <1>3, <1>5
  <1>9. ASSUME NEW i \in 1..Len(s), s[i].id \notin Ids(members)
        PROVE  \E k \in 1..n : o[k] = s[i]
    <2>1. PICK k \in 1..n : order[k] = i
      BY <1>3, <1>6, <1>9
    <2> QED BY <1>5, <2>1
  <1> QED BY <1>1, <1>4, <1>7, <1>8, <1>9 DEF Once

LEMMA JoinedOnce ==
    ASSUME NEW T, NEW s \in Seq(T), NEW t \in Seq(T), Once(s), Once(t), Apart(s, t)
    PROVE  Once(s \o t)
  <1> DEFINE u == s \o t
  <1>1. \A k \in 1..Len(u) :
           \/ k \in 1..Len(s) /\ u[k] = s[k]
           \/ \E j \in 1..Len(t) : k = Len(s) + j /\ u[k] = t[j]
    BY ConcatParts
  <1> HIDE DEF u
  <1>2. SUFFICES ASSUME NEW i \in 1..Len(u), NEW j \in 1..Len(u), u[i].id = u[j].id
                 PROVE  i = j
    BY DEF Once, u
  <1>3. CASE i \in 1..Len(s) /\ u[i] = s[i] /\ j \in 1..Len(s) /\ u[j] = s[j]
    BY <1>2, <1>3 DEF Once
  <1>4. CASE /\ i \in 1..Len(s) /\ u[i] = s[i]
             /\ \E l \in 1..Len(t) : j = Len(s) + l /\ u[j] = t[l]
    BY <1>2, <1>4 DEF Apart
  <1>5. CASE /\ j \in 1..Len(s) /\ u[j] = s[j]
             /\ \E k \in 1..Len(t) : i = Len(s) + k /\ u[i] = t[k]
    BY <1>2, <1>5 DEF Apart
  <1>6. CASE /\ \E k \in 1..Len(t) : i = Len(s) + k /\ u[i] = t[k]
             /\ \E l \in 1..Len(t) : j = Len(s) + l /\ u[j] = t[l]
    BY <1>2, <1>6 DEF Once
  <1> QED BY <1>1, <1>3, <1>4, <1>5, <1>6

\* A score counts in full, and that of a member for SliceConfidence at least.
Contributed(r) == IF r.guaranteed THEN Max({r.score, SliceConfidence}) ELSE r.score

LEMMA ConfidenceFound ==
    ASSUME NEW mems, NEW pts, NEW s \in Seq(Entries(mems, pts)),
           NEW i \in 1..Len(s), s[i].guaranteed = TRUE
    PROVE  Confidence(s) >= SliceConfidence
  <1> DEFINE visible == {r \in ToSet(s) : r.chunk.vis = "player"}
             all == {Contributed(r) : r \in visible}
  <1>1. DOMAIN s = 1..Len(s) /\ Len(s) \in Nat /\ \A k \in 1..Len(s) : s[k] \in Entries(mems, pts)
    BY LenProperties, ElementOfSeq
  <1>2. ToSet(s) = {s[k] : k \in 1..Len(s)}
    BY <1>1 DEF ToSet
  <1>3. visible = ToSet(s)
    BY <1>1, <1>2, EntryTyped
  <1>4. SliceConfidence \in Int
    BY DEF SliceConfidence
  <1>5. ASSUME NEW r \in visible
        PROVE  /\ Contributed(r) \in Int
               /\ r.guaranteed = TRUE => Contributed(r) >= SliceConfidence
    <2>1. r \in Entries(mems, pts)
      BY <1>1, <1>2, <1>3
    <2>2. r.score \in Int
      BY <2>1, EntryTyped
    <2>3. Max({r.score, SliceConfidence}) \in Int /\ Max({r.score, SliceConfidence}) >= SliceConfidence
      BY <1>4, <2>2, GreaterOfTwo
    <2> QED BY <2>2, <2>3 DEF Contributed
  <1>6. s[i] \in visible
    BY <1>2, <1>3
  <1>7. Confidence(s) = IF visible = {} THEN 0 ELSE Max(all)
    BY DEF Confidence, Contributed
  <1>8. IsFiniteSet(visible)
    <2> DEFINE N == 1..Len(s)
               f == [k \in N |-> s[k]]
    <2>1. IsFiniteSet(N) /\ DOMAIN f = N
      BY <1>1, FS_Interval
    <2>2. visible = {f[k] : k \in N}
      BY <1>2, <1>3
    <2> HIDE DEF visible, f, N
    <2> QED BY <2>1, <2>2, ImageFinite
  <1> HIDE DEF visible
  <1>9. all \in SUBSET Int /\ IsFiniteSet(all)
    <2> DEFINE f == [r \in visible |-> Contributed(r)]
    <2>1. DOMAIN f = visible /\ all = {f[r] : r \in visible}
      OBVIOUS
    <2> HIDE DEF f
    <2>2. IsFiniteSet({f[r] : r \in visible})
      BY <1>8, <2>1, ImageFinite
    <2> QED BY <1>5, <2>1, <2>2
  <1>10. Contributed(s[i]) \in all /\ Contributed(s[i]) >= SliceConfidence
    BY <1>5, <1>6
  <1> HIDE DEF all
  <1>11. Max(all) >= Contributed(s[i]) /\ Max(all) \in Int
    BY <1>9, <1>10, GreatestExists
  <1>12. Max(all) >= SliceConfidence
    <2> DEFINE a == Max(all)
               b == Contributed(s[i])
    <2>1. a \in Int /\ b \in Int /\ a >= b /\ b >= SliceConfidence
      BY <1>9, <1>10, <1>11
    <2> HIDE DEF a, b
    <2> QED BY <1>4, <2>1 DEF a
  <1> QED BY <1>6, <1>7, <1>12

\* The members of the slice come first, and count.
MembersFirst(selected, eligible, confidence) ==
    /\ Len(eligible) <= Len(selected)
    /\ \A i \in 1..Len(eligible) : selected[i].chunk.text = eligible[i].memory.text
    /\ Len(eligible) > 0 => confidence >= SliceConfidence

\* What holds of the slice, whatever is ranked below it.
LEMMA SliceFound ==
    ASSUME NEW mems, Rows(mems), NEW pts, SameText(mems, pts),
           NEW ranking, Mixed(ranking, mems, pts),
           NEW hits, Hits(hits, mems), NEW quota \in Nat,
           NEW sliced, sliced = ApplySlice(ranking, hits, quota)
    PROVE  /\ Mixed(sliced, mems, pts)
           /\ MembersFirst(sliced.selected, EligibleHits(hits, quota),
                           Confidence(sliced.selected))
           /\ Ids(ranking.selected) \subseteq Ids(sliced.selected)
  <1> DEFINE E == Entries(mems, pts)
             eligible == EligibleHits(hits, quota)
             members == Members(hits, quota)
             first == Guarantees(ranking, members)
             rest == Others(ranking.selected, members)
             below == Others(ranking.rejected, members)
             n == Len(members)
  <1>1. sliced = [selected |-> first \o rest, rejected |-> below]
    BY DEF ApplySlice
  <1>2. sliced.selected = first \o rest /\ sliced.rejected = below
    BY <1>1
  <1>3. /\ Membership(members, mems, quota) /\ n = Len(eligible)
        /\ \A i \in 1..n : members[i] = eligible[i].memory
    BY MembersFound
  <1> HIDE DEF members, eligible
  <1>4. /\ n \in Nat /\ DOMAIN members = 1..n /\ \A i \in 1..n : members[i] \in LexicalPool(mems)
        /\ \A i, j \in 1..n : members[i].id = members[j].id => i = j
    BY <1>3, LenProperties, ElementOfSeq DEF Membership
  <1>5. /\ ranking.selected \in Seq(E) /\ ranking.rejected \in Seq(E)
        /\ Once(ranking.selected) /\ Once(ranking.rejected)
        /\ Apart(ranking.selected, ranking.rejected)
    BY DEF Mixed
  <1>6. ASSUME NEW i \in 1..n
        PROVE  Guarantee(members[i], ranking.selected) \in E
               /\ Guaranteed(Guarantee(members[i], ranking.selected), members[i])
    <2>1. members[i] \in LexicalPool(mems)
      BY <1>4
    <2> QED BY <1>5, <2>1, GuaranteeFound
  <1>7. /\ first \in [1..n -> E]
        /\ \A i \in 1..n : Guaranteed(first[i], members[i])
    <2>1. first = [i \in 1..n |-> Guarantee(members[i], ranking.selected)]
      BY <1>4 DEF Guarantees
    <2> HIDE DEF first, n, E
    <2> QED BY <1>6, <2>1
  <1> HIDE DEF first
  <1>8. first \in Seq(E) /\ Len(first) = n
    <2> HIDE DEF n, E
    <2> QED BY <1>4, <1>7, SeqDef, LenProperties
  <1>9. \A i \in 1..n : /\ first[i].id = members[i].id /\ first[i].id \in Ids(members)
                        /\ first[i].chunk.text = members[i].text /\ first[i].guaranteed = TRUE
    BY <1>4, <1>7 DEF Guaranteed, Ids
  <1>10. \A i \in Ids(members) : \E k \in 1..n : first[k].id = i
    BY <1>4, <1>9 DEF Ids
  <1>11. /\ rest \in Seq(E) /\ Once(rest)
         /\ \A k \in 1..Len(rest) : /\ rest[k].id \notin Ids(members)
                                    /\ \E i \in 1..Len(ranking.selected) : rest[k] = ranking.selected[i]
         /\ \A i \in 1..Len(ranking.selected) : ranking.selected[i].id \notin Ids(members) =>
               \E k \in 1..Len(rest) : rest[k] = ranking.selected[i]
    <2> DEFINE s == ranking.selected
    <2>1. s \in Seq(E) /\ Once(s)
      BY <1>5
    <2> HIDE DEF s, E
    <2>2. /\ Others(s, members) \in Seq(E) /\ Once(Others(s, members))
          /\ \A k \in 1..Len(Others(s, members)) :
                /\ Others(s, members)[k].id \notin Ids(members)
                /\ \E i \in 1..Len(s) : Others(s, members)[k] = s[i]
          /\ \A i \in 1..Len(s) : s[i].id \notin Ids(members) =>
                \E k \in 1..Len(Others(s, members)) : Others(s, members)[k] = s[i]
      BY <2>1, OthersFound
    <2> QED BY <2>2 DEF s
  <1>12. /\ below \in Seq(E) /\ Once(below)
         /\ \A k \in 1..Len(below) : /\ below[k].id \notin Ids(members)
                                     /\ \E i \in 1..Len(ranking.rejected) : below[k] = ranking.rejected[i]
    <2> DEFINE s == ranking.rejected
    <2>1. s \in Seq(E) /\ Once(s)
      BY <1>5
    <2> HIDE DEF s, E
    <2>2. /\ Others(s, members) \in Seq(E) /\ Once(Others(s, members))
          /\ \A k \in 1..Len(Others(s, members)) :
                /\ Others(s, members)[k].id \notin Ids(members)
                /\ \E i \in 1..Len(s) : Others(s, members)[k] = s[i]
      BY <2>1, OthersFound
    <2> QED BY <2>2 DEF s
  <1> HIDE DEF rest, below, n, E
  <1>13. Once(first)
    BY <1>4, <1>8, <1>9 DEF Once
  <1>14. Apart(first, rest)
    BY <1>8, <1>9, <1>11 DEF Apart
  <1> DEFINE all == first \o rest
  <1>15. /\ all \in Seq(E) /\ Len(all) = n + Len(rest)
         /\ \A k \in 1..n : all[k] = first[k]
         /\ \A k \in 1..Len(rest) : all[n + k] = rest[k]
         /\ \A k \in 1..Len(all) :
               \/ k \in 1..n /\ all[k] = first[k]
               \/ \E j \in 1..Len(rest) : k = n + j /\ all[k] = rest[j]
    <2>1. first \in Seq(E) /\ rest \in Seq(E)
      BY <1>8, <1>11
    <2>2. /\ all \in Seq(E) /\ Len(all) = Len(first) + Len(rest)
          /\ \A k \in 1..Len(first) : all[k] = first[k]
          /\ \A k \in 1..Len(rest) : all[Len(first) + k] = rest[k]
          /\ \A k \in 1..Len(all) :
                \/ k \in 1..Len(first) /\ all[k] = first[k]
                \/ \E j \in 1..Len(rest) : k = Len(first) + j /\ all[k] = rest[j]
      BY <2>1, ConcatParts
    <2> HIDE DEF all
    <2> QED BY <1>8, <2>2
  <1>16. Once(all)
    BY <1>8, <1>11, <1>13, <1>14, JoinedOnce
  <1> HIDE DEF all
  <1>17. Apart(all, below)
    <2>1. SUFFICES ASSUME NEW k \in 1..Len(all), NEW j \in 1..Len(below), all[k].id = below[j].id
                   PROVE  FALSE
      BY DEF Apart
    <2>2. CASE k \in 1..n /\ all[k] = first[k]
      BY <1>9, <1>12, <2>1, <2>2
    <2>3. CASE \E l \in 1..Len(rest) : k = n + l /\ all[k] = rest[l]
      <3>1. PICK l \in 1..Len(rest) : all[k] = rest[l]
        BY <2>3
      <3>2. PICK i \in 1..Len(ranking.selected) : rest[l] = ranking.selected[i]
        BY <1>11
      <3>3. PICK h \in 1..Len(ranking.rejected) : below[j] = ranking.rejected[h]
        BY <1>12
      <3> QED BY <1>5, <2>1, <3>1, <3>2, <3>3 DEF Apart
    <2> QED BY <1>15, <2>2, <2>3
  <1>18. Mixed(sliced, mems, pts)
    BY <1>2, <1>12, <1>15, <1>16, <1>17 DEF Mixed, all, E
  <1>19. DOMAIN all = 1..Len(all) /\ Len(rest) \in Nat
    BY <1>11, <1>15, LenProperties
  <1>20. \A k \in 1..n : k \in 1..Len(all)
    BY <1>4, <1>15, <1>19
  <1>21. MembersFirst(all, eligible, Confidence(all))
    <2>1. Len(eligible) <= Len(all)
      BY <1>3, <1>4, <1>15, <1>19
    <2>2. \A i \in 1..Len(eligible) : all[i].chunk.text = eligible[i].memory.text
      BY <1>3, <1>9, <1>15
    <2>3. ASSUME Len(eligible) > 0
          PROVE  Confidence(all) >= SliceConfidence
      <3> DEFINE one == 1
      <3>1. one \in 1..n
        BY <1>3, <1>4, <2>3
      <3> HIDE DEF one
      <3>2. one \in 1..Len(all) /\ all[one].guaranteed = TRUE
        BY <1>9, <1>15, <1>20, <3>1
      <3>3. all \in Seq(Entries(mems, pts))
        BY <1>15 DEF E
      <3> QED BY <3>2, <3>3, ConfidenceFound
    <2> QED BY <2>1, <2>2, <2>3 DEF MembersFirst
  <1>22. ASSUME NEW i \in Ids(ranking.selected)
         PROVE  i \in Ids(all)
    <2>1. PICK h \in 1..Len(ranking.selected) : ranking.selected[h].id = i
      BY <1>5, LenProperties DEF Ids
    <2>2. CASE i \in Ids(members)
      <3>1. PICK k \in 1..n : first[k].id = i
        BY <1>10, <2>2
      <3> QED BY <1>15, <1>19, <1>20, <3>1 DEF Ids
    <2>3. CASE i \notin Ids(members)
      <3>1. PICK k \in 1..Len(rest) : rest[k] = ranking.selected[h]
        BY <1>11, <2>1, <2>3
      <3>2. n + k \in 1..Len(all)
        BY <1>4, <1>15, <1>19
      <3> QED BY <1>15, <1>19, <2>1, <3>1, <3>2 DEF Ids
    <2> QED BY <2>2, <2>3
  <1> QED BY <1>2, <1>18, <1>21, <1>22 DEF all, eligible

LEMMA ImageSame ==
    ASSUME NEW S, IsFiniteSet(S), NEW f, DOMAIN f = S, \A x, y \in S : f[x] = f[y] => x = y
    PROVE  IsFiniteSet({f[x] : x \in S}) /\ Cardinality({f[x] : x \in S}) = Cardinality(S)
  <1> DEFINE T == {f[x] : x \in S}
             g == [x \in S |-> f[x]]
  <1>1. g \in Surjection(S, T)
    BY DEF Surjection
  <1>2. g \in Injection(S, T)
    <2>1. g \in [S -> T] /\ \A x, y \in S : g[x] = g[y] => x = y
      OBVIOUS
    <2> HIDE DEF g, T
    <2>2. DOMAIN g = S
      BY <2>1
    <2> QED BY <2>1, <2>2 DEF Injection, IsInjective
  <1> HIDE DEF g, T
  <1>3. IsFiniteSet(T) /\ Cardinality(T) = Cardinality(S)
    BY <1>1, <1>2, FS_Surjection
  <1> QED BY <1>3 DEF T

LEMMA IdsCounted ==
    ASSUME NEW T, NEW s \in Seq(T), Once(s)
    PROVE  IsFiniteSet(Ids(s)) /\ Cardinality(Ids(s)) = Len(s)
  <1> DEFINE N == 1..Len(s)
             f == [i \in N |-> s[i].id]
  <1>1. DOMAIN s = 1..Len(s) /\ Len(s) \in Nat
    BY LenProperties
  <1>2. IsFiniteSet(N) /\ Cardinality(N) = Len(s)
    <2>1. 1 \in Int /\ Len(s) \in Int
      BY <1>1
    <2>2. IsFiniteSet(N) /\ Cardinality(N) = IF 1 > Len(s) THEN 0 ELSE Len(s) - 1 + 1
      BY <2>1, FS_Interval
    <2> DEFINE c == Cardinality(N)
    <2> HIDE DEF N, c
    <2>3. c = Len(s)
      BY <1>1, <2>2 DEF c
    <2> QED BY <2>2, <2>3 DEF c
  <1>3. DOMAIN f = N /\ \A i, j \in N : f[i] = f[j] => i = j
    BY DEF Once
  <1>4. Ids(s) = {f[i] : i \in N}
    BY <1>1 DEF Ids
  <1> HIDE DEF f, N
  <1>5. /\ IsFiniteSet({f[i] : i \in N}) /\ Cardinality({f[i] : i \in N}) = Cardinality(N)
    BY <1>2, <1>3, ImageSame
  <1> QED BY <1>2, <1>4, <1>5

\* All the player may know of is selected, or as much as asked for.
ReachableIds(pts) == {p.id : p \in {q \in pts : q.vis = "player"}}
Enough(selected, pts, topK) ==
    LET found == Ids(selected) \cap ReachableIds(pts)
    IN  found = ReachableIds(pts) \/ Cardinality(found) >= topK

LEMMA ReachableFinite ==
    ASSUME NEW pts, Chunks(pts)
    PROVE  IsFiniteSet(ReachableIds(pts))
  <1> DEFINE S == {q \in pts : q.vis = "player"}
             f == [p \in S |-> p.id]
  <1>1. IsFiniteSet(S)
    <2>1. S \in SUBSET pts /\ IsFiniteSet(pts)
      BY DEF Chunks
    <2> HIDE DEF S
    <2> QED BY <2>1, FS_Subset
  <1>2. DOMAIN f = S /\ ReachableIds(pts) = {f[p] : p \in S}
    BY DEF ReachableIds
  <1> HIDE DEF f, S
  <1>3. IsFiniteSet({f[p] : p \in S})
    BY <1>1, <1>2, ImageFinite
  <1> QED BY <1>2, <1>3

\* More of the index selected is still enough.
LEMMA EnoughGrows ==
    ASSUME NEW pts, Chunks(pts), NEW s, NEW t, Ids(s) \subseteq Ids(t), NEW topK \in Nat,
           Enough(s, pts, topK)
    PROVE  Enough(t, pts, topK)
  <1> DEFINE R == ReachableIds(pts)
             a == Ids(s) \cap R
             b == Ids(t) \cap R
  <1>1. IsFiniteSet(R)
    BY ReachableFinite
  <1>2. a = R \/ Cardinality(a) >= topK
    BY DEF Enough
  <1>3. a \subseteq b /\ b \subseteq R
    OBVIOUS
  <1> HIDE DEF R, a, b
  <1>4. CASE a = R
    <2>1. b = R
      BY <1>3, <1>4
    <2> QED BY <2>1 DEF Enough, b, R
  <1>5. CASE Cardinality(a) >= topK
    <2>1. IsFiniteSet(b)
      BY <1>1, <1>3, FS_Subset
    <2>2. Cardinality(a) <= Cardinality(b) /\ IsFiniteSet(a)
      BY <1>3, <2>1, FS_Subset
    <2>3. Cardinality(a) \in Nat /\ Cardinality(b) \in Nat
      BY <2>1, <2>2, FS_CardinalityType
    <2>4. Cardinality(b) >= topK
      BY <1>5, <2>2, <2>3
    <2> QED BY <2>4 DEF Enough, b, R
  <1> QED BY <1>2, <1>4, <1>5

\* A fetch ranks what the index has, and selects enough of it.
LEMMA FetchFound ==
    ASSUME NEW pts, Chunks(pts), NEW nears \in Queries, NEW query, IsFiniteSet(query),
           NEW topK \in Nat,
           NEW ranking, ranking = Rerank(SearchAll(pts, nears, topK), query, topK)
    PROVE  Ranking(ranking, pts) /\ Enough(ranking.selected, pts, topK)
  <1> DEFINE found == SearchAll(pts, nears, topK)
             selected == ranking.selected
             R == ReachableIds(pts)
             got == Ids(selected) \cap R
             limit == topK * Oversample
  <1>1. found \in SUBSET FoundIn(pts) /\ IsFiniteSet(found)
    BY SearchFound
  <1>2. Ranking(ranking, pts) /\ Served(ranking, found, topK)
    <2> HIDE DEF found
    <2>1. /\ Ranking(Rerank(found, query, topK), pts)
          /\ Served(Rerank(found, query, topK), found, topK)
      BY <1>1, Reranked
    <2> QED BY <2>1 DEF found
  <1>3. selected \in Seq(RankedIn(pts)) /\ Once(selected)
    BY <1>2 DEF Ranking
  <1>4. DOMAIN selected = 1..Len(selected) /\ \A i \in 1..Len(selected) : selected[i] \in RankedIn(pts)
    BY <1>3, LenProperties, ElementOfSeq
  <1>5. Ids(selected) \subseteq R
    <2>1. ASSUME NEW i \in 1..Len(selected)
          PROVE  selected[i].id \in R
      <3>1. /\ selected[i].chunk \in pts /\ selected[i].id = selected[i].chunk.id
            /\ selected[i].chunk.vis = "player"
        BY <1>4, RankedTyped
      <3> QED BY <3>1 DEF ReachableIds
    <2> QED BY <1>4, <2>1 DEF Ids
  <1>6. got = Ids(selected)
    BY <1>5
  <1>7. IsFiniteSet(R) /\ IsFiniteSet(Ids(selected)) /\ Cardinality(Ids(selected)) = Len(selected)
    BY <1>3, IdsCounted, ReachableFinite
  <1>8. limit \in Nat /\ limit >= topK
    <2>1. Oversample \in Nat /\ Oversample >= 1
      BY RecallAssumption
    <2> DEFINE one == 1
    <2>2. one \in Nat /\ one = 1
      OBVIOUS
    <2> HIDE DEF one
    <2>3. Oversample * topK >= one * topK
      BY <2>1, <2>2, ProductsGrow
    <2> QED BY <2>1, <2>2, <2>3
  <1> HIDE DEF selected, R, got, limit, found
  <1>9. CASE Len(selected) = topK
    <2>1. Cardinality(got) >= topK
      BY <1>6, <1>7, <1>9
    <2> QED BY <1>2, <2>1 DEF Enough, got, R, selected
  <1>10. CASE \A f \in found : \E i \in 1..Len(selected) : selected[i].id = f.chunk.id
    <2>1. PICK near \in Nearness : near \in nears
      BY DEF Queries
    <2>2. near \in [Texts -> Int]
      BY <2>1, SessionAssumption
    <2> DEFINE N(c) == Nearest(Visible(pts, c), near, limit)
    <2>3. ASSUME NEW c \in DOMAIN CollectionWeight, NEW p \in N(c)
          PROVE  p.id \in Ids(selected)
      <3>1. Hit(p, near) \in found
        <4>1. p \in Nearest(Visible(pts, c), near, topK * Oversample)
          BY <2>3 DEF limit
        <4>2. Hit(p, near) \in Search(pts, c, near, topK * Oversample)
          BY <4>1 DEF Search
        <4>3. found = UNION {Search(pts, e, n, topK * Oversample) :
                                e \in DOMAIN CollectionWeight, n \in nears}
          BY DEF found, SearchAll
        <4> QED BY <2>1, <4>2, <4>3
      <3>2. Hit(p, near).chunk = p
        BY DEF Hit
      <3> QED BY <1>4, <1>10, <3>1, <3>2 DEF Ids
    <2>4. ASSUME NEW c \in DOMAIN CollectionWeight
          PROVE  /\ N(c) \subseteq Visible(pts, c) /\ Separate(Visible(pts, c))
                 /\ N(c) = Visible(pts, c) \/ Cardinality(N(c)) = limit
      <3> DEFINE S == Visible(pts, c)
      <3>1. Separate(S)
        BY VisibleSeparate
      <3> HIDE DEF S
      <3>2. /\ Nearest(S, near, limit) \subseteq S
            /\ Nearest(S, near, limit) = S \/ Cardinality(Nearest(S, near, limit)) = limit
        BY <1>8, <2>2, <3>1, NearestFound DEF Separate
      <3> QED BY <3>1, <3>2 DEF S
    <2> HIDE DEF N
    <2>5. CASE \A c \in DOMAIN CollectionWeight : N(c) = Visible(pts, c)
      <3>1. ASSUME NEW p \in pts, p.vis = "player"
            PROVE  p.id \in Ids(selected)
        <4>1. p.collection \in DOMAIN CollectionWeight
          BY ChunkTyped DEF Chunks
        <4>2. p \in Visible(pts, p.collection)
          BY <3>1 DEF Visible
        <4>3. p \in N(p.collection)
          BY <2>5, <4>1, <4>2
        <4> QED BY <2>3, <4>1, <4>3
      <3>2. R \subseteq Ids(selected)
        BY <3>1 DEF R, ReachableIds
      <3>3. got = R
        BY <1>5, <1>6, <3>2
      <3> QED BY <1>2, <3>3 DEF Enough, got, R, selected
    <2>6. CASE \E c \in DOMAIN CollectionWeight : N(c) # Visible(pts, c)
      <3>1. PICK c \in DOMAIN CollectionWeight : N(c) # Visible(pts, c)
        BY <2>6
      <3> DEFINE S == N(c)
                 f == [p \in S |-> p.id]
                 T == {f[p] : p \in S}
      <3>2. Cardinality(S) = limit
        BY <2>4, <3>1
      <3>3. IsFiniteSet(S) /\ \A p, q \in S : p.id = q.id => p = q
        <4>1. /\ S \in SUBSET Visible(pts, c) /\ IsFiniteSet(Visible(pts, c))
              /\ \A p, q \in Visible(pts, c) : p.id = q.id => p = q
          BY <2>4 DEF Separate
        <4> HIDE DEF S
        <4> QED BY <4>1, FS_Subset
      <3>4. \A p \in S : p.id \in Ids(selected)
        BY <2>3
      <3> HIDE DEF S
      <3>5. DOMAIN f = S /\ \A p, q \in S : f[p] = f[q] => p = q
        BY <3>3
      <3>6. T \subseteq Ids(selected)
        BY <3>4
      <3> HIDE DEF f
      <3>7. IsFiniteSet(T) /\ Cardinality(T) = limit
        BY <3>2, <3>3, <3>5, ImageSame
      <3> HIDE DEF T
      <3>8. Cardinality(T) <= Cardinality(Ids(selected))
        BY <1>7, <3>6, FS_Subset
      <3>9. Cardinality(Ids(selected)) \in Nat
        BY <1>7, FS_CardinalityType
      <3>10. Cardinality(got) >= topK
        BY <1>6, <1>8, <3>7, <3>8, <3>9
      <3> QED BY <1>2, <3>10 DEF Enough, got, R, selected
    <2> QED BY <2>5, <2>6
  <1> QED BY <1>2, <1>9, <1>10 DEF Served, selected

LEMMA TermsFinite ==
    ASSUME NEW message \in Seq(Texts)
    PROVE  IsFiniteSet(ContentTerms(message))
  <1> DEFINE N == 1..Len(message)
             f == [i \in N |-> Text[message[i]].words]
             T == {f[i] : i \in N}
  <1>1. DOMAIN message = N /\ Len(message) \in Nat /\ \A i \in N : message[i] \in Texts
    BY LenProperties, ElementOfSeq
  <1>2. \A i \in N : IsFiniteSet(f[i])
    BY <1>1, RecallAssumption DEF Texts
  <1>3. ContentTerms(message) = UNION T
    BY <1>1 DEF ContentTerms
  <1>4. IsFiniteSet(N) /\ DOMAIN f = N
    BY <1>1, FS_Interval
  <1> HIDE DEF N, f
  <1>5. IsFiniteSet(T) /\ \A U \in T : IsFiniteSet(U)
    BY <1>2, <1>4, ImageFinite
  <1> HIDE DEF T
  <1> QED BY <1>3, <1>5, FS_UNION

\* What is superseded gives way to an eligible fact: amendments do not go round in circles.
LEMMA GivesWay ==
    ASSUME NEW mems, Rows(mems), NEW m \in Superseded(mems)
    PROVE  \E n \in CanonEligible(mems, TRUE) :
              m.created < n.created /\ Terms(m.text) \subseteq Terms(n.text)
  <1> DEFINE C == CanonCandidates(mems, TRUE)
             S == {n \in C : m.created < n.created /\ Terms(m.text) \subseteq Terms(n.text)}
             f == [n \in S |-> n.created]
             D == {f[n] : n \in S}
  <1>1. C \subseteq mems /\ m \in C
    BY DEF CanonCandidates, Superseded
  <1>2. \A n \in C : n.created \in Int
    <2> SUFFICES ASSUME NEW n \in C PROVE n.created \in Int
      OBVIOUS
    <2>1. n \in Memory
      BY <1>1 DEF Rows
    <2>2. n.created \in Nat
      BY <2>1, MemoryTyped
    <2> QED BY <2>2
  <1>3. \A n, o \in C : SupersededBy(n, o) =>
           n.created < o.created /\ Terms(n.text) \subseteq Terms(o.text)
    BY DEF SupersededBy
  <1>4. \A n \in C : n \in Superseded(mems) <=> \E o \in C : SupersededBy(n, o)
    BY DEF Superseded
  <1>5. CanonEligible(mems, TRUE) = C \ Superseded(mems)
    BY DEF CanonEligible
  <1>6. IsFiniteSet(C)
    BY <1>1, FS_Subset DEF Rows
  <1> HIDE DEF C
  <1>7. S \subseteq C /\ S # {}
    BY <1>1, <1>3, <1>4
  <1>8. \A n \in C : n \in S <=> m.created < n.created /\ Terms(m.text) \subseteq Terms(n.text)
    OBVIOUS
  <1>9. IsFiniteSet(S)
    BY <1>6, <1>7, FS_Subset
  <1> HIDE DEF S
  <1>10. DOMAIN f = S /\ \A n \in S : f[n] = n.created
    OBVIOUS
  <1> HIDE DEF f
  <1>11. D \in SUBSET Int /\ IsFiniteSet(D) /\ D # {}
    BY <1>2, <1>7, <1>9, <1>10, ImageFinite
  <1>12. \A n \in S : n.created \in D
    BY <1>10
  <1>13. \A d \in D : \E n \in S : n.created = d
    BY <1>10
  <1> HIDE DEF D
  <1>14. PICK n \in S : \A o \in S : n.created >= o.created
    <2>1. Max(D) \in D /\ \A d \in D : Max(D) >= d
      BY <1>11, GreatestExists
    <2> QED BY <1>12, <1>13, <2>1
  <1>15. n \notin Superseded(mems)
    <2>1. SUFFICES ASSUME n \in Superseded(mems) PROVE FALSE
      OBVIOUS
    <2>2. n \in C
      BY <1>7
    <2>3. PICK o \in C : SupersededBy(n, o)
      BY <1>4, <2>1, <2>2
    <2>4. n.created < o.created /\ Terms(n.text) \subseteq Terms(o.text)
      BY <1>3, <2>2, <2>3
    <2>5. m.created < n.created /\ Terms(m.text) \subseteq Terms(n.text)
      BY <1>8, <2>2
    <2>6. m.created \in Int /\ n.created \in Int /\ o.created \in Int
      BY <1>1, <1>2, <2>2
    <2>7. o \in S
      <3>1. m.created < o.created
        BY <2>4, <2>5, <2>6
      <3> QED BY <1>8, <2>4, <2>5, <3>1
    <2>8. n.created >= o.created
      BY <1>14, <2>7
    <2> QED BY <2>4, <2>6, <2>8
  <1> QED BY <1>5, <1>7, <1>8, <1>15

-----------------------------------------------------------------------------
(* The window. *)

\* The chunks the player may know of that the standing facts do, or do not, say already.
Echoing(pts, standing) == {q \in pts : q.vis = "player" /\ q.text \in ToSet(standing)}
Unsaid(pts, standing) == {q \in pts : q.vis = "player" /\ q.text \notin ToSet(standing)}
IdsOf(S) == {p.id : p \in S}
ShownOf(S) == {Shown(p.text) : p \in S}

LEMMA ImagesCover ==
    ASSUME NEW S, IsFiniteSet(S), NEW D \in SUBSET S, NEW f, DOMAIN f = S
    PROVE  /\ IsFiniteSet({f[x] : x \in S}) /\ IsFiniteSet({f[x] : x \in D})
           /\ Cardinality({f[x] : x \in S}) <=
                 Cardinality({f[x] : x \in D}) + Cardinality(S) - Cardinality(D)
  <1> DEFINE E == S \ D
             g == [x \in D |-> f[x]]
             h == [x \in E |-> f[x]]
             A == {f[x] : x \in S}
             B == {g[x] : x \in D}
             C == {h[x] : x \in E}
  <1>1. A = B \cup C /\ B = {f[x] : x \in D} /\ DOMAIN g = D /\ DOMAIN h = E
    OBVIOUS
  <1>2. /\ IsFiniteSet(D) /\ IsFiniteSet(E)
        /\ Cardinality(E) = Cardinality(S) - Cardinality(D)
    <2>1. S \cap D = D
      OBVIOUS
    <2> HIDE DEF E
    <2>2. IsFiniteSet(S \ D) /\ Cardinality(S \ D) = Cardinality(S) - Cardinality(S \cap D)
      BY FS_Difference
    <2>3. IsFiniteSet(D)
      BY FS_Subset
    <2> QED BY <2>1, <2>2, <2>3 DEF E
  <1> HIDE DEF g, h, E
  <1>3. /\ IsFiniteSet(B) /\ IsFiniteSet(C) /\ Cardinality(C) <= Cardinality(E)
    BY <1>1, <1>2, ImageFinite
  <1>4. IsFiniteSet(A)
    BY ImageFinite
  <1> HIDE DEF A, B, C
  <1>5. /\ Cardinality(B \cup C) = Cardinality(B) + Cardinality(C) - Cardinality(B \cap C)
        /\ IsFiniteSet(B \cap C)
    BY <1>3, FS_Union, FS_Intersection
  <1>6. /\ Cardinality(B) \in Nat /\ Cardinality(C) \in Nat /\ Cardinality(B \cap C) \in Nat
        /\ Cardinality(E) \in Nat /\ Cardinality(S) \in Nat /\ Cardinality(D) \in Nat
    BY <1>2, <1>3, <1>5, FS_CardinalityType
  <1>7. Cardinality(A) <= Cardinality(B) + Cardinality(S) - Cardinality(D)
    BY <1>1, <1>2, <1>3, <1>5, <1>6
  <1> QED BY <1>1, <1>3, <1>4, <1>7 DEF A

LEMMA WindowFills ==
    ASSUME NEW mems, NEW pts, Chunks(pts), SameText(mems, pts),
           NEW standing \in Seq(Texts), NEW selected \in Seq(Entries(mems, pts)),
           NEW T, NEW prompt \in Seq(T), Filled(prompt, selected, standing, Len(selected)),
           Enough(selected, pts, TopK(standing)),
           Cardinality(IdsOf(Echoing(pts, standing))) <= Len(standing),
           Cardinality(IdsOf(Unsaid(pts, standing)))
             - Cardinality(ShownOf(Unsaid(pts, standing))) <= Window - 1
    PROVE  \/ Len(prompt) >= Window
           \/ Len(prompt) >= Cardinality(ShownOf(Unsaid(pts, standing)))
  <1> DEFINE F == Unsaid(pts, standing)
             E == Echoing(pts, standing)
             ids == IdsOf(F)
             echoes == IdsOf(E)
             supply == ShownOf(F)
             R == ReachableIds(pts)
             found == Ids(selected) \cap R
             D == Ids(selected) \cap ids
             chunk == [i \in ids |-> CHOOSE p \in F : p.id = i]
             shown == [i \in ids |-> Shown(chunk[i].text)]
             G == {shown[i] : i \in D}
             P == {Shown(prompt[j].chunk.text) : j \in 1..Len(prompt)}
  <1>1. /\ Window \in Nat /\ Window >= 1 /\ Len(prompt) \in Nat /\ Len(standing) \in Nat
        /\ DOMAIN selected = 1..Len(selected) /\ DOMAIN prompt = 1..Len(prompt)
        /\ \A k \in 1..Len(selected) : selected[k] \in Entries(mems, pts)
    BY RecallAssumption, LenProperties, ElementOfSeq
  <1>2. \A p, q \in pts : p.id = q.id => p.text = q.text
    BY DEF Chunks
  <1>3. /\ F \subseteq pts /\ \A p \in F : p.vis = "player" /\ p.text \notin ToSet(standing)
    BY DEF Unsaid
  <1>4. R = ids \cup echoes
    BY DEF ReachableIds, IdsOf, Unsaid, Echoing
  <1>5. IsFiniteSet(R)
    BY ReachableFinite
  <1>6. \A i \in ids : chunk[i] \in F /\ chunk[i].id = i
    BY DEF IdsOf
  <1> HIDE DEF chunk
  <1>7. supply = {shown[i] : i \in ids} /\ DOMAIN shown = ids
    <2>1. ASSUME NEW p \in F
          PROVE  p.id \in ids /\ shown[p.id] = Shown(p.text)
      <3>1. p.id \in ids
        BY DEF IdsOf
      <3>2. chunk[p.id].text = p.text
        BY <1>2, <1>3, <1>6, <3>1
      <3> QED BY <3>1, <3>2
    <2>2. ASSUME NEW i \in ids
          PROVE  \E p \in F : shown[i] = Shown(p.text)
      BY <1>6
    <2>3. supply \subseteq {shown[i] : i \in ids}
      <3> HIDE DEF shown, ids
      <3> QED BY <2>1 DEF ShownOf
    <2>4. {shown[i] : i \in ids} \subseteq supply
      <3> HIDE DEF shown, ids
      <3> QED BY <2>2 DEF ShownOf
    <2> QED BY <2>3, <2>4
  <1>8. \A i \in ids : shown[i] = Shown(chunk[i].text)
    OBVIOUS
  <1> HIDE DEF shown
  <1>9. SUFFICES ASSUME ~(Len(prompt) >= Window)
                 PROVE  Len(prompt) >= Cardinality(supply)
    OBVIOUS
  <1>10. ASSUME NEW i \in D
         PROVE  shown[i] \in P
    <2>1. PICK k \in 1..Len(selected) : selected[k].id = i
      BY <1>1 DEF Ids
    <2> DEFINE p == chunk[i]
               r == selected[k]
    <2>2. p \in pts /\ p.id = i /\ p.text \notin ToSet(standing)
      BY <1>3, <1>6
    <2>3. /\ r \in Entries(mems, pts) /\ r.id = i
      BY <1>1, <2>1
    <2> HIDE DEF p, r
    <2>4. /\ r.chunk.vis = "player" /\ r.id = r.chunk.id
          /\ \/ r.chunk \in pts
             \/ \E m \in LexicalPool(mems) : r.id = m.id /\ r.chunk.text = m.text
      BY <2>3, EntryBacked DEF Backed
    <2>5. r.chunk.text = p.text
      <3>1. CASE r.chunk \in pts
        BY <1>2, <2>2, <2>3, <2>4, <3>1
      <3>2. CASE \E m \in LexicalPool(mems) : r.id = m.id /\ r.chunk.text = m.text
        BY <2>2, <2>3, <3>2 DEF SameText, LexicalPool
      <3> QED BY <2>4, <3>1, <3>2
    <2>6. Repeats(r.chunk.text, prompt)
      <3>1. \/ r.chunk.text \in ToSet(standing)
            \/ Repeats(r.chunk.text, prompt)
            \/ Window < k /\ Len(prompt) = Window
        BY <2>4 DEF Filled, r
      <3>2. Len(prompt) # Window
        <4> DEFINE l == Len(prompt)
        <4>1. l \in Nat /\ Window \in Nat /\ ~(l >= Window)
          BY <1>1, <1>9
        <4> HIDE DEF l, P
        <4>2. l # Window
          BY <4>1
        <4> QED BY <4>2 DEF l
      <3> QED BY <2>2, <2>5, <3>1, <3>2
    <2>7. PICK j \in 1..Len(prompt) : Shown(prompt[j].chunk.text) = Shown(p.text)
      BY <1>1, <2>5, <2>6 DEF Repeats
    <2> QED BY <1>8, <2>7 DEF p
  <1>11. IsFiniteSet(P) /\ Cardinality(P) <= Len(prompt)
    <2> DEFINE N == 1..Len(prompt)
               f == [j \in N |-> Shown(prompt[j].chunk.text)]
    <2>1. IsFiniteSet(N) /\ Cardinality(N) <= Len(prompt)
      <3>1. 1 \in Int /\ Len(prompt) \in Int
        BY <1>1
      <3>2. IsFiniteSet(N) /\ Cardinality(N) = IF 1 > Len(prompt) THEN 0 ELSE Len(prompt) - 1 + 1
        BY <3>1, FS_Interval
      <3> DEFINE c == Cardinality(N)
                 l == Len(prompt)
      <3>3. c = IF 1 > l THEN 0 ELSE l - 1 + 1
        BY <3>2
      <3>4. l \in Nat
        BY <1>1
      <3> HIDE DEF c, l
      <3>5. c <= l
        BY <3>3, <3>4
      <3> QED BY <3>2, <3>5 DEF c, l
    <2>2. DOMAIN f = N /\ P = {f[j] : j \in N}
      OBVIOUS
    <2> HIDE DEF f, P
    <2>3. IsFiniteSet({f[j] : j \in N}) /\ Cardinality({f[j] : j \in N}) <= Cardinality(N)
      <3> HIDE DEF N
      <3> QED BY <2>1, <2>2, ImageFinite
    <2>4. IsFiniteSet(P) /\ Cardinality(P) \in Nat /\ Cardinality(N) \in Nat
      BY <2>1, <2>2, <2>3, FS_CardinalityType
    <2> HIDE DEF N
    <2> QED BY <1>1, <2>1, <2>2, <2>3, <2>4
  <1>12. IsFiniteSet(ids) /\ IsFiniteSet(echoes) /\ D \in SUBSET ids
    <2> HIDE DEF R, ids, echoes
    <2> QED BY <1>4, <1>5, FS_Subset
  <1>13. Enough(selected, pts, TopK(standing))
    OBVIOUS
  <1>14. found = R \/ Cardinality(found) >= TopK(standing)
    BY <1>13 DEF Enough
  <1>15. found = D \cup (Ids(selected) \cap echoes)
    <2> HIDE DEF R, ids, echoes
    <2> QED BY <1>4
  <1>16. TopK(standing) = Len(standing) + 2 * Window - 1
    <2>1. Window - 1 \in Int /\ 0 \in Int
      BY <1>1
    <2>2. Max({Window - 1, 0}) \in {Window - 1, 0} /\ Max({Window - 1, 0}) >= Window - 1
          /\ Max({Window - 1, 0}) >= 0
      BY <2>1, GreaterOfTwo
    <2> DEFINE m == Max({Window - 1, 0})
               l == Len(standing)
    <2>3. m \in {Window - 1, 0} /\ m >= Window - 1 /\ m >= 0 /\ l \in Nat
      BY <1>1, <2>2
    <2>4. TopK(standing) = Window + l + m
      BY DEF TopK
    <2> HIDE DEF m, l
    <2>5. m = Window - 1
      BY <1>1, <2>3
    <2>6. TopK(standing) = l + 2 * Window - 1
      BY <1>1, <2>3, <2>4, <2>5
    <2> QED BY <2>6 DEF l
  <1>17. /\ Cardinality(echoes) <= Len(standing)
         /\ Cardinality(ids) - Cardinality(supply) <= Window - 1
    OBVIOUS
  <1> HIDE DEF F, E, ids, echoes, supply, R, found, D, G, P
  <1>18. G \subseteq P
    BY <1>10 DEF G
  <1>19. /\ IsFiniteSet(supply) /\ IsFiniteSet(G)
         /\ Cardinality(supply) <= Cardinality(G) + Cardinality(ids) - Cardinality(D)
    BY <1>7, <1>12, ImagesCover DEF G
  <1>20. Cardinality(G) <= Cardinality(P)
    BY <1>11, <1>18, FS_Subset
  <1>21. IsFiniteSet(D)
    BY <1>12, FS_Subset
  <1>22. /\ Cardinality(supply) \in Nat /\ Cardinality(G) \in Nat /\ Cardinality(ids) \in Nat
         /\ Cardinality(D) \in Nat /\ Cardinality(P) \in Nat /\ Cardinality(echoes) \in Nat
    BY <1>11, <1>12, <1>19, <1>21, FS_CardinalityType
  <1>23. CASE found = R
    <2>1. D = ids
      BY <1>4, <1>23 DEF found, D
    <2>2. G = supply
      BY <1>7, <2>1 DEF G
    <2> QED BY <1>1, <1>11, <1>20, <1>22, <2>2
  <1>24. CASE Cardinality(found) >= TopK(standing)
    <2> DEFINE echoed == Ids(selected) \cap echoes
    <2>1. IsFiniteSet(echoed) /\ Cardinality(echoed) <= Cardinality(echoes)
      BY <1>12, FS_Intersection
    <2> HIDE DEF echoed
    <2>2. /\ Cardinality(D \cup echoed) = Cardinality(D) + Cardinality(echoed) - Cardinality(D \cap echoed)
          /\ IsFiniteSet(D \cap echoed)
      BY <1>21, <2>1, FS_Union, FS_Intersection
    <2>3. Cardinality(echoed) \in Nat /\ Cardinality(D \cap echoed) \in Nat
      BY <2>1, <2>2, FS_CardinalityType
    <2>4. found = D \cup echoed
      BY <1>15 DEF echoed
    <2> DEFINE d == Cardinality(D)
               e == Cardinality(echoed)
               b == Cardinality(D \cap echoed)
               all == Cardinality(found)
               c == Cardinality(echoes)
               l == Len(standing)
               g == Cardinality(G)
               s == Cardinality(supply)
               n == Cardinality(ids)
               p == Cardinality(P)
               t == Len(prompt)
    <2>5. /\ all = d + e - b /\ e <= c /\ c <= l /\ all >= l + 2 * Window - 1
          /\ s <= g + n - d /\ n - s <= Window - 1 /\ g <= p /\ p <= t
          /\ d \in Nat /\ e \in Nat /\ b \in Nat /\ c \in Nat /\ l \in Nat /\ g \in Nat
          /\ s \in Nat /\ n \in Nat /\ p \in Nat /\ t \in Nat
      BY <1>1, <1>11, <1>16, <1>17, <1>19, <1>20, <1>22, <1>24, <2>1, <2>2, <2>3, <2>4
    <2> HIDE DEF d, e, b, all, c, l, g, s, n, p, t
    <2>6. t >= Window
      BY <1>1, <2>5
    <2> QED BY <1>9, <2>6 DEF t
  <1> QED BY <1>14, <1>23, <1>24 DEF supply

-----------------------------------------------------------------------------
(* The invariant of the recall: what is stored, and what the turn holds of *)
(* it in each phase.                                                       *)

\* Nothing that consolidation retired could have been a standing fact.
RetiredPlain(mems, pinning) ==
    \A m \in mems : m.retired => m.tags \cap EffectiveCanonTags(pinning) = {}

Known(mems, pts, pinning) == Rows(mems) /\ SameText(mems, pts) /\ RetiredPlain(mems, pinning)

Stored ==
    /\ setup \in Setups /\ turns \in 0..MaxTurns /\ edits \in 0..MaxEdits
    /\ pinned \in Seq(CanonTexts)
    /\ Known(memories, points, setup.pinning) /\ Chunks(points)

Loaded(t, s, pts) ==
    /\ DOMAIN t = DOMAIN Blank /\ t.phase \in Phases
    /\ t.message \in Seq(Texts) /\ t.pins \in Seq(CanonTexts)
    /\ Known(t.loaded, pts, s.pinning) /\ Hits(t.hits, t.loaded)
    /\ Standing(t.standing, t.loaded, t.pins, s.pinning)

Unranked(t) == ~t.dense /\ ~t.sliced /\ t.ranking = Blank.ranking
Found(t, pts) == ~t.sliced /\ Ranking(t.ranking, pts)
Merged(t, s, pts) ==
    /\ Mixed(t.ranking, t.loaded, pts)
    /\ t.sliced => MembersFirst(t.ranking.selected, EligibleHits(t.hits, s.quota), t.confidence)
Ample(t, pts) == t.dense => Enough(t.ranking.selected, pts, TopK(t.standing))

Ranks(t, s, pts) ==
    /\ t.phase \in {"loaded", "scored"} => Unranked(t)
    /\ t.phase = "retrieved" => Found(t, pts) /\ Ample(t, pts)
    /\ t.phase \in {"ordered", "prompted"} => Merged(t, s, pts) /\ Ample(t, pts)

Shows(t, pts) ==
    IF t.phase = "prompted"
    THEN /\ Filled(t.prompt, t.ranking.selected, t.standing, Len(t.ranking.selected))
         /\ t.prompt \in Seq(Entries(t.loaded, pts))
    ELSE t.prompt = <<>>

Leaves(t, mems, pts) ==
    /\ t.batch \in Seq(Candidate)
    /\ t.written \subseteq mems
    /\ \A m \in t.written, p \in pts : m.id # p.id
    /\ t.phase # "stored" => t.written = {}
    /\ t.phase = "curated" => t.hits = <<>> /\ t.standing = <<>>

Recalls(t, s, mems, pts) ==
    Loaded(t, s, pts) /\ Ranks(t, s, pts) /\ Shows(t, pts) /\ Leaves(t, mems, pts)

RecallInv == Stored /\ Recalls(turn, setup, memories, points)

\* Between a prompt and the rows it leaves, a turn holds nothing it recalled.
Resting(t) ==
    /\ DOMAIN t = DOMAIN Blank /\ t.phase \in {"idle", "guarding", "criticised", "sent", "curated"}
    /\ t.message \in Seq(Texts) /\ t.pins = <<>> /\ t.loaded = {} /\ t.hits = <<>>
    /\ t.standing = <<>> /\ t.prompt = <<>> /\ t.batch \in Seq(Candidate) /\ t.written = {}

LEMMA NothingKnown ==
    ASSUME NEW pts, NEW pinning
    PROVE  /\ Known({}, pts, pinning) /\ Hits(<<>>, {})
           /\ \A pins : Standing(<<>>, {}, pins, pinning)
  <1>1. Rows({})
    BY FS_EmptySet DEF Rows
  <1>2. SameText({}, pts) /\ RetiredPlain({}, pinning)
    BY DEF SameText, RetiredPlain
  <1>3. Hits(<<>>, {})
    BY DEF Hits
  <1>4. 0 <= CanonMaxItems
    BY RecallAssumption
  <1>5. \A pins : Standing(<<>>, {}, pins, pinning)
    BY <1>4 DEF Standing
  <1> QED BY <1>1, <1>2, <1>3, <1>5 DEF Known

LEMMA RestingRecalls ==
    ASSUME NEW t, Resting(t), NEW s, NEW mems, NEW pts
    PROVE  Recalls(t, s, mems, pts)
  <1>1. /\ DOMAIN t = DOMAIN Blank
        /\ t.phase \in {"idle", "guarding", "criticised", "sent", "curated"}
        /\ t.message \in Seq(Texts) /\ t.pins = <<>> /\ t.loaded = {} /\ t.hits = <<>>
        /\ t.standing = <<>> /\ t.prompt = <<>> /\ t.batch \in Seq(Candidate) /\ t.written = {}
    BY DEF Resting
  <1>2. Loaded(t, s, pts)
    <2>1. t.phase \in Phases
      BY <1>1 DEF Phases
    <2>2. t.pins \in Seq(CanonTexts)
      BY <1>1
    <2>3. Known(t.loaded, pts, s.pinning)
      BY <1>1, NothingKnown
    <2>4. Hits(t.hits, t.loaded)
      BY <1>1, NothingKnown
    <2>5. Standing(t.standing, t.loaded, t.pins, s.pinning)
      BY <1>1, NothingKnown
    <2> QED BY <1>1, <2>1, <2>2, <2>3, <2>4, <2>5 DEF Loaded
  <1>3. Ranks(t, s, pts) /\ Shows(t, pts) /\ Leaves(t, mems, pts)
    BY <1>1 DEF Ranks, Shows, Leaves
  <1> QED BY <1>2, <1>3 DEF Recalls

\* A step of the turn that keeps what was recalled.
Kept(t, u) ==
    /\ DOMAIN u = DOMAIN Blank /\ u.message = t.message /\ u.pins = t.pins /\ u.loaded = t.loaded
    /\ u.hits = t.hits /\ u.standing = t.standing /\ u.prompt = t.prompt
    /\ u.batch = t.batch /\ u.written = t.written

LEMMA KeptRecalls ==
    ASSUME NEW t, NEW u, NEW s, NEW mems, NEW pts, Recalls(t, s, mems, pts), Kept(t, u),
           t.phase \notin {"prompted", "stored"},
           u.phase \in Phases \ {"prompted", "curated", "stored"}, Ranks(u, s, pts)
    PROVE  Recalls(u, s, mems, pts)
  <1>1. Loaded(u, s, pts)
    BY DEF Recalls, Loaded, Kept
  <1>2. Shows(u, pts)
    BY DEF Recalls, Shows, Kept
  <1>3. Leaves(u, mems, pts)
    BY DEF Recalls, Leaves, Kept
  <1> QED BY <1>1, <1>2, <1>3 DEF Recalls

LEMMA SetupTyped ==
    ASSUME Stored
    PROVE  setup.quota \in Nat
  BY SessionAssumption DEF Stored

LEMMA LoadRecalls ==
    ASSUME Stored, NEW message \in Messages, Load(message)
    PROVE  Recalls(turn', setup, memories, points)
  <1> DEFINE t == turn'
  <1>1. /\ DOMAIN t = DOMAIN Blank /\ t.phase = "loaded" /\ t.message = message
        /\ t.loaded = memories /\ t.pins = pinned
        /\ t.standing = StandingFacts(memories, pinned, setup.pinning)
        /\ t.hits = <<>> /\ ~t.dense /\ ~t.sliced /\ t.ranking = Blank.ranking
        /\ t.prompt = <<>> /\ t.batch = <<>> /\ t.written = {}
    BY DEF Load, Blank
  <1> HIDE DEF t
  <1>2. /\ Known(memories, points, setup.pinning) /\ pinned \in Seq(CanonTexts)
    BY DEF Stored
  <1>3. Rows(memories)
    BY <1>2 DEF Known
  <1>4. Standing(StandingFacts(memories, pinned, setup.pinning), memories, pinned, setup.pinning)
    <2> DEFINE pinning == setup.pinning
    <2> HIDE DEF pinning
    <2>1. Standing(StandingFacts(memories, pinned, pinning), memories, pinned, pinning)
      BY <1>2, <1>3, StandingFound
    <2> QED BY <2>1 DEF pinning
  <1>5. message \in Seq(Texts)
    BY SessionAssumption
  <1>6. Hits(t.hits, t.loaded)
    BY <1>1 DEF Hits
  <1>7. Loaded(t, setup, points)
    <2>1. t.phase \in Phases
      BY <1>1 DEF Phases
    <2> QED BY <1>1, <1>2, <1>4, <1>5, <1>6, <2>1 DEF Loaded
  <1>8. Ranks(t, setup, points) /\ Shows(t, points) /\ Leaves(t, memories, points)
    BY <1>1 DEF Ranks, Unranked, Shows, Leaves
  <1>9. Recalls(t, setup, memories, points)
    BY <1>7, <1>8 DEF Recalls
  <1> QED BY <1>9 DEF t

\* A ranking of nothing.
LEMMA BlankMixed ==
    ASSUME NEW mems, NEW pts
    PROVE  Mixed(Blank.ranking, mems, pts)
  <1>1. Blank.ranking.selected = <<>> /\ Blank.ranking.rejected = <<>>
    BY DEF Blank
  <1> QED BY <1>1 DEF Mixed, Once, Apart

LEMMA SkipRetrievalRecalls ==
    ASSUME Recalls(turn, setup, memories, points), SkipRetrieval
    PROVE  Recalls(turn', setup, memories, points)
  <1> DEFINE t == turn'
  <1>1. DOMAIN turn = DOMAIN Blank /\ turn.phase = "loaded" /\ Unranked(turn)
    BY DEF Recalls, Loaded, Ranks, SkipRetrieval
  <1>2. /\ Kept(turn, t) /\ t.phase = "ordered"
        /\ t.dense = turn.dense /\ t.sliced = turn.sliced /\ t.ranking = turn.ranking
    BY <1>1 DEF SkipRetrieval, Goto, Blank, Kept
  <1> HIDE DEF t
  <1>3. ~t.dense /\ ~t.sliced /\ t.ranking = Blank.ranking
    BY <1>1, <1>2 DEF Unranked
  <1>4. Ranks(t, setup, points)
    BY <1>2, <1>3, BlankMixed DEF Ranks, Merged, Ample
  <1>5. t.phase \in Phases
    BY <1>2 DEF Phases
  <1>6. Recalls(t, setup, memories, points)
    BY <1>1, <1>2, <1>4, <1>5, KeptRecalls
  <1> QED BY <1>6 DEF t

LEMMA ScoreRecalls ==
    ASSUME Stored, Recalls(turn, setup, memories, points), ScoreSlice \/ ScoreFails
    PROVE  Recalls(turn', setup, memories, points)
  <1> DEFINE t == turn'
             hits == LexicalHits(turn.loaded, ContentTerms(turn.message))
  <1>1. /\ DOMAIN turn = DOMAIN Blank /\ turn.phase = "loaded" /\ Unranked(turn)
        /\ Rows(turn.loaded) /\ turn.message \in Seq(Texts) /\ Hits(turn.hits, turn.loaded)
    BY DEF Recalls, Loaded, Known, Ranks, ScoreSlice, ScoreFails
  <1>2. /\ DOMAIN t = DOMAIN Blank /\ t.phase = "scored" /\ t.message = turn.message
        /\ t.pins = turn.pins /\ t.loaded = turn.loaded /\ t.standing = turn.standing
        /\ t.prompt = turn.prompt /\ t.batch = turn.batch /\ t.written = turn.written
        /\ t.dense = turn.dense /\ t.sliced = turn.sliced /\ t.ranking = turn.ranking
        /\ t.hits \in {<<>>, turn.hits, hits}
    <2> DEFINE none == <<>>
               scored == "scored"
    <2>1. \/ t = [turn EXCEPT !.phase = scored]
          \/ t = [turn EXCEPT !.phase = scored, !.hits = none]
          \/ t = [turn EXCEPT !.phase = scored, !.hits = hits]
      BY DEF ScoreSlice, ScoreFails, Goto
    <2> HIDE DEF t, hits, none, scored
    <2>2. /\ DOMAIN t = DOMAIN Blank /\ t.phase = scored /\ t.message = turn.message
          /\ t.pins = turn.pins /\ t.loaded = turn.loaded /\ t.standing = turn.standing
          /\ t.prompt = turn.prompt /\ t.batch = turn.batch /\ t.written = turn.written
          /\ t.dense = turn.dense /\ t.sliced = turn.sliced /\ t.ranking = turn.ranking
          /\ t.hits \in {none, turn.hits, hits}
      <3>1. CASE t = [turn EXCEPT !.phase = scored]
        BY <1>1, <3>1 DEF Blank
      <3>2. CASE t = [turn EXCEPT !.phase = scored, !.hits = none]
        BY <1>1, <3>2 DEF Blank
      <3>3. CASE t = [turn EXCEPT !.phase = scored, !.hits = hits]
        BY <1>1, <3>3 DEF Blank
      <3> QED BY <2>1, <3>1, <3>2, <3>3
    <2> QED BY <2>2 DEF none, scored
  <1>3. Hits(hits, turn.loaded)
    <2>1. IsFiniteSet(ContentTerms(turn.message))
      BY <1>1, TermsFinite
    <2> DEFINE query == ContentTerms(turn.message)
               mems == turn.loaded
    <2>2. IsFiniteSet(query) /\ Rows(mems)
      BY <1>1, <2>1
    <2> HIDE DEF query, mems
    <2>3. Hits(LexicalHits(mems, query), mems)
      BY <2>2, HitsFound
    <2> QED BY <2>3 DEF query, mems
  <1>4. Hits(<<>>, turn.loaded)
    BY DEF Hits
  <1> HIDE DEF t, hits
  <1>5. Hits(t.hits, t.loaded)
    BY <1>1, <1>2, <1>3, <1>4
  <1>6. t.phase \in Phases
    BY <1>2 DEF Phases
  <1>7. Loaded(t, setup, points)
    BY <1>2, <1>5, <1>6 DEF Loaded, Recalls
  <1>8. Ranks(t, setup, points)
    BY <1>1, <1>2 DEF Ranks, Unranked
  <1>9. Shows(t, points) /\ Leaves(t, memories, points)
    BY <1>1, <1>2 DEF Recalls, Shows, Leaves
  <1>10. Recalls(t, setup, memories, points)
    BY <1>7, <1>8, <1>9 DEF Recalls
  <1> QED BY <1>10 DEF t

LEMMA TopKTyped ==
    ASSUME NEW standing \in Seq(Texts)
    PROVE  TopK(standing) \in Nat
  <1> DEFINE m == Max({Window - 1, 0})
             l == Len(standing)
  <1>1. Window \in Nat /\ Window - 1 \in Int /\ 0 \in Int /\ l \in Nat
    BY RecallAssumption, LenProperties
  <1>2. m \in Int /\ m >= 0
    BY <1>1, GreaterOfTwo
  <1>3. TopK(standing) = Window + l + m
    BY DEF TopK
  <1> HIDE DEF m, l
  <1> QED BY <1>1, <1>2, <1>3

LEMMA RetrieveRecalls ==
    ASSUME Stored, Recalls(turn, setup, memories, points), NEW nears \in Queries, Retrieve(nears)
    PROVE  Recalls(turn', setup, memories, points)
  <1> DEFINE t == turn'
             topK == TopK(turn.standing)
             ranking == Fetch(nears, topK)
  <1>1. /\ DOMAIN turn = DOMAIN Blank /\ turn.phase = "scored" /\ Unranked(turn)
        /\ turn.message \in Seq(Texts) /\ turn.standing \in Seq(Texts)
    BY DEF Recalls, Loaded, Standing, Ranks, Retrieve
  <1>2. /\ Kept(turn, t) /\ t.phase = "retrieved"
        /\ t.sliced = turn.sliced /\ t.ranking = ranking
    BY <1>1 DEF Retrieve, Blank, Kept
  <1>3. Ranking(ranking, points) /\ Enough(ranking.selected, points, topK)
    <2> DEFINE query == ContentTerms(turn.message)
    <2>1. IsFiniteSet(query) /\ Chunks(points) /\ topK \in Nat
      BY <1>1, TermsFinite, TopKTyped DEF Stored
    <2>2. ranking = Rerank(SearchAll(points, nears, topK), query, topK)
      BY DEF Fetch
    <2> HIDE DEF query, topK, ranking
    <2> QED BY <2>1, <2>2, FetchFound
  <1> HIDE DEF t, topK, ranking
  <1>4. Ranks(t, setup, points)
    <2>1. Found(t, points)
      BY <1>1, <1>2, <1>3 DEF Found, Unranked
    <2>2. t.standing = turn.standing
      BY <1>2 DEF Kept
    <2>3. Ample(t, points)
      BY <1>2, <1>3, <2>2 DEF Ample, topK
    <2> QED BY <1>2, <2>1, <2>3 DEF Ranks
  <1>5. t.phase \in Phases
    BY <1>2 DEF Phases
  <1>6. Recalls(t, setup, memories, points)
    BY <1>1, <1>2, <1>4, <1>5, KeptRecalls
  <1> QED BY <1>6 DEF t

Reordered(t, ranking) ==
    /\ Kept(turn, t) /\ t.phase = "ordered" /\ t.sliced = TRUE /\ t.dense = turn.dense
    /\ t.ranking = ranking /\ t.confidence = Confidence(ranking.selected)

LEMMA RankedKeeps ==
    ASSUME DOMAIN turn = DOMAIN Blank, NEW ranking, NEW t, t = Ranked(ranking)
    PROVE  Reordered(t, ranking)
  BY DEF Ranked, Reordered, Blank, Kept

\* The slice put on top of what is ranked, of the search or of nothing.
LEMMA MergeRecalls ==
    ASSUME Stored, Recalls(turn, setup, memories, points),
           turn.phase \in {"scored", "retrieved"},
           NEW ranking, Mixed(ranking, turn.loaded, points),
           turn.dense => Enough(ranking.selected, points, TopK(turn.standing)),
           NEW t, t = Ranked(ApplySlice(ranking, turn.hits, setup.quota))
    PROVE  Recalls(t, setup, memories, points)
  <1> DEFINE sliced == ApplySlice(ranking, turn.hits, setup.quota)
             quota == setup.quota
             mems == turn.loaded
             hits == turn.hits
             topK == TopK(turn.standing)
  <1>1. /\ DOMAIN turn = DOMAIN Blank /\ Rows(mems) /\ SameText(mems, points) /\ Hits(hits, mems)
        /\ turn.standing \in Seq(Texts)
    BY DEF Recalls, Loaded, Known, Standing
  <1>2. quota \in Nat
    BY SetupTyped
  <1>3. topK \in Nat
    BY <1>1, TopKTyped
  <1>4. /\ Kept(turn, t) /\ t.phase = "ordered" /\ t.dense = turn.dense
        /\ t.ranking = sliced /\ t.confidence = Confidence(sliced.selected)
    <2> HIDE DEF sliced
    <2>1. t = Ranked(sliced)
      BY DEF sliced
    <2>2. DOMAIN turn = DOMAIN Blank
      BY <1>1
    <2>3. Reordered(t, sliced)
      BY <2>1, <2>2, RankedKeeps
    <2> QED BY <2>3 DEF Reordered
  <1>5. t.loaded = mems /\ t.hits = hits /\ TopK(t.standing) = topK
    BY <1>4 DEF Kept
  <1>6. sliced = ApplySlice(ranking, hits, quota)
    OBVIOUS
  <1>7. Mixed(ranking, mems, points)
    OBVIOUS
  <1> HIDE DEF sliced, quota, mems, hits
  <1>8. /\ Mixed(sliced, mems, points)
        /\ MembersFirst(sliced.selected, EligibleHits(hits, quota), Confidence(sliced.selected))
        /\ Ids(ranking.selected) \subseteq Ids(sliced.selected)
    BY <1>1, <1>2, <1>6, <1>7, SliceFound
  <1>9. turn.dense => Enough(sliced.selected, points, topK)
    <2> SUFFICES ASSUME turn.dense PROVE Enough(sliced.selected, points, topK)
      OBVIOUS
    <2> DEFINE a == ranking.selected
               b == sliced.selected
    <2>1. Enough(a, points, topK) /\ Ids(a) \subseteq Ids(b) /\ Chunks(points)
      BY <1>8 DEF Stored
    <2> HIDE DEF a, b, topK
    <2>2. Enough(b, points, topK)
      BY <1>3, <2>1, EnoughGrows
    <2> QED BY <2>2 DEF b
  <1> HIDE DEF topK
  <1>10. Ranks(t, setup, points)
    <2>1. Ample(t, points)
      BY <1>4, <1>5, <1>9 DEF Ample
    <2>2. Merged(t, setup, points)
      BY <1>4, <1>5, <1>8 DEF Merged, quota
    <2> QED BY <1>4, <2>1, <2>2 DEF Ranks
  <1>11. t.phase \in Phases /\ turn.phase \notin {"prompted", "stored"}
    BY <1>4 DEF Phases
  <1> QED BY <1>4, <1>10, <1>11, KeptRecalls

LEMMA RetrieveFailsRecalls ==
    ASSUME Stored, Recalls(turn, setup, memories, points), RetrieveFails
    PROVE  Recalls(turn', setup, memories, points)
  <1> DEFINE t == turn'
  <1>1. DOMAIN turn = DOMAIN Blank /\ turn.phase = "scored" /\ Unranked(turn)
    BY DEF Recalls, Loaded, Ranks, RetrieveFails
  <1>2. \/ t = Ranked(ApplySlice(Blank.ranking, turn.hits, setup.quota))
        \/ t = [turn EXCEPT !.phase = "ordered"]
    BY DEF RetrieveFails, Goto
  <1> HIDE DEF t
  <1>3. CASE t = Ranked(ApplySlice(Blank.ranking, turn.hits, setup.quota))
    <2> DEFINE ranking == Blank.ranking
    <2>1. Mixed(ranking, turn.loaded, points)
      BY BlankMixed
    <2> HIDE DEF ranking
    <2>2. Recalls(t, setup, memories, points)
      BY <1>1, <1>3, <2>1, MergeRecalls DEF ranking, Unranked
    <2> QED BY <2>2 DEF t
  <1>4. CASE t = [turn EXCEPT !.phase = "ordered"]
    <2>1. /\ Kept(turn, t) /\ t.phase = "ordered"
          /\ t.dense = turn.dense /\ t.sliced = turn.sliced /\ t.ranking = turn.ranking
      BY <1>1, <1>4 DEF Blank, Kept
    <2>2. ~t.dense /\ ~t.sliced /\ t.ranking = Blank.ranking
      BY <1>1, <2>1 DEF Unranked
    <2>3. Ranks(t, setup, points)
      BY <2>1, <2>2, BlankMixed DEF Ranks, Merged, Ample
    <2>4. t.phase \in Phases
      BY <2>1 DEF Phases
    <2>5. Recalls(t, setup, memories, points)
      BY <1>1, <2>1, <2>3, <2>4, KeptRecalls
    <2> QED BY <2>5 DEF t
  <1> QED BY <1>2, <1>3, <1>4

LEMMA OrderRecalls ==
    ASSUME Stored, Recalls(turn, setup, memories, points), Order
    PROVE  Recalls(turn', setup, memories, points)
  <1> DEFINE ranking == turn.ranking
             t == turn'
  <1>1. turn.phase = "retrieved" /\ Ranking(ranking, points) /\ Ample(turn, points)
    BY DEF Order, Recalls, Ranks, Found
  <1>2. t = Ranked(ApplySlice(ranking, turn.hits, setup.quota))
    BY DEF Order
  <1>3. turn.dense => Enough(ranking.selected, points, TopK(turn.standing))
    BY <1>1 DEF Ample
  <1> HIDE DEF ranking, t
  <1>4. Mixed(ranking, turn.loaded, points)
    BY <1>1, RankingMixed
  <1>5. Recalls(t, setup, memories, points)
    BY <1>1, <1>2, <1>3, <1>4, MergeRecalls
  <1> QED BY <1>5 DEF t

LEMMA OrderFailsRecalls ==
    ASSUME Stored, Recalls(turn, setup, memories, points), OrderFails
    PROVE  Recalls(turn', setup, memories, points)
  <1> DEFINE t == turn'
             u == Ranked(turn.ranking)
  <1>1. /\ DOMAIN turn = DOMAIN Blank /\ turn.phase = "retrieved"
        /\ Ranking(turn.ranking, points) /\ Ample(turn, points)
    BY DEF OrderFails, Recalls, Loaded, Ranks, Found
  <1>2. t = [u EXCEPT !.sliced = FALSE]
    BY DEF OrderFails
  <1>3. /\ Kept(turn, u) /\ u.phase = "ordered" /\ u.dense = turn.dense
        /\ u.ranking = turn.ranking
    <2> DEFINE ranking == turn.ranking
    <2>1. u = Ranked(ranking) /\ DOMAIN turn = DOMAIN Blank
      BY <1>1
    <2> HIDE DEF u, ranking
    <2>2. Reordered(u, ranking)
      BY <2>1, RankedKeeps
    <2> QED BY <2>2 DEF Reordered, ranking
  <1> HIDE DEF t, u
  <1>4. /\ Kept(turn, t) /\ t.phase = "ordered" /\ t.sliced = FALSE /\ t.dense = turn.dense
        /\ t.ranking = turn.ranking
    BY <1>2, <1>3 DEF Kept, Blank
  <1>5. Mixed(turn.ranking, turn.loaded, points)
    <2> DEFINE ranking == turn.ranking
    <2>1. Ranking(ranking, points)
      BY <1>1
    <2> HIDE DEF ranking
    <2>2. Mixed(ranking, turn.loaded, points)
      BY <2>1, RankingMixed
    <2> QED BY <2>2 DEF ranking
  <1>6. t.loaded = turn.loaded /\ t.standing = turn.standing
    BY <1>4 DEF Kept
  <1>7. Ranks(t, setup, points)
    BY <1>1, <1>4, <1>5, <1>6 DEF Ranks, Merged, Ample
  <1>8. t.phase \in Phases
    BY <1>4 DEF Phases
  <1>9. Recalls(t, setup, memories, points)
    BY <1>1, <1>4, <1>7, <1>8, KeptRecalls
  <1> QED BY <1>9 DEF t

LEMMA BuildPromptRecalls ==
    ASSUME Stored, Recalls(turn, setup, memories, points), BuildPrompt
    PROVE  Recalls(turn', setup, memories, points)
  <1> DEFINE t == turn'
             selected == turn.ranking.selected
             prompt == PromptChunks(selected, turn.standing)
             E == Entries(turn.loaded, points)
  <1>1. /\ DOMAIN turn = DOMAIN Blank /\ turn.phase = "ordered"
        /\ Merged(turn, setup, points) /\ Ample(turn, points) /\ selected \in Seq(E)
    BY DEF BuildPrompt, Recalls, Loaded, Ranks, Merged, Mixed
  <1>2. /\ DOMAIN t = DOMAIN Blank /\ t.phase = "prompted" /\ t.message = turn.message
        /\ t.pins = turn.pins /\ t.loaded = turn.loaded /\ t.standing = turn.standing
        /\ t.hits = turn.hits /\ t.batch = turn.batch /\ t.written = turn.written
        /\ t.dense = turn.dense /\ t.sliced = turn.sliced /\ t.ranking = turn.ranking
        /\ t.confidence = turn.confidence /\ t.prompt = prompt
    BY <1>1 DEF BuildPrompt, Blank
  <1>3. prompt \in Seq(E) /\ Filled(prompt, selected, turn.standing, Len(selected))
    <2> DEFINE standing == turn.standing
    <2> HIDE DEF selected, standing, E
    <2>1. /\ PromptChunks(selected, standing) \in Seq(E)
          /\ Filled(PromptChunks(selected, standing), selected, standing, Len(selected))
      BY <1>1, TakenFill
    <2> QED BY <2>1 DEF standing
  <1> HIDE DEF t, prompt
  <1>4. t.ranking.selected = selected
    BY <1>2
  <1> HIDE DEF selected
  <1>5. Shows(t, points)
    BY <1>2, <1>3, <1>4 DEF Shows, E
  <1>6. Loaded(t, setup, points)
    <2>1. t.phase \in Phases
      BY <1>2 DEF Phases
    <2> QED BY <1>2, <2>1 DEF Recalls, Loaded
  <1>7. Ranks(t, setup, points)
    BY <1>1, <1>2 DEF Ranks, Merged, Ample
  <1>8. Leaves(t, memories, points)
    BY <1>1, <1>2 DEF Recalls, Leaves
  <1>9. Recalls(t, setup, memories, points)
    BY <1>5, <1>6, <1>7, <1>8 DEF Recalls
  <1> QED BY <1>9 DEF t

-----------------------------------------------------------------------------
(* What the turn leaves behind: candidates, and rows. *)

Batches == [curated : Seq(Candidate), extras : Seq(Candidate)]

LEMMA NamesTyped == "player" \in Visibility /\ SummaryTag \in Tags
  BY SessionAssumption DEF Visibility

LEMMA CandidateTyped ==
    ASSUME NEW c \in Candidate
    PROVE  /\ c.text \in Texts /\ c.vis \in Visibility /\ c.tags \in SUBSET Tags
           /\ c.importance \in Nat /\ c.bond \in Nat
  BY DEF Candidate

LEMMA FoldEventTyped ==
    ASSUME NEW batch \in Batches, NEW event \in Candidate
    PROVE  FoldEvent(batch, event) \in Batches
  <1> DEFINE curated == batch.curated
             extras == batch.extras
             i == BestCovering(event.text, curated)
             target == curated[i]
             folded == [target EXCEPT !.tags = target.tags \cup event.tags,
                                      !.importance = Max({target.importance, event.importance})]
             replaced == ReplaceAt(curated, i, folded)
  <1>1. curated \in Seq(Candidate) /\ extras \in Seq(Candidate)
    BY DEF Batches
  <1>2. CASE CoveringIndices(event.text, curated) = {}
    <2>1. Append(extras, event) \in Seq(Candidate)
      BY <1>1, AppendProperties
    <2> DEFINE more == Append(extras, event)
    <2>2. FoldEvent(batch, event) = [batch EXCEPT !.extras = more]
      BY <1>2 DEF FoldEvent
    <2> HIDE DEF more
    <2>3. [batch EXCEPT !.extras = more] \in Batches
      BY <2>1 DEF Batches, more
    <2> QED BY <2>2, <2>3
  <1>3. CASE CoveringIndices(event.text, curated) # {}
    <2>1. FoldEvent(batch, event) = [batch EXCEPT !.curated = replaced]
      BY <1>3 DEF FoldEvent
    <2>2. DOMAIN curated = 1..Len(curated) /\ Len(curated) \in Nat
          /\ \A k \in 1..Len(curated) : curated[k] \in Candidate
      BY <1>1, LenProperties, ElementOfSeq
    <2> HIDE DEF i
    <2>3. ASSUME i \in 1..Len(curated)
          PROVE  folded \in Candidate
      <3>1. target \in Candidate
        BY <2>2, <2>3
      <3>2. /\ target.tags \in SUBSET Tags /\ event.tags \in SUBSET Tags
            /\ target.importance \in Nat /\ event.importance \in Nat
        BY <3>1, CandidateTyped
      <3> DEFINE tags == target.tags \cup event.tags
                 importance == Max({target.importance, event.importance})
      <3>3. tags \in SUBSET Tags
        BY <3>2
      <3>4. importance \in Nat
        <4> DEFINE a == target.importance
                   b == event.importance
        <4>1. a \in Nat /\ b \in Nat
          BY <3>2
        <4>2. importance = Max({a, b})
          OBVIOUS
        <4> HIDE DEF a, b, importance
        <4>3. Max({a, b}) \in {a, b}
          <5>1. a \in Int /\ b \in Int
            BY <4>1
          <5> QED BY <5>1, GreaterOfTwo
        <4> QED BY <4>1, <4>2, <4>3
      <3>5. folded = [target EXCEPT !.tags = tags, !.importance = importance]
        OBVIOUS
      <3> HIDE DEF target, tags, importance, folded
      <3> QED BY <3>1, <3>3, <3>4, <3>5 DEF Candidate
    <2> HIDE DEF folded
    <2>4. replaced = [curated EXCEPT ![i] = folded]
      BY DEF ReplaceAt
    <2> HIDE DEF replaced, curated
    <2>5. replaced \in [1..Len(curated) -> Candidate]
      <3> DEFINE N == 1..Len(curated)
      <3>1. DOMAIN curated = N /\ \A k \in N : curated[k] \in Candidate
        BY <2>2
      <3>2. i \in N => folded \in Candidate
        BY <2>3
      <3>3. curated \in [N -> Candidate]
        <4>1. curated \in [1..Len(curated) -> Candidate]
          BY <1>1, SeqDef
        <4> QED BY <4>1
      <3> HIDE DEF N
      <3>4. replaced = [k \in N |-> IF k = i THEN folded ELSE curated[k]]
        BY <2>4, <3>1, <3>3
      <3>5. \A k \in N : (IF k = i THEN folded ELSE curated[k]) \in Candidate
        BY <3>1, <3>2
      <3>6. replaced \in [N -> Candidate]
        BY <3>4, <3>5
      <3> QED BY <3>6 DEF N
    <2>6. replaced \in Seq(Candidate)
      BY <2>2, <2>5, SeqDef
    <2>7. [batch EXCEPT !.curated = replaced] \in Batches
      BY <2>6 DEF Batches
    <2> QED BY <2>1, <2>7
  <1> QED BY <1>2, <1>3

LEMMA FoldTyped ==
    ASSUME NEW curated \in Seq(Candidate), NEW events \in Seq(Candidate)
    PROVE  FoldEvents(curated, events) \in Seq(Candidate)
  <1> DEFINE N == Len(events)
             X == Batches
             first == [curated |-> curated, extras |-> <<>>]
             step == [n \in 1..N |-> [x \in X |-> FoldEvent(x, events[n])]]
             Rec(f) == f = [n \in 0..N |-> IF n = 0 THEN first
                                           ELSE FoldEvent(f[n - 1], events[n])]
  <1>1. N \in Nat /\ \A n \in 1..N : events[n] \in Candidate
    BY LenProperties, ElementOfSeq
  <1>2. first \in X
    BY DEF Batches
  <1>3. ASSUME NEW n \in 1..N, NEW x \in X
        PROVE  FoldEvent(x, events[n]) \in X
    <2>1. events[n] \in Candidate
      BY <1>1
    <2> QED BY <2>1, FoldEventTyped
  <1>a. FoldEvents(curated, events) =
          (CHOOSE f : Rec(f))[N].curated \o (CHOOSE f : Rec(f))[N].extras
    BY DEF FoldEvents
  <1> HIDE DEF N, X, first
  <1>4. step \in Steps(N, X)
    BY <1>3 DEF Steps
  <1>5. PICK g \in [0..N -> X] : g[0] = first /\ \A n \in 1..N : g[n] = step[n][g[n - 1]]
    <2> HIDE DEF step
    <2>2. \E g : Walk(g, first, step, N, X)
      BY <1>1, <1>2, <1>4, WalkExists
    <2> QED BY <2>2 DEF Walk
  <1>6. ASSUME NEW n \in 1..N
        PROVE  g[n] = FoldEvent(g[n - 1], events[n])
    <2>1. n - 1 \in 0..N
      BY <1>1
    <2>2. g[n - 1] \in X
      BY <2>1
    <2> QED BY <1>5, <2>2
  <1>7. Rec(g)
    <2>1. g = [n \in 0..N |-> g[n]]
      OBVIOUS
    <2>2. \A n \in 0..N : g[n] = IF n = 0 THEN first ELSE FoldEvent(g[n - 1], events[n])
      <3>1. \A n \in 0..N : n # 0 => n \in 1..N
        BY <1>1
      <3> QED BY <1>5, <1>6, <3>1
    <2> QED BY <2>1, <2>2
  <1> DEFINE f == CHOOSE f : Rec(f)
  <1>8. Rec(f)
    <2> HIDE DEF Rec
    <2> QED BY <1>7
  <1>9. FoldEvents(curated, events) = f[N].curated \o f[N].extras
    BY <1>a
  <1>10. f[0] = first /\ \A n \in 1..N : f[n] = FoldEvent(f[n - 1], events[n])
    <2> HIDE DEF f
    <2> QED BY <1>1, <1>8
  <1> HIDE DEF f
  <1> DEFINE P == {n \in 0..N : f[n] \in X}
  <1>11. 0 \in P
    BY <1>1, <1>2, <1>10
  <1>12. ASSUME NEW n \in 1..N, n - 1 \in P
         PROVE  n \in P
    <2>1. f[n - 1] \in X /\ n \in 0..N
      BY <1>1, <1>12
    <2> QED BY <1>3, <1>10, <2>1
  <1>13. 0..N \subseteq P
    <2> HIDE DEF P
    <2> QED BY <1>1, <1>11, <1>12, UpTo
  <1>14. f[N] \in Batches
    BY <1>1, <1>13 DEF X
  <1> DEFINE last == f[N]
  <1>15. last.curated \in Seq(Candidate) /\ last.extras \in Seq(Candidate)
    BY <1>14 DEF Batches
  <1> HIDE DEF last
  <1>16. last.curated \o last.extras \in Seq(Candidate)
    BY <1>15, ConcatProperties
  <1> QED BY <1>9, <1>16 DEF last

LEMMA ExplicitTyped ==
    ASSUME NEW message \in Seq(Texts)
    PROVE  ExplicitEvents(message) \in Seq(Candidate)
  <1> DEFINE I == {i \in DOMAIN message : Text[message[i]].event # {}}
             stated == At(message, I)
             n == Len(stated)
             event(t) == [text |-> t, vis |-> "player", tags |-> Text[t].event,
                          importance |-> EventImportance, bond |-> PlayerAndActor]
             events == [i \in DOMAIN stated |-> event(stated[i])]
  <1>1. ExplicitEvents(message) = events
    BY DEF ExplicitEvents
  <1>2. stated \in Seq(Texts)
    <2>1. I \in SUBSET DOMAIN message
      OBVIOUS
    <2> HIDE DEF I
    <2> QED BY <2>1, AtListed
  <1> HIDE DEF stated
  <1>3. DOMAIN stated = 1..n /\ n \in Nat /\ \A i \in 1..n : stated[i] \in Texts
    BY <1>2, LenProperties, ElementOfSeq
  <1>4. ASSUME NEW t \in Texts
        PROVE  event(t) \in Candidate
    <2>1. Text[t].event \in SUBSET Tags
      BY RecallAssumption DEF Texts
    <2>2. EventImportance \in Nat /\ PlayerAndActor \in Nat
      BY DEF EventImportance, PlayerAndActor
    <2> DEFINE tags == Text[t].event
               importance == EventImportance
               bond == PlayerAndActor
               vis == "player"
               made == [text |-> t, vis |-> vis, tags |-> tags,
                        importance |-> importance, bond |-> bond]
    <2>3. event(t) = made
      BY Zenon
    <2>4. vis \in Visibility
      BY NamesTyped
    <2> HIDE DEF tags, importance, bond, vis
    <2>5. made \in Candidate
      BY <1>4, <2>1, <2>2, <2>4 DEF Candidate, tags, importance, bond
    <2> QED BY <2>3, <2>5
  <1> HIDE DEF event, n
  <1>5. events \in [1..n -> Candidate]
    BY <1>3, <1>4
  <1> HIDE DEF events
  <1> QED BY <1>1, <1>3, <1>5, SeqDef

LEMMA DroppedTyped ==
    ASSUME NEW candidates \in Seq(Candidate), NEW existing, NEW embedderUp
    PROVE  DropDuplicates(candidates, existing, embedderUp) \in Seq(Candidate)
  <1> DEFINE covered == DropCovered(candidates, existing)
             alike == DropAlike(covered, existing)
  <1>1. DropDuplicates(candidates, existing, embedderUp) \in {candidates, alike, covered}
    BY DEF DropDuplicates
  <1>2. covered \in Seq(Candidate)
    <2>1. PICK f \in [0..Len(candidates) -> Seq(Candidate)] : covered = f[Len(candidates)]
      BY CoverWalk
    <2>2. Len(candidates) \in 0..Len(candidates)
      BY LenProperties
    <2> QED BY <2>1, <2>2
  <1> HIDE DEF covered
  <1>3. alike \in Seq(Candidate)
    <2>1. PICK f \in [0..Len(covered) -> Seq(Candidate)] : alike = f[Len(covered)]
      BY <1>2, AlikeWalk
    <2>2. Len(covered) \in 0..Len(covered)
      BY <1>2, LenProperties
    <2> QED BY <2>1, <2>2
  <1> QED BY <1>1, <1>2, <1>3

LEMMA GuardRecalls ==
    ASSUME Recalls(turn, setup, memories, points), RedactNext \/ FinishGuard
    PROVE  Recalls(turn', setup, memories, points)
  <1> DEFINE t == turn'
  <1>1. DOMAIN turn = DOMAIN Blank /\ turn.phase = "guarding"
    BY DEF Recalls, Loaded, RedactNext, FinishGuard
  <1>2. Kept(turn, t) /\ t.phase \in {"guarding", "criticised", "sent"}
    <2>1. CASE RedactNext
      <3>1. PICK u \in NextUnits(turn.units) :
               t = IF Occurrences(turn.text, u) # {}
                   THEN [turn EXCEPT !.text = RedactFirst(turn.text, u)]
                   ELSE [turn EXCEPT !.units = turn.units \ {u}]
        BY <2>1 DEF RedactNext
      <3> DEFINE text == RedactFirst(turn.text, u)
                 units == turn.units \ {u}
      <3>2. t = [turn EXCEPT !.text = text] \/ t = [turn EXCEPT !.units = units]
        BY <3>1
      <3> HIDE DEF t, text, units
      <3> QED BY <1>1, <3>2 DEF Kept, Blank
    <2>2. CASE FinishGuard
      <3> DEFINE phase == IF turn.role = "critic" THEN "criticised" ELSE "sent"
                 flagged == IF turn.role = "critic" THEN {} ELSE Paraphrased(turn.text, HiddenFacts)
      <3>1. t = [turn EXCEPT !.phase = phase, !.flagged = flagged]
        BY <2>2 DEF FinishGuard
      <3>2. phase \in {"criticised", "sent"}
        OBVIOUS
      <3> HIDE DEF t, phase, flagged
      <3> QED BY <1>1, <3>1, <3>2 DEF Kept, Blank
    <2> QED BY <2>1, <2>2
  <1> HIDE DEF t
  <1>3. t.phase \in Phases \ {"prompted", "curated", "stored"}
    BY <1>2 DEF Phases
  <1>4. Ranks(t, setup, points)
    BY <1>2 DEF Ranks
  <1>5. Recalls(t, setup, memories, points)
    BY <1>1, <1>2, <1>3, <1>4, KeptRecalls
  <1> QED BY <1>5 DEF t

LEMMA BlankResting == Resting(Blank)
  BY DEF Resting, Blank

\* The steps that begin a part of the turn with nothing recalled.
LEMMA RestRecalls ==
    ASSUME Recalls(turn, setup, memories, points),
           \/ \E role \in {"actor", "critic"}, text \in Speech : Speak(role, text)
           \/ SkipCuration
           \/ \E answer \in CuratorAnswers : Curate(answer)
           \/ CuratorFails
    PROVE  Recalls(turn', setup, memories, points)
  <1> DEFINE t == turn'
             message == turn.message
  <1>1. message \in Seq(Texts)
    BY DEF Recalls, Loaded
  <1>2. SUFFICES Resting(t)
    <2> HIDE DEF t
    <2>1. ASSUME Resting(t)
          PROVE  Recalls(t, setup, memories, points)
      BY <2>1, RestingRecalls
    <2> QED BY <2>1 DEF t
  <1>3. ASSUME NEW role \in {"actor", "critic"}, NEW text \in Speech, Speak(role, text)
        PROVE  Resting(t)
    <2>1. t = [Blank EXCEPT !.phase = "guarding", !.message = message, !.role = role,
                            !.said = text, !.text = text,
                            !.units = MatchableUnits(HiddenFacts)]
      BY <1>3 DEF Speak
    <2> HIDE DEF t, message
    <2> QED BY <1>1, <2>1 DEF Resting, Blank
  <1>4. CASE SkipCuration
    BY <1>4, BlankResting DEF SkipCuration
  <1>5. ASSUME NEW answer \in CuratorAnswers, Curate(answer)
        PROVE  Resting(t)
    <2> DEFINE events == ExplicitEvents(message)
               batch == FoldEvents(answer, events)
    <2>1. t = [Blank EXCEPT !.phase = "curated", !.message = message, !.curated = answer,
                            !.batch = batch]
      BY <1>5 DEF Curate
    <2> HIDE DEF t, message
    <2>2. events \in Seq(Candidate) /\ answer \in Seq(Candidate)
      BY <1>1, ExplicitTyped, SessionAssumption
    <2> HIDE DEF events
    <2>3. batch \in Seq(Candidate)
      BY <2>2, FoldTyped
    <2> HIDE DEF batch
    <2> QED BY <1>1, <2>1, <2>3 DEF Resting, Blank
  <1>6. CASE CuratorFails
    <2> DEFINE events == ExplicitEvents(message)
    <2>1. t = [Blank EXCEPT !.phase = "curated", !.message = message, !.fallback = TRUE,
                            !.batch = events]
      BY <1>6 DEF CuratorFails
    <2> HIDE DEF t, message
    <2>2. events \in Seq(Candidate)
      BY <1>1, ExplicitTyped
    <2> HIDE DEF events
    <2> QED BY <1>1, <2>1, <2>2 DEF Resting, Blank
  <1> QED BY <1>3, <1>4, <1>5, <1>6

LEMMA PersistFailsRecalls ==
    ASSUME Recalls(turn, setup, memories, points), PersistFails
    PROVE  Recalls(turn', setup, memories, points)
  <1> DEFINE t == turn'
             events == ExplicitEvents(turn.message)
  <1>1. /\ DOMAIN turn = DOMAIN Blank /\ turn.phase = "curated" /\ turn.message \in Seq(Texts)
    BY DEF Recalls, Loaded, PersistFails
  <1>2. t = [turn EXCEPT !.curated = <<>>, !.fallback = TRUE, !.batch = events] \/ t = Blank
    BY DEF PersistFails
  <1>3. events \in Seq(Candidate)
    BY <1>1, ExplicitTyped
  <1> HIDE DEF t, events
  <1>4. CASE t = Blank
    <2>1. Recalls(t, setup, memories, points)
      BY <1>4, BlankResting, RestingRecalls
    <2> QED BY <2>1 DEF t
  <1>5. CASE t = [turn EXCEPT !.curated = <<>>, !.fallback = TRUE, !.batch = events]
    <2>1. /\ DOMAIN t = DOMAIN Blank /\ t.phase = "curated" /\ t.message = turn.message
          /\ t.pins = turn.pins /\ t.loaded = turn.loaded /\ t.standing = turn.standing
          /\ t.hits = turn.hits /\ t.batch = events /\ t.written = turn.written
          /\ t.prompt = turn.prompt
      BY <1>1, <1>5 DEF Blank
    <2>2. t.phase \in Phases
      BY <2>1 DEF Phases
    <2>3. Loaded(t, setup, points)
      BY <2>1, <2>2 DEF Recalls, Loaded
    <2>4. Ranks(t, setup, points)
      BY <2>1 DEF Ranks
    <2>5. Shows(t, points)
      BY <1>1, <2>1 DEF Recalls, Shows
    <2>6. Leaves(t, memories, points)
      BY <1>1, <1>3, <2>1 DEF Recalls, Leaves
    <2>7. Recalls(t, setup, memories, points)
      BY <2>3, <2>4, <2>5, <2>6 DEF Recalls
    <2> QED BY <2>7 DEF t
  <1> QED BY <1>2, <1>4, <1>5

\* A new row's id is greater than any there was.
LEMMA LastIdGreatest ==
    ASSUME Stored, Recalls(turn, setup, memories, points)
    PROVE  /\ LastId \in Nat
           /\ \A m \in memories \cup points \cup turn.loaded : m.id <= LastId
  <1> DEFINE S == memories \cup points \cup turn.loaded
             f == [m \in S |-> m.id]
             A == {f[m] : m \in S}
             I == {0} \cup A
  <1>1. /\ memories \subseteq Memory /\ IsFiniteSet(memories)
        /\ points \subseteq Chunk /\ IsFiniteSet(points)
        /\ turn.loaded \subseteq Memory /\ IsFiniteSet(turn.loaded)
    BY DEF Stored, Recalls, Loaded, Known, Rows, Chunks
  <1>2. IsFiniteSet(S)
    <2>1. IsFiniteSet(memories \cup points)
      BY <1>1, FS_Union
    <2> QED BY <1>1, <2>1, FS_Union
  <1>3. \A m \in S : m.id \in Nat
    BY <1>1, MemoryTyped, ChunkTyped
  <1>4. LastId = Max(I)
    <2>1. A = {m.id : m \in memories \cup points \cup turn.loaded}
      OBVIOUS
    <2> HIDE DEF A
    <2> QED BY <2>1 DEF LastId
  <1>5. A \in SUBSET Nat /\ \A m \in S : m.id \in A
    BY <1>3
  <1>6. IsFiniteSet(A)
    <2>1. DOMAIN f = S
      OBVIOUS
    <2> HIDE DEF f, S
    <2> QED BY <1>2, <2>1, ImageFinite
  <1> HIDE DEF A
  <1>7. IsFiniteSet(I)
    BY <1>6, FS_AddElement
  <1>8. I \in SUBSET Nat /\ I # {} /\ \A m \in S : m.id \in I
    BY <1>5
  <1> HIDE DEF I
  <1>9. I \in SUBSET Int
    BY <1>8
  <1>10. Max(I) \in I /\ \A y \in I : Max(I) >= y
    BY <1>7, <1>8, <1>9, GreatestExists
  <1> DEFINE M == Max(I)
  <1>11. M \in Nat /\ \A y \in I : y \in Nat /\ M >= y
    BY <1>8, <1>10
  <1>12. LastId = M
    BY <1>4
  <1> HIDE DEF M
  <1>13. \A m \in S : m.id <= M
    BY <1>8, <1>11
  <1> QED BY <1>11, <1>12, <1>13

LEMMA RowTyped ==
    ASSUME NEW id \in Nat, NEW c \in Candidate, turns \in Nat
    PROVE  Row(id, c) \in Memory /\ Row(id, c).id = id /\ ~Row(id, c).retired
  <1> DEFINE text == c.text
             vis == c.vis
             tags == c.tags
             importance == c.importance
             bond == c.bond
             created == turns
             retired == FALSE
             row == [id |-> id, text |-> text, vis |-> vis, tags |-> tags, retired |-> retired,
                     importance |-> importance, created |-> created, bond |-> bond]
  <1>1. /\ text \in Texts /\ vis \in Visibility /\ tags \in SUBSET Tags
        /\ importance \in Nat /\ bond \in Nat /\ created \in Nat /\ retired \in BOOLEAN
    BY CandidateTyped
  <1>2. Row(id, c) = row /\ ~retired
    BY DEF Row
  <1> HIDE DEF text, vis, tags, importance, bond, created, retired
  <1>3. row \in Memory
    BY <1>1 DEF Memory
  <1> QED BY <1>2, <1>3

LEMMA MemoryChunkTyped ==
    ASSUME NEW m \in Memory
    PROVE  /\ MemoryChunk(m) \in Chunk
           /\ [MemoryChunk(m) EXCEPT !.collection = "persona"] \in Chunk
           /\ MemoryChunk(m).id = m.id /\ MemoryChunk(m).text = m.text
           /\ MemoryChunk(m).collection = "session"
  <1> DEFINE id == m.id
             text == m.text
             vis == m.vis
             tags == m.tags
             importance == m.importance
             created == m.created
             bond == m.bond + SessionBoost
             session == "session"
             persona == "persona"
             chunk == [id |-> id, collection |-> session, text |-> text, vis |-> vis,
                       tags |-> tags, importance |-> importance, created |-> created,
                       bond |-> bond]
  <1>1. /\ id \in Nat /\ text \in Texts /\ vis \in Visibility /\ tags \in SUBSET Tags
        /\ importance \in Nat /\ bond \in Nat /\ created \in Nat
    BY MemoryTyped DEF SessionBoost
  <1>2. session \in DOMAIN CollectionWeight /\ persona \in DOMAIN CollectionWeight
    BY DEF CollectionWeight
  <1>3. MemoryChunk(m) = chunk
    BY DEF MemoryChunk
  <1> HIDE DEF id, text, vis, tags, importance, created, bond, session, persona
  <1>4. chunk \in Chunk
    BY <1>1, <1>2 DEF Chunk
  <1>5. [chunk EXCEPT !.collection = persona] \in Chunk
    BY <1>2, <1>4 DEF Chunk
  <1>6. chunk.id = id /\ chunk.text = text /\ chunk.collection = session
    OBVIOUS
  <1> HIDE DEF chunk
  <1> QED BY <1>3, <1>4, <1>5, <1>6 DEF id, text, session, persona

\* Rows of a session: new ones under ids of their own.
LEMMA RowsAdded ==
    ASSUME NEW mems, NEW pts, NEW pinning, Known(mems, pts, pinning),
           NEW added \in SUBSET Memory, IsFiniteSet(added),
           \A m, n \in added : m.id = n.id => m = n,
           \A m \in added, n \in mems \cup pts : m.id # n.id,
           \A m \in added : ~m.retired
    PROVE  Known(mems \cup added, pts, pinning)
  <1>1. /\ mems \subseteq Memory /\ IsFiniteSet(mems)
        /\ \A m, n \in mems : m.id = n.id => m = n
    BY DEF Known, Rows
  <1>2. IsFiniteSet(mems \cup added)
    BY <1>1, FS_Union
  <1>3. ASSUME NEW m \in mems \cup added, NEW n \in mems \cup added, m.id = n.id
        PROVE  m = n
    <2>1. CASE m \in mems /\ n \in mems
      BY <1>1, <1>3, <2>1
    <2>2. CASE m \in added /\ n \in added
      BY <1>3, <2>2
    <2>3. CASE m \in added /\ n \in mems
      BY <1>3, <2>3
    <2>4. CASE m \in mems /\ n \in added
      BY <1>3, <2>4
    <2> QED BY <2>1, <2>2, <2>3, <2>4
  <1>4. Rows(mems \cup added)
    BY <1>1, <1>2, <1>3 DEF Rows
  <1>5. SameText(mems \cup added, pts)
    BY DEF Known, SameText
  <1>6. RetiredPlain(mems \cup added, pinning)
    BY DEF Known, RetiredPlain
  <1> QED BY <1>4, <1>5, <1>6 DEF Known

LEMMA FewerPoints ==
    ASSUME NEW pts, Chunks(pts), NEW fewer \in SUBSET pts
    PROVE  /\ Chunks(fewer)
           /\ \A mems, pinning : Known(mems, pts, pinning) => Known(mems, fewer, pinning)
  <1>1. IsFiniteSet(fewer)
    BY FS_Subset DEF Chunks
  <1>2. Chunks(fewer)
    BY <1>1 DEF Chunks
  <1>3. ASSUME NEW mems, NEW pinning, Known(mems, pts, pinning)
        PROVE  Known(mems, fewer, pinning)
    BY <1>3 DEF Known, SameText
  <1> QED BY <1>2, <1>3

\* The chunks that index rows.
IndexOf(p, m) == p.id = m.id /\ p.text = m.text
    /\ (p = MemoryChunk(m) \/ p = [MemoryChunk(m) EXCEPT !.collection = "persona"])

LEMMA PointsOfRows ==
    ASSUME NEW rows \in SUBSET Memory, IsFiniteSet(rows), \A m, n \in rows : m.id = n.id => m = n
    PROVE  /\ Chunks(PointsOf(rows))
           /\ \A p \in PointsOf(rows) : \E m \in rows : IndexOf(p, m)
  <1> DEFINE second(m) == [MemoryChunk(m) EXCEPT !.collection = "persona"]
             lasting == {n \in rows : n.vis = "player" /\ n.bond > 0 /\ n.importance >= PersonaFloor}
             A == {MemoryChunk(m) : m \in rows}
             B == {second(m) : m \in lasting}
  <1>1. PointsOf(rows) = A \cup B
    BY DEF PointsOf
  <1>2. ASSUME NEW m \in rows
        PROVE  /\ MemoryChunk(m) \in Chunk /\ second(m) \in Chunk
               /\ IndexOf(MemoryChunk(m), m) /\ IndexOf(second(m), m)
    <2>1. /\ MemoryChunk(m) \in Chunk /\ second(m) \in Chunk
          /\ MemoryChunk(m).id = m.id /\ MemoryChunk(m).text = m.text
      BY MemoryChunkTyped
    <2> DEFINE chunk == MemoryChunk(m)
               persona == "persona"
    <2>2. second(m) = [chunk EXCEPT !.collection = persona] /\ chunk \in Chunk
      BY <2>1
    <2> HIDE DEF chunk, persona
    <2>3. [chunk EXCEPT !.collection = persona].id = chunk.id
          /\ [chunk EXCEPT !.collection = persona].text = chunk.text
      BY <2>2 DEF Chunk
    <2>4. second(m).id = chunk.id /\ second(m).text = chunk.text
      BY <2>2, <2>3
    <2> QED BY <2>1, <2>4 DEF IndexOf, chunk
  <1>3. IsFiniteSet(A)
    <2> DEFINE f == [m \in rows |-> MemoryChunk(m)]
    <2>1. A = {f[m] : m \in rows} /\ DOMAIN f = rows
      OBVIOUS
    <2> HIDE DEF f, A
    <2>2. IsFiniteSet({f[m] : m \in rows})
      BY <2>1, ImageFinite
    <2> QED BY <2>1, <2>2
  <1>4. IsFiniteSet(B)
    <2> DEFINE f == [m \in lasting |-> second(m)]
    <2>1. B = {f[m] : m \in lasting} /\ DOMAIN f = lasting
      OBVIOUS
    <2>2. IsFiniteSet(lasting)
      <3>1. lasting \in SUBSET rows
        OBVIOUS
      <3> HIDE DEF lasting
      <3> QED BY <3>1, FS_Subset
    <2> HIDE DEF f, B, lasting
    <2>3. IsFiniteSet({f[m] : m \in lasting})
      BY <2>1, <2>2, ImageFinite
    <2> QED BY <2>1, <2>3
  <1>5. \A p \in A \cup B : \E m \in rows : p \in Chunk /\ IndexOf(p, m)
    <2> HIDE DEF second
    <2> QED BY <1>2
  <1> HIDE DEF A, B
  <1>6. IsFiniteSet(A \cup B)
    BY <1>3, <1>4, FS_Union
  <1> DEFINE P == PointsOf(rows)
  <1>7. IsFiniteSet(P) /\ P \subseteq Chunk /\ \A p \in P : \E m \in rows : IndexOf(p, m)
    BY <1>1, <1>5, <1>6
  <1> HIDE DEF P
  <1>8. ASSUME NEW p \in P, NEW q \in P, p.id = q.id
        PROVE  p.text = q.text /\ (p.collection = q.collection => p = q)
    <2>1. PICK m \in rows : IndexOf(p, m)
      BY <1>7
    <2>2. PICK n \in rows : IndexOf(q, n)
      BY <1>7
    <2>3. m = n
      BY <1>8, <2>1, <2>2 DEF IndexOf
    <2>4. p.text = q.text
      BY <2>1, <2>2, <2>3 DEF IndexOf
    <2> DEFINE chunk == MemoryChunk(m)
               persona == "persona"
               session == "session"
               copy == [chunk EXCEPT !.collection = persona]
    <2>5. chunk \in Chunk /\ chunk.collection = session
      BY MemoryChunkTyped
    <2>6. p \in {chunk, copy} /\ q \in {chunk, copy}
      BY <2>1, <2>2, <2>3 DEF IndexOf
    <2>7. session # persona
      OBVIOUS
    <2> HIDE DEF chunk, persona, session
    <2>8. copy.collection = persona
      BY <2>5 DEF Chunk
    <2> HIDE DEF copy
    <2>9. p.collection = q.collection => p = q
      BY <2>5, <2>6, <2>7, <2>8
    <2> QED BY <2>4, <2>9
  <1>9. Chunks(P)
    BY <1>7, <1>8 DEF Chunks
  <1> QED BY <1>7, <1>9 DEF P

\* Rows indexed for the first time.
LEMMA RowsIndexed ==
    ASSUME NEW mems, NEW pts, NEW pinning, Known(mems, pts, pinning), Chunks(pts),
           NEW rows \in SUBSET mems, \A m \in rows, p \in pts : m.id # p.id
    PROVE  /\ Chunks(pts \cup PointsOf(rows))
           /\ Known(mems, pts \cup PointsOf(rows), pinning)
           /\ \A others : /\ Known(others, pts, pinning)
                          /\ \A m \in rows, n \in others : m.id # n.id
                          => Known(others, pts \cup PointsOf(rows), pinning)
  <1> DEFINE P == PointsOf(rows)
             all == pts \cup P
  <1>1. /\ mems \subseteq Memory /\ IsFiniteSet(mems)
        /\ \A m, n \in mems : m.id = n.id => m = n
    BY DEF Known, Rows
  <1>2. rows \in SUBSET Memory /\ IsFiniteSet(rows) /\ \A m, n \in rows : m.id = n.id => m = n
    BY <1>1, FS_Subset
  <1>3. Chunks(P) /\ \A p \in P : \E m \in rows : IndexOf(p, m)
    BY <1>2, PointsOfRows
  <1> HIDE DEF P
  <1>4. \A p \in P : \E m \in rows : p.id = m.id /\ p.text = m.text
    BY <1>3 DEF IndexOf
  <1>5. \A p \in P, q \in pts : p.id # q.id
    BY <1>4
  <1>6. IsFiniteSet(all) /\ all \subseteq Chunk
    BY <1>3, FS_Union DEF Chunks
  <1>7. ASSUME NEW p \in all, NEW q \in all, p.id = q.id
        PROVE  p.text = q.text /\ (p.collection = q.collection => p = q)
    <2>1. CASE p \in pts /\ q \in pts
      BY <1>7, <2>1 DEF Chunks
    <2>2. CASE p \in P /\ q \in P
      BY <1>3, <1>7, <2>2 DEF Chunks
    <2>3. CASE p \in P /\ q \in pts
      BY <1>5, <1>7, <2>3
    <2>4. CASE p \in pts /\ q \in P
      BY <1>5, <1>7, <2>4
    <2> QED BY <2>1, <2>2, <2>3, <2>4
  <1>8. Chunks(all)
    BY <1>6, <1>7 DEF Chunks
  <1>9. SameText(mems, P)
    <2>1. ASSUME NEW n \in mems, NEW p \in P, n.id = p.id
          PROVE  n.text = p.text
      <3>1. PICK m \in rows : p.id = m.id /\ p.text = m.text
        BY <1>4
      <3>2. m = n
        BY <1>1, <2>1, <3>1
      <3> QED BY <3>1, <3>2
    <2> QED BY <2>1 DEF SameText
  <1>10. Known(mems, all, pinning)
    BY <1>9 DEF Known, SameText
  <1>11. ASSUME NEW others, Known(others, pts, pinning), \A m \in rows, n \in others : m.id # n.id
         PROVE  Known(others, all, pinning)
    <2>1. \A p \in P, n \in others : n.id # p.id
      BY <1>4, <1>11
    <2> QED BY <1>11, <2>1 DEF Known, SameText
  <1> QED BY <1>8, <1>10, <1>11 DEF P

\* The rows a batch is written as.
WrittenAs(rows, kept, last) == rows = {Row(last + i, kept[i]) : i \in DOMAIN kept}

LEMMA RowsWritten ==
    ASSUME NEW last \in Nat, NEW kept \in Seq(Candidate), turns \in Nat,
           NEW rows, WrittenAs(rows, kept, last)
    PROVE  /\ rows \in SUBSET Memory /\ IsFiniteSet(rows)
           /\ \A m, n \in rows : m.id = n.id => m = n
           /\ \A m \in rows : ~m.retired /\ m.id > last
  <1> DEFINE N == 1..Len(kept)
             f == [i \in N |-> Row(last + i, kept[i])]
  <1>1. DOMAIN kept = N /\ Len(kept) \in Nat /\ \A i \in N : kept[i] \in Candidate
    BY LenProperties, ElementOfSeq
  <1>2. ASSUME NEW i \in N
        PROVE  f[i] \in Memory /\ f[i].id = last + i /\ ~f[i].retired /\ last + i > last
    <2> DEFINE id == last + i
               c == kept[i]
    <2>1. id \in Nat /\ c \in Candidate /\ id > last
      BY <1>1
    <2>2. f[i] = Row(id, c)
      OBVIOUS
    <2> HIDE DEF id, c, f
    <2>3. Row(id, c) \in Memory /\ Row(id, c).id = id /\ ~Row(id, c).retired
      BY <2>1, RowTyped
    <2>4. f[i] \in Memory /\ f[i].id = id /\ ~f[i].retired /\ id > last
      BY <2>1, <2>2, <2>3
    <2> QED BY <2>4 DEF id
  <1>3. IsFiniteSet(N) /\ DOMAIN f = N
    BY <1>1, FS_Interval
  <1>4. rows = {f[i] : i \in N}
    BY <1>1 DEF WrittenAs
  <1> HIDE DEF f
  <1>5. IsFiniteSet(rows)
    <2>1. IsFiniteSet({f[i] : i \in N})
      <3> HIDE DEF N
      <3> QED BY <1>3, ImageFinite
    <2> QED BY <1>4, <2>1
  <1>6. \A i, j \in N : f[i].id = f[j].id => i = j
    BY <1>1, <1>2
  <1> HIDE DEF N
  <1>7. rows \in SUBSET Memory /\ \A m \in rows : ~m.retired /\ m.id > last
    BY <1>2, <1>4
  <1>8. \A m, n \in rows : m.id = n.id => m = n
    BY <1>4, <1>6
  <1> QED BY <1>5, <1>7, <1>8

LEMMA PersistRecalls ==
    ASSUME Stored, Recalls(turn, setup, memories, points),
           NEW cacheUp \in BOOLEAN, NEW embedderUp \in BOOLEAN, Persist(cacheUp, embedderUp)
    PROVE  Stored' /\ Recalls(turn', setup, memories', points)
  <1> DEFINE existing == {m.text : m \in memories}
             kept == IF cacheUp THEN DropDuplicates(turn.batch, existing, embedderUp)
                     ELSE turn.batch
             rows == {Row(LastId + i, kept[i]) : i \in DOMAIN kept}
             mems == memories \cup rows
             t == turn'
  <1>1. /\ DOMAIN turn = DOMAIN Blank /\ turn.phase = "curated" /\ turn.message \in Seq(Texts)
        /\ turn.pins \in Seq(CanonTexts) /\ turn.batch \in Seq(Candidate)
        /\ turn.hits = <<>> /\ turn.standing = <<>> /\ turn.prompt = <<>>
        /\ Known(memories, points, setup.pinning) /\ turns \in Nat
    BY SessionAssumption DEF Recalls, Loaded, Leaves, Shows, Stored, Persist
  <1>2. /\ memories' = mems
        /\ t = [turn EXCEPT !.phase = "stored", !.written = rows, !.loaded = memories,
                            !.deduped = cacheUp]
        /\ setup' = setup /\ points' = points /\ pinned' = pinned /\ turns' = turns
        /\ edits' = edits
    BY DEF Persist
  <1>3. kept \in Seq(Candidate)
    <2> HIDE DEF existing
    <2>1. DropDuplicates(turn.batch, existing, embedderUp) \in Seq(Candidate)
      BY <1>1, DroppedTyped
    <2> QED BY <1>1, <2>1
  <1> DEFINE last == LastId
  <1>4. last \in Nat /\ \A m \in memories \cup points : m.id <= last
    BY LastIdGreatest
  <1>5. WrittenAs(rows, kept, last)
    BY DEF WrittenAs
  <1> HIDE DEF t, kept, rows, last
  <1>6. /\ rows \in SUBSET Memory /\ IsFiniteSet(rows)
        /\ \A m, n \in rows : m.id = n.id => m = n
        /\ \A m \in rows : ~m.retired /\ m.id > last
    <2>1. last \in Nat /\ turns \in Nat
      BY <1>1, <1>4
    <2> QED BY <1>3, <1>5, <2>1, RowsWritten
  <1>7. \A m \in memories \cup points : m.id \in Nat
    BY MemoryTyped, ChunkTyped DEF Stored, Known, Rows, Chunks
  <1>8. \A m \in rows, n \in memories \cup points : m.id # n.id
    <2>1. \A m \in rows : m.id \in Nat
      BY <1>6, MemoryTyped
    <2> QED BY <1>4, <1>6, <1>7, <2>1
  <1>9. Known(mems, points, setup.pinning)
    <2> DEFINE pinning == setup.pinning
    <2>1. Known(memories, points, pinning)
      BY <1>1
    <2> HIDE DEF pinning
    <2>2. Known(memories \cup rows, points, pinning)
      BY <1>6, <1>8, <2>1, RowsAdded
    <2> QED BY <2>2 DEF pinning
  <1>10. Stored'
    BY <1>2, <1>9 DEF Stored
  <1>11. /\ DOMAIN t = DOMAIN Blank /\ t.phase = "stored" /\ t.message = turn.message
         /\ t.pins = turn.pins /\ t.loaded = memories /\ t.standing = <<>>
         /\ t.hits = <<>> /\ t.batch = turn.batch /\ t.written = rows /\ t.prompt = <<>>
    BY <1>1, <1>2 DEF Blank
  <1>12. Loaded(t, setup, points)
    <2>1. t.phase \in Phases
      BY <1>11 DEF Phases
    <2>2. Hits(t.hits, t.loaded)
      BY <1>11 DEF Hits
    <2>3. Standing(t.standing, t.loaded, t.pins, setup.pinning)
      <3>1. 0 <= CanonMaxItems
        BY RecallAssumption
      <3>2. ASSUME NEW l, NEW m, NEW p, NEW c, l = <<>>
            PROVE  Standing(l, m, p, c)
        BY <3>1, <3>2 DEF Standing
      <3> QED BY <1>11, <3>2
    <2> QED BY <1>1, <1>11, <2>1, <2>2, <2>3 DEF Loaded
  <1>13. Ranks(t, setup, points) /\ Shows(t, points)
    BY <1>11 DEF Ranks, Shows
  <1>14. Leaves(t, mems, points)
    BY <1>1, <1>8, <1>11 DEF Leaves
  <1>15. Recalls(t, setup, mems, points)
    BY <1>12, <1>13, <1>14 DEF Recalls
  <1> QED BY <1>2, <1>10, <1>15 DEF t

LEMMA IndexRecalls ==
    ASSUME Stored, Recalls(turn, setup, memories, points), NEW ok \in BOOLEAN, Index(ok)
    PROVE  Stored' /\ Recalls(turn', setup, memories, points')
  <1> DEFINE rows == turn.written
             more == points \cup PointsOf(rows)
             pinning == setup.pinning
             t == turn'
  <1>1. /\ points' = IF ok THEN more ELSE points
        /\ t = Blank /\ setup' = setup /\ memories' = memories /\ pinned' = pinned
        /\ turns' = turns /\ edits' = edits
    BY DEF Index
  <1>2. /\ Known(memories, points, pinning) /\ Chunks(points)
        /\ rows \in SUBSET memories /\ \A m \in rows, p \in points : m.id # p.id
    BY DEF Stored, Recalls, Leaves
  <1>3. Chunks(more) /\ Known(memories, more, pinning)
    <2> HIDE DEF pinning, rows
    <2> QED BY <1>2, RowsIndexed
  <1> HIDE DEF more
  <1>4. Chunks(points') /\ Known(memories, points', pinning)
    BY <1>1, <1>2, <1>3
  <1>5. Stored'
    BY <1>1, <1>4 DEF Stored
  <1> HIDE DEF t
  <1>6. Recalls(t, setup, memories, points')
    BY <1>1, BlankResting, RestingRecalls
  <1> QED BY <1>5, <1>6 DEF t

\* What changes in the stores before anything of them is ranked leaves the turn sound.
LEMMA EditedRecalls ==
    ASSUME NEW t, NEW s, NEW mems, NEW pts, Recalls(t, s, mems, pts), t.phase \in {"idle", "loaded"},
           NEW mems2, NEW pts2, Known(t.loaded, pts2, s.pinning)
    PROVE  Recalls(t, s, mems2, pts2)
  <1>1. Loaded(t, s, pts2)
    BY DEF Recalls, Loaded
  <1>2. Ranks(t, s, pts2)
    BY DEF Recalls, Ranks
  <1>3. Shows(t, pts2)
    BY DEF Recalls, Shows
  <1>4. Leaves(t, mems2, pts2)
    BY DEF Recalls, Leaves
  <1> QED BY <1>1, <1>2, <1>3, <1>4 DEF Recalls

LEMMA PinsRecall ==
    ASSUME Stored, Recalls(turn, setup, memories, points),
           \/ \E t \in CanonTexts : Pin(t)
           \/ \E i \in DOMAIN pinned : Unpin(i)
    PROVE  Stored' /\ Recalls(turn', setup, memories', points')
  <1>1. pinned \in Seq(CanonTexts) /\ DOMAIN pinned = 1..Len(pinned) /\ Len(pinned) \in Nat
        /\ \A i \in 1..Len(pinned) : pinned[i] \in CanonTexts
    BY LenProperties, ElementOfSeq DEF Stored
  <1>2. /\ edits < MaxEdits /\ edits' = edits + 1 /\ setup' = setup /\ turn' = turn
        /\ turns' = turns /\ memories' = memories /\ points' = points
    BY DEF Pin, Unpin, Edit
  <1>3. pinned' \in Seq(CanonTexts)
    <2>1. ASSUME NEW t \in CanonTexts, Pin(t)
          PROVE  pinned' \in Seq(CanonTexts)
      BY <1>1, <2>1, AppendProperties DEF Pin
    <2>2. ASSUME NEW i \in DOMAIN pinned, Unpin(i)
          PROVE  pinned' \in Seq(CanonTexts)
      <3> DEFINE l == Len(pinned)
                 before == SubSeq(pinned, 1, i - 1)
                 behind == SubSeq(pinned, i + 1, l)
      <3>1. pinned' = before \o behind
        BY <2>2 DEF Unpin, RemoveAt
      <3>2. i \in Int /\ l \in Int /\ i - 1 \in Int /\ i + 1 \in Int /\ 1 \in Int
        BY <1>1
      <3>3. /\ \A j \in 1..(i - 1) : pinned[j] \in CanonTexts
            /\ \A j \in (i + 1)..l : pinned[j] \in CanonTexts
        BY <1>1
      <3> HIDE DEF l
      <3>4. before \in Seq(CanonTexts) /\ behind \in Seq(CanonTexts)
        BY <3>2, <3>3, SubSeqProperties
      <3> HIDE DEF before, behind
      <3> QED BY <3>1, <3>4, ConcatProperties
    <2> QED BY <2>1, <2>2
  <1>4. edits' \in 0..MaxEdits
    <2>1. edits \in 0..MaxEdits
      BY DEF Stored
    <2> QED BY <1>2, <2>1, SessionAssumption
  <1>5. Stored'
    BY <1>2, <1>3, <1>4 DEF Stored
  <1> QED BY <1>2, <1>5

LEMMA EditsBounded ==
    ASSUME Stored, Edit
    PROVE  /\ edits' \in 0..MaxEdits /\ setup' = setup /\ turn' = turn /\ turns' = turns
           /\ turn.phase \in {"idle", "loaded"}
  <1>1. edits \in 0..MaxEdits
    BY DEF Stored
  <1>2. edits < MaxEdits /\ edits' = edits + 1
    BY DEF Edit
  <1>3. edits' \in 0..MaxEdits
    BY <1>1, <1>2, SessionAssumption
  <1> QED BY <1>3 DEF Edit

LEMMA ForgetRecalls ==
    ASSUME Stored, Recalls(turn, setup, memories, points),
           NEW m \in memories, NEW ok \in BOOLEAN, Forget(m, ok)
    PROVE  Stored' /\ Recalls(turn', setup, memories', points')
  <1> DEFINE left == memories \ {m}
             fewer == PointsWithout(m, ok)
             pinning == setup.pinning
  <1>1. /\ memories' = left /\ points' = fewer /\ pinned' = pinned
        /\ edits' \in 0..MaxEdits /\ setup' = setup /\ turn' = turn /\ turns' = turns
        /\ turn.phase \in {"idle", "loaded"}
    BY EditsBounded DEF Forget
  <1>2. fewer \in SUBSET points
    BY DEF PointsWithout
  <1>3. Known(memories, points, pinning) /\ Known(turn.loaded, points, pinning) /\ Chunks(points)
    BY DEF Stored, Recalls, Loaded
  <1> HIDE DEF fewer, pinning
  <1>4. Chunks(fewer) /\ Known(memories, fewer, pinning) /\ Known(turn.loaded, fewer, pinning)
    BY <1>2, <1>3, FewerPoints
  <1>5. Known(left, fewer, pinning)
    <2>1. IsFiniteSet(left)
      BY <1>3, FS_Subset DEF Known, Rows
    <2> QED BY <1>4, <2>1 DEF Known, Rows, SameText, RetiredPlain
  <1>6. Stored'
    BY <1>1, <1>4, <1>5 DEF Stored, pinning
  <1>7. Recalls(turn, setup, left, fewer)
    BY <1>1, <1>4, EditedRecalls DEF pinning
  <1> QED BY <1>1, <1>6, <1>7

LEMMA RetireRecalls ==
    ASSUME Stored, Recalls(turn, setup, memories, points),
           NEW m \in memories, NEW ok \in BOOLEAN, Retire(m, ok)
    PROVE  Stored' /\ Recalls(turn', setup, memories', points')
  <1> DEFINE c == [text |-> Digest, vis |-> "player", tags |-> {SummaryTag},
                   importance |-> ConsolidationCeiling + 1, bond |-> m.bond]
             id == LastId + 1
             digest == Row(id, c)
             retired == [m EXCEPT !.retired = TRUE]
             left == (memories \ {m}) \cup {retired}
             fewer == PointsWithout(m, ok)
             pinning == setup.pinning
             added == {digest}
             mems == left \cup added
             more == fewer \cup PointsOf(added)
             loaded == turn.loaded
  <1>1. /\ memories' = (memories \ {m}) \cup {retired, digest}
        /\ points' = fewer \cup (IF ok THEN PointsOf({digest}) ELSE {}) /\ pinned' = pinned
        /\ edits' \in 0..MaxEdits /\ setup' = setup /\ turn' = turn /\ turns' = turns
        /\ turn.phase \in {"idle", "loaded"}
        /\ m.tags \cap EffectiveCanonTags(pinning) = {}
    BY EditsBounded DEF Retire
  <1>2. fewer \in SUBSET points
    BY DEF PointsWithout
  <1>3. /\ Known(memories, points, pinning) /\ Known(loaded, points, pinning) /\ Chunks(points)
        /\ turns \in Nat
    BY SessionAssumption DEF Stored, Recalls, Loaded
  <1>4. m \in Memory
    BY <1>3 DEF Known, Rows
  <1>5. retired \in Memory /\ retired.id = m.id /\ retired.text = m.text /\ retired.tags = m.tags
    <2> DEFINE yes == TRUE
    <2>1. yes \in BOOLEAN /\ retired = [m EXCEPT !.retired = yes]
      OBVIOUS
    <2> HIDE DEF yes, retired
    <2> QED BY <1>4, <2>1 DEF Memory
  <1>6. c \in Candidate
    <2> DEFINE player == "player"
               tags == {SummaryTag}
               importance == ConsolidationCeiling + 1
               bond == m.bond
    <2>1. player \in Visibility /\ tags \in SUBSET Tags
      BY NamesTyped
    <2>2. importance \in Nat
      BY DEF ConsolidationCeiling
    <2>3. bond \in Nat
      BY <1>4, MemoryTyped
    <2>4. c = [text |-> Digest, vis |-> player, tags |-> tags, importance |-> importance,
               bond |-> bond]
      OBVIOUS
    <2> HIDE DEF player, tags, importance, bond, c
    <2> QED BY <2>1, <2>2, <2>3, <2>4, SessionAssumption DEF Candidate
  <1>7. id \in Nat /\ \A n \in memories \cup points \cup loaded : n.id < id
    <2> DEFINE last == LastId
    <2>1. last \in Nat /\ \A n \in memories \cup points \cup loaded : n.id <= last
      BY LastIdGreatest
    <2>2. \A n \in memories \cup points \cup loaded : n.id \in Nat
      BY <1>3, MemoryTyped, ChunkTyped DEF Known, Rows, Chunks
    <2>3. id = last + 1
      OBVIOUS
    <2> HIDE DEF last, id
    <2> QED BY <2>1, <2>2, <2>3
  <1> HIDE DEF c, id
  <1>8. digest \in Memory /\ digest.id = id /\ ~digest.retired
    BY <1>3, <1>6, <1>7, RowTyped
  <1> HIDE DEF digest, retired, fewer, pinning, loaded
  <1>9. Chunks(fewer) /\ Known(memories, fewer, pinning) /\ Known(loaded, fewer, pinning)
    BY <1>2, <1>3, FewerPoints
  <1>10. Known(left, fewer, pinning)
    <2>1. IsFiniteSet(memories \ {m})
      BY <1>3, FS_Subset DEF Known, Rows
    <2>2. IsFiniteSet(left)
      BY <2>1, FS_AddElement
    <2>3. left \subseteq Memory
      BY <1>3, <1>5 DEF Known, Rows
    <2>4. ASSUME NEW n \in left, NEW o \in left, n.id = o.id
          PROVE  n = o
      <3>1. \A q \in memories \ {m} : q.id # m.id
        BY <1>3 DEF Known, Rows
      <3> QED BY <1>3, <1>5, <2>4, <3>1 DEF Known, Rows
    <2>5. Rows(left)
      BY <2>2, <2>3, <2>4 DEF Rows
    <2>6. SameText(left, fewer)
      <3>1. SameText(memories, fewer)
        BY <1>9 DEF Known
      <3> QED BY <1>5, <3>1 DEF SameText
    <2>7. RetiredPlain(left, pinning)
      BY <1>1, <1>3, <1>5 DEF Known, RetiredPlain
    <2> QED BY <2>5, <2>6, <2>7 DEF Known
  <1>11. /\ added \in SUBSET Memory /\ IsFiniteSet(added)
         /\ \A n, o \in added : n.id = o.id => n = o
         /\ \A n \in added : ~n.retired
    BY <1>8, FS_Singleton
  <1>12. /\ \A n \in added, o \in left \cup fewer : n.id # o.id
         /\ \A n \in added, o \in loaded : n.id # o.id
         /\ \A n \in added, p \in fewer : n.id # p.id
    <2>1. ASSUME NEW o \in left \cup fewer \cup loaded
          PROVE  digest.id # o.id
      <3>1. PICK q \in memories \cup points \cup loaded : q.id = o.id
        BY <1>2, <1>5
      <3>2. q.id < id
        BY <1>7
      <3>3. q.id \in Nat
        BY <1>3, MemoryTyped, ChunkTyped DEF Known, Rows, Chunks
      <3> QED BY <1>7, <1>8, <3>1, <3>2, <3>3
    <2> QED BY <2>1
  <1> HIDE DEF added, left
  <1>13. Known(mems, fewer, pinning)
    BY <1>10, <1>11, <1>12, RowsAdded
  <1>14. Chunks(more) /\ Known(mems, more, pinning) /\ Known(loaded, more, pinning)
    <2>1. added \in SUBSET mems
      OBVIOUS
    <2> HIDE DEF mems
    <2> QED BY <1>9, <1>12, <1>13, <2>1, RowsIndexed
  <1>15. memories' = mems /\ points' \in {fewer, more}
    <2>1. memories' = mems
      BY <1>1 DEF left, added
    <2>2. points' = fewer \cup (IF ok THEN PointsOf(added) ELSE {})
      BY <1>1 DEF added
    <2> QED BY <2>1, <2>2
  <1> HIDE DEF mems, more
  <1>16. Chunks(points') /\ Known(memories', points', pinning) /\ Known(loaded, points', pinning)
    BY <1>9, <1>13, <1>14, <1>15
  <1>17. Stored'
    BY <1>1, <1>16 DEF Stored, pinning
  <1>18. Recalls(turn, setup, memories', points')
    <2> DEFINE mems2 == memories'
               pts2 == points'
    <2>1. Known(turn.loaded, pts2, setup.pinning)
      BY <1>16 DEF loaded, pinning
    <2> HIDE DEF mems2, pts2
    <2>2. Recalls(turn, setup, mems2, pts2)
      BY <1>1, <2>1, EditedRecalls
    <2> QED BY <2>2 DEF mems2, pts2
  <1> QED BY <1>1, <1>17, <1>18

\* A step of the turn leaves the stores as they are.
LEMMA QuietStored ==
    ASSUME Stored, Quiet
    PROVE  Stored' /\ setup' = setup /\ memories' = memories /\ points' = points
  BY DEF Stored, Quiet, Stores

LEMMA InitRecalls == Init => RecallInv
  <1> SUFFICES ASSUME Init PROVE RecallInv
    OBVIOUS
  <1>1. /\ setup \in Setups /\ memories = {} /\ points = Lore /\ pinned = <<>>
        /\ turn = Blank /\ turns = 0 /\ edits = 0
    BY DEF Init
  <1>2. Chunks(points)
    BY <1>1, SessionAssumption DEF Chunks
  <1>3. Known(memories, points, setup.pinning)
    BY <1>1, NothingKnown
  <1>4. pinned \in Seq(CanonTexts) /\ turns \in 0..MaxTurns /\ edits \in 0..MaxEdits
    BY <1>1, SessionAssumption
  <1>5. Stored
    BY <1>1, <1>2, <1>3, <1>4 DEF Stored
  <1>6. Resting(turn)
    BY <1>1, BlankResting
  <1> QED BY <1>5, <1>6, RestingRecalls DEF RecallInv

LEMMA StutterRecalls ==
    ASSUME RecallInv, UNCHANGED vars
    PROVE  RecallInv'
  <1>1. /\ setup' = setup /\ memories' = memories /\ points' = points /\ pinned' = pinned
        /\ turn' = turn /\ turns' = turns /\ edits' = edits
    BY DEF vars
  <1>2. Stored'
    BY <1>1 DEF RecallInv, Stored
  <1>3. Recalls(turn, setup, memories, points)
    BY DEF RecallInv
  <1> QED BY <1>1, <1>2, <1>3 DEF RecallInv

LEMMA NextRecalls ==
    ASSUME RecallInv, Next
    PROVE  RecallInv'
  <1>1. Stored /\ Recalls(turn, setup, memories, points)
    BY DEF RecallInv
  <1>2. SUFFICES Stored' /\ Recalls(turn', setup', memories', points')
    BY DEF RecallInv
  <1>3. ASSUME Quiet, Recalls(turn', setup, memories, points)
        PROVE  Stored' /\ Recalls(turn', setup', memories', points')
    BY <1>1, <1>3, QuietStored
  <1>4. ASSUME NEW message \in Messages, Load(message)
        PROVE  Stored' /\ Recalls(turn', setup', memories', points')
    <2>1. Recalls(turn', setup, memories, points)
      BY <1>1, <1>4, LoadRecalls
    <2>2. /\ setup' = setup /\ memories' = memories /\ points' = points /\ pinned' = pinned
          /\ edits' = edits /\ turns' = turns + 1 /\ turns < MaxTurns
      BY <1>4 DEF Load, Stores
    <2>3. turns' \in 0..MaxTurns
      <3>1. turns \in 0..MaxTurns
        BY <1>1 DEF Stored
      <3> QED BY <2>2, <3>1, SessionAssumption
    <2>4. Stored'
      BY <1>1, <2>2, <2>3 DEF Stored
    <2> QED BY <2>1, <2>2, <2>4
  <1>5. CASE SkipRetrieval
    BY <1>1, <1>3, <1>5, SkipRetrievalRecalls DEF SkipRetrieval
  <1>6. CASE ScoreSlice
    BY <1>1, <1>3, <1>6, ScoreRecalls DEF ScoreSlice
  <1>7. CASE ScoreFails
    BY <1>1, <1>3, <1>7, ScoreRecalls DEF ScoreFails
  <1>8. ASSUME NEW nears \in Queries, Retrieve(nears)
        PROVE  Stored' /\ Recalls(turn', setup', memories', points')
    BY <1>1, <1>3, <1>8, RetrieveRecalls DEF Retrieve
  <1>9. CASE RetrieveFails
    BY <1>1, <1>3, <1>9, RetrieveFailsRecalls DEF RetrieveFails
  <1>10. CASE Order
    BY <1>1, <1>3, <1>10, OrderRecalls DEF Order
  <1>11. CASE OrderFails
    BY <1>1, <1>3, <1>11, OrderFailsRecalls DEF OrderFails
  <1>12. CASE BuildPrompt
    BY <1>1, <1>3, <1>12, BuildPromptRecalls DEF BuildPrompt
  <1>13. ASSUME NEW role \in {"actor", "critic"}, NEW text \in Speech, Speak(role, text)
         PROVE  Stored' /\ Recalls(turn', setup', memories', points')
    <2>1. Quiet
      BY <1>13 DEF Speak
    <2> QED BY <1>1, <1>3, <1>13, <2>1, RestRecalls
  <1>14. CASE RedactNext
    BY <1>1, <1>3, <1>14, GuardRecalls DEF RedactNext
  <1>15. CASE FinishGuard
    BY <1>1, <1>3, <1>15, GuardRecalls DEF FinishGuard
  <1>16. CASE SkipCuration
    <2>1. Quiet
      BY <1>16 DEF SkipCuration
    <2> QED BY <1>1, <1>3, <1>16, <2>1, RestRecalls
  <1>17. ASSUME NEW answer \in CuratorAnswers, Curate(answer)
         PROVE  Stored' /\ Recalls(turn', setup', memories', points')
    <2>1. Quiet
      BY <1>17 DEF Curate
    <2> QED BY <1>1, <1>3, <1>17, <2>1, RestRecalls
  <1>18. CASE CuratorFails
    <2>1. Quiet
      BY <1>18 DEF CuratorFails
    <2> QED BY <1>1, <1>3, <1>18, <2>1, RestRecalls
  <1>19. ASSUME NEW cacheUp \in BOOLEAN, NEW embedderUp \in BOOLEAN, Persist(cacheUp, embedderUp)
         PROVE  Stored' /\ Recalls(turn', setup', memories', points')
    <2>1. Stored' /\ Recalls(turn', setup, memories', points)
      BY <1>1, <1>19, PersistRecalls
    <2>2. setup' = setup /\ points' = points
      BY <1>19 DEF Persist
    <2> QED BY <2>1, <2>2
  <1>20. CASE PersistFails
    BY <1>1, <1>3, <1>20, PersistFailsRecalls DEF PersistFails
  <1>21. ASSUME NEW ok \in BOOLEAN, Index(ok)
         PROVE  Stored' /\ Recalls(turn', setup', memories', points')
    <2>1. Stored' /\ Recalls(turn', setup, memories, points')
      BY <1>1, <1>21, IndexRecalls
    <2>2. setup' = setup /\ memories' = memories
      BY <1>21 DEF Index
    <2> QED BY <2>1, <2>2
  <1>22. ASSUME \/ \E t \in CanonTexts : Pin(t)
                \/ \E i \in DOMAIN pinned : Unpin(i)
         PROVE  Stored' /\ Recalls(turn', setup', memories', points')
    <2>1. Stored' /\ Recalls(turn', setup, memories', points')
      BY <1>1, <1>22, PinsRecall
    <2>2. setup' = setup
      BY <1>22 DEF Pin, Unpin, Edit
    <2> QED BY <2>1, <2>2
  <1>23. ASSUME NEW m \in memories, NEW ok \in BOOLEAN, Retire(m, ok)
         PROVE  Stored' /\ Recalls(turn', setup', memories', points')
    <2>1. Stored' /\ Recalls(turn', setup, memories', points')
      BY <1>1, <1>23, RetireRecalls
    <2>2. setup' = setup
      BY <1>23 DEF Retire, Edit
    <2> QED BY <2>1, <2>2
  <1>24. ASSUME NEW m \in memories, NEW ok \in BOOLEAN, Forget(m, ok)
         PROVE  Stored' /\ Recalls(turn', setup', memories', points')
    <2>1. Stored' /\ Recalls(turn', setup, memories', points')
      BY <1>1, <1>24, ForgetRecalls
    <2>2. setup' = setup
      BY <1>24 DEF Forget, Edit
    <2> QED BY <2>1, <2>2
  <1> QED BY <1>4, <1>5, <1>6, <1>7, <1>8, <1>9, <1>10, <1>11, <1>12, <1>13, <1>14, <1>15,
             <1>16, <1>17, <1>18, <1>19, <1>20, <1>21, <1>22, <1>23, <1>24 DEF Next

\* In every reachable state the turn holds what its phase promises of the memories it
\* loaded and of the index as it is, and the stores agree on the text behind every id.
\* (TurnRetrievalStage.run, the memory store, the vector index)
THEOREM RecallInvariance == Spec => []RecallInv
  <1>1. RecallInv /\ [Next]_vars => RecallInv'
    BY NextRecalls, StutterRecalls
  <1> QED BY <1>1, InitRecalls, PTL DEF Spec

\* The types, and that what is shown and written comes from what is stored: no run of
\* turns, edits and failures gives two rows one id or two points of one id two texts.
\* (MemoryEpisodeRecord, RetrievedChunk, TurnRetrievalStage)
THEOREM RecallTyped == Spec => []TypeOK
  <1>1. ASSUME RecallInv
        PROVE  TypeOK
    <2>1. Stored /\ Loaded(turn, setup, points) /\ Shows(turn, points) /\ Leaves(turn, memories, points)
      BY <1>1 DEF RecallInv, Recalls
    <2>2. setup \in Setups /\ turns \in 0..MaxTurns /\ edits \in 0..MaxEdits
      BY <2>1 DEF Stored
    <2>3. \A m, n \in memories : m.text \in Texts /\ (m.id = n.id => m = n)
      BY <2>1, MemoryTyped DEF Stored, Known, Rows
    <2>4. \A p, q \in points : p.text \in Texts /\ (p.id = q.id => p.text = q.text)
      BY <2>1, ChunkTyped DEF Stored, Chunks
    <2>5. ToSet(pinned) \subseteq CanonTexts
      <3>1. pinned \in Seq(CanonTexts)
        BY <2>1 DEF Stored
      <3>2. DOMAIN pinned = 1..Len(pinned) /\ \A i \in 1..Len(pinned) : pinned[i] \in CanonTexts
        BY <3>1, LenProperties, ElementOfSeq
      <3> QED BY <3>2 DEF ToSet
    <2>6. turn.phase \in Phases /\ Len(turn.standing) <= CanonMaxItems
      BY <2>1 DEF Loaded, Standing
    <2>7. turn.written \subseteq memories
      BY <2>1 DEF Leaves
    <2>8. Len(turn.prompt) <= Window
      <3>1. CASE turn.phase = "prompted"
        BY <2>1, <3>1 DEF Shows, Filled
      <3>2. CASE turn.phase # "prompted"
        <4>1. turn.prompt = <<>>
          BY <2>1, <3>2 DEF Shows
        <4>2. Len(turn.prompt) = 0
          BY <4>1
        <4> QED BY <4>2, RecallAssumption
      <3> QED BY <3>1, <3>2
    <2> QED BY <2>2, <2>3, <2>4, <2>5, <2>6, <2>7, <2>8 DEF TypeOK
  <1> QED BY <1>1, RecallInvariance, PTL

\* What the invariant says of a turn whose prompt is built.
LEMMA PromptedHolds ==
    ASSUME RecallInv, Prompted
    PROVE  /\ Rows(turn.loaded) /\ SameText(turn.loaded, points) /\ Chunks(points)
           /\ RetiredPlain(turn.loaded, setup.pinning) /\ setup \in Setups
           /\ Hits(turn.hits, turn.loaded)
           /\ Standing(turn.standing, turn.loaded, turn.pins, setup.pinning)
           /\ Merged(turn, setup, points) /\ Ample(turn, points)
           /\ turn.prompt \in Seq(Entries(turn.loaded, points))
           /\ Filled(turn.prompt, turn.ranking.selected, turn.standing, Len(turn.ranking.selected))
  <1>1. turn.phase = "prompted" /\ Stored /\ Recalls(turn, setup, memories, points)
    BY DEF RecallInv, Prompted
  <1>2. Loaded(turn, setup, points) /\ Ranks(turn, setup, points) /\ Shows(turn, points)
    BY <1>1 DEF Recalls
  <1>3. Chunks(points) /\ setup \in Setups
    BY <1>1 DEF Stored
  <1>4. Merged(turn, setup, points) /\ Ample(turn, points)
    BY <1>1, <1>2 DEF Ranks
  <1>5. /\ turn.prompt \in Seq(Entries(turn.loaded, points))
        /\ Filled(turn.prompt, turn.ranking.selected, turn.standing, Len(turn.ranking.selected))
    BY <1>1, <1>2 DEF Shows
  <1> QED BY <1>2, <1>3, <1>4, <1>5 DEF Loaded, Known

\* Only what the player may know, and nothing consolidation retired, is shown, and an
\* amended fact gives way only to a newer eligible one that says all it said, for every
\* text, store and configuration.
\* (score_memories_lexical, build_standing_facts, _drop_superseded_facts)
THEOREM RecallShowsLive == Spec => []ShownIsLive
  <1>1. ASSUME RecallInv, Prompted
        PROVE  /\ \A i \in DOMAIN turn.prompt :
                     LET r == turn.prompt[i]
                         rows == {m \in turn.loaded : m.id = r.id}
                     IN  /\ r.chunk.vis = "player"
                         /\ (\E m \in rows : m.retired) => r.id \in {p.id : p \in points}
               /\ \A t \in ToSet(turn.standing) :
                     \/ t \in ToSet(turn.pins)
                     \/ \E m \in turn.loaded : m.text = t /\ m.vis = "player" /\ ~m.retired
    <2> DEFINE mems == turn.loaded
               prompt == turn.prompt
               standing == turn.standing
               pins == turn.pins
               pinning == setup.pinning
               E == Entries(mems, points)
    <2>1. /\ Rows(mems) /\ RetiredPlain(mems, pinning) /\ prompt \in Seq(E)
          /\ Standing(standing, mems, pins, pinning)
      BY <1>1, PromptedHolds
    <2> HIDE DEF mems, prompt, standing, pins, pinning
    <2>2. ASSUME NEW i \in DOMAIN prompt
          PROVE  /\ prompt[i].chunk.vis = "player"
                 /\ (\E m \in {m \in mems : m.id = prompt[i].id} : m.retired)
                       => prompt[i].id \in {p.id : p \in points}
      <3> DEFINE r == prompt[i]
      <3>1. r \in E
        BY <2>1, LenProperties, ElementOfSeq
      <3> HIDE DEF r, E
      <3>2. Backed(r, mems, points)
        BY <3>1, EntryBacked DEF E
      <3>3. r.chunk.vis = "player" /\ r.id = r.chunk.id
        BY <3>2 DEF Backed
      <3>4. CASE r.chunk \in points
        BY <3>3, <3>4 DEF r
      <3>5. CASE \E m \in LexicalPool(mems) : r.id = m.id /\ r.chunk.text = m.text
        <4>1. PICK m \in LexicalPool(mems) : r.id = m.id
          BY <3>5
        <4>2. m \in mems /\ ~m.retired
          BY <4>1 DEF LexicalPool
        <4>3. \A n \in mems : n.id = r.id => n = m
          BY <2>1, <4>1, <4>2 DEF Rows
        <4>4. ~ \E n \in {n \in mems : n.id = r.id} : n.retired
          BY <4>2, <4>3
        <4> QED BY <3>3, <4>4 DEF r
      <3> QED BY <3>2, <3>4, <3>5 DEF Backed
    <2>3. ASSUME NEW t \in ToSet(standing)
          PROVE  \/ t \in ToSet(pins)
                 \/ \E m \in mems : m.text = t /\ m.vis = "player" /\ ~m.retired
      <3>1. PICK i \in 1..Len(standing) : t = standing[i]
        <4>1. standing \in Seq(Texts)
          BY <2>1 DEF Standing
        <4> QED BY <4>1, LenProperties DEF ToSet
      <3>2. \/ t \in ToSet(pins)
            \/ \E m \in CanonEligible(mems, pinning) : t = m.text
        BY <2>1, <3>1 DEF Standing
      <3>3. ASSUME NEW m \in CanonEligible(mems, pinning)
            PROVE  m \in mems /\ m.vis = "player" /\ ~m.retired
        <4>1. /\ m \in mems /\ m.vis = "player"
              /\ m.tags \cap EffectiveCanonTags(pinning) # {}
          BY <3>3 DEF CanonEligible, CanonCandidates
        <4> QED BY <2>1, <4>1 DEF RetiredPlain
      <3> QED BY <3>2, <3>3
    <2> QED BY <2>2, <2>3 DEF mems, prompt, standing, pins
  <1>2. ASSUME RecallInv, turn.phase = "loaded", NEW m \in Superseded(turn.loaded)
        PROVE  \E n \in CanonEligible(turn.loaded, TRUE) :
                  m.created < n.created /\ Terms(m.text) \subseteq Terms(n.text)
    <2> DEFINE mems == turn.loaded
    <2>1. Rows(mems) /\ m \in Superseded(mems)
      BY <1>2 DEF RecallInv, Recalls, Loaded, Known
    <2> HIDE DEF mems
    <2>2. \E n \in CanonEligible(mems, TRUE) :
             m.created < n.created /\ Terms(m.text) \subseteq Terms(n.text)
      BY <2>1, GivesWay
    <2> QED BY <2>2 DEF mems
  <1>3. RecallInv => ShownIsLive
    <2> SUFFICES ASSUME RecallInv PROVE ShownIsLive
      OBVIOUS
    <2> QED BY <1>1, <1>2 DEF ShownIsLive
  <1> QED BY <1>3, RecallInvariance, PTL

\* The slice keeps its promise whatever the search ranked: every eligible quota hit's
\* text is in the prompt, as a chunk or as a standing fact, and the turn is not taken
\* for a low-confidence one, for every window and every quota within it.
\* (apply_lexical_slice_quotas, select_retrieved_chunks_for_prompt)
THEOREM SliceReaches == Spec => []SliceReachesPrompt
  <1>1. ASSUME RecallInv, Prompted, turn.sliced, setup.quota \in 1..Window
        PROVE  \A h \in ToSet(EligibleHits(turn.hits, setup.quota)) :
                  ShowsText(h.memory.text) /\ turn.confidence >= SliceConfidence
    <2> DEFINE mems == turn.loaded
               hits == turn.hits
               quota == setup.quota
               prompt == turn.prompt
               standing == turn.standing
               ranking == turn.ranking
               selected == ranking.selected
               eligible == EligibleHits(hits, quota)
               confidence == turn.confidence
               E == Entries(mems, points)
    <2>1. /\ Hits(hits, mems) /\ selected \in Seq(E) /\ prompt \in Seq(E)
          /\ Filled(prompt, selected, standing, Len(selected))
          /\ MembersFirst(selected, eligible, confidence)
      BY <1>1, PromptedHolds DEF Merged, Mixed
    <2>2. quota \in 1..Window /\ quota \in Nat /\ Window \in Nat
      BY <1>1, RecallAssumption
    <2> HIDE DEF mems, hits, quota, prompt, standing, ranking, confidence
    <2>3. Hits(eligible, mems) /\ Len(eligible) <= quota
      BY <2>1, <2>2, EligibleFound
    <2> HIDE DEF eligible, selected
    <2>4. DOMAIN eligible = 1..Len(eligible) /\ Len(eligible) \in Nat /\ Len(selected) \in Nat
          /\ Len(prompt) \in Nat /\ DOMAIN prompt = 1..Len(prompt)
      BY <2>1, <2>3, LenProperties DEF Hits
    <2>5. ASSUME NEW h \in ToSet(eligible)
          PROVE  /\ confidence >= SliceConfidence
                 /\ \/ h.memory.text \in ToSet(standing)
                    \/ \E i \in DOMAIN prompt : Shown(prompt[i].chunk.text) = Shown(h.memory.text)
      <3>1. PICK i \in 1..Len(eligible) : h = eligible[i]
        BY <2>4 DEF ToSet
      <3>2. i \in 1..Len(selected) /\ ~(Window < i) /\ Len(eligible) > 0
        <4>1. Len(eligible) <= Len(selected)
          BY <2>1 DEF MembersFirst
        <4> QED BY <2>2, <2>3, <2>4, <3>1, <4>1
      <3>3. selected[i].chunk.text = h.memory.text /\ confidence >= SliceConfidence
        BY <2>1, <3>1, <3>2 DEF MembersFirst
      <3>4. selected[i].chunk.vis = "player"
        <4> DEFINE r == selected[i]
        <4>1. r \in E
          BY <2>1, <3>2, ElementOfSeq
        <4> HIDE DEF r, E
        <4>2. Backed(r, mems, points)
          BY <4>1, EntryBacked DEF E
        <4> QED BY <4>2 DEF Backed, r
      <3>5. \/ selected[i].chunk.text \in ToSet(standing)
            \/ Repeats(selected[i].chunk.text, prompt)
        BY <2>1, <3>2, <3>4 DEF Filled
      <3> QED BY <3>3, <3>5 DEF Repeats
    <2>6. ASSUME NEW h \in ToSet(eligible)
          PROVE  ShowsText(h.memory.text) /\ turn.confidence >= SliceConfidence
      <3>1. /\ confidence >= SliceConfidence
            /\ \/ h.memory.text \in ToSet(standing)
               \/ \E i \in DOMAIN prompt : Shown(prompt[i].chunk.text) = Shown(h.memory.text)
        BY <2>5
      <3> QED BY <3>1 DEF ShowsText, standing, prompt, confidence
    <2> QED BY <2>6 DEF eligible, hits, quota
  <1>2. RecallInv => SliceReachesPrompt
    <2> SUFFICES ASSUME RecallInv PROVE SliceReachesPrompt
      OBVIOUS
    <2> QED BY <1>1 DEF SliceReachesPrompt
  <1> QED BY <1>2, RecallInvariance, PTL

\* As many lines as different ones, where none is repeated.
LEMMA LinesCounted ==
    ASSUME NEW T, NEW s \in Seq(T), \A i, j \in 1..Len(s) : s[i] = s[j] => i = j
    PROVE  Len(s) = Cardinality(ToSet(s))
  <1> DEFINE N == 1..Len(s)
             f == [i \in N |-> s[i]]
  <1>1. DOMAIN s = 1..Len(s) /\ Len(s) \in Nat
    BY LenProperties
  <1>2. IsFiniteSet(N) /\ Cardinality(N) = Len(s)
    <2>1. 1 \in Int /\ Len(s) \in Int
      BY <1>1
    <2>2. IsFiniteSet(N) /\ Cardinality(N) = IF 1 > Len(s) THEN 0 ELSE Len(s) - 1 + 1
      BY <2>1, FS_Interval
    <2> DEFINE c == Cardinality(N)
    <2> HIDE DEF N, c
    <2>3. c = Len(s)
      BY <1>1, <2>2 DEF c
    <2> QED BY <2>2, <2>3 DEF c
  <1>3. DOMAIN f = N /\ \A i, j \in N : f[i] = f[j] => i = j
    OBVIOUS
  <1>4. ToSet(s) = {f[i] : i \in N}
    BY <1>1 DEF ToSet
  <1> HIDE DEF f, N
  <1>5. Cardinality({f[i] : i \in N}) = Cardinality(N)
    BY <1>2, <1>3, ImageSame
  <1> QED BY <1>2, <1>4, <1>5

\* No text is shown twice: a retrieved chunk repeats neither a standing fact nor, as the
\* prompt shows them, another chunk; and no memory is listed twice in the diagnostics.
\* (select_retrieved_chunks_for_prompt, apply_lexical_slice_quotas)
THEOREM RecallShowsOnce == Spec => []NothingShownTwice
  <1>1. ASSUME RecallInv, Prompted
        PROVE  /\ \A i \in DOMAIN turn.prompt :
                     turn.prompt[i].chunk.text \notin ToSet(turn.standing)
               /\ \A i, j \in DOMAIN turn.prompt :
                     Shown(turn.prompt[i].chunk.text) = Shown(turn.prompt[j].chunk.text) => i = j
               /\ Len(turn.standing) = Cardinality(ToSet(turn.standing))
               /\ LET listed == turn.ranking.selected \o turn.ranking.rejected
                  IN  \A i, j \in DOMAIN listed : listed[i].id = listed[j].id => i = j
    <2> DEFINE mems == turn.loaded
               prompt == turn.prompt
               standing == turn.standing
               selected == turn.ranking.selected
               rejected == turn.ranking.rejected
               listed == selected \o rejected
               E == Entries(mems, points)
    <2>1. /\ prompt \in Seq(E) /\ Filled(prompt, selected, standing, Len(selected))
          /\ Standing(standing, mems, turn.pins, setup.pinning)
          /\ selected \in Seq(E) /\ rejected \in Seq(E)
          /\ Once(selected) /\ Once(rejected) /\ Apart(selected, rejected)
      BY <1>1, PromptedHolds DEF Merged, Mixed
    <2> HIDE DEF mems, prompt, standing, selected, rejected, E
    <2>2. DOMAIN prompt = 1..Len(prompt)
      BY <2>1, LenProperties
    <2>3. /\ \A i \in DOMAIN prompt : prompt[i].chunk.text \notin ToSet(standing)
          /\ \A i, j \in DOMAIN prompt :
                Shown(prompt[i].chunk.text) = Shown(prompt[j].chunk.text) => i = j
      BY <2>1, <2>2 DEF Filled
    <2>4. Len(standing) = Cardinality(ToSet(standing))
      <3>1. standing \in Seq(Texts) /\ \A i, j \in 1..Len(standing) : standing[i] = standing[j] => i = j
        BY <2>1 DEF Standing
      <3> QED BY <3>1, LinesCounted
    <2>5. Once(listed) /\ listed \in Seq(E)
      BY <2>1, JoinedOnce, ConcatProperties
    <2> HIDE DEF listed
    <2>6. DOMAIN listed = 1..Len(listed)
      BY <2>5, LenProperties
    <2>7. \A i, j \in DOMAIN listed : listed[i].id = listed[j].id => i = j
      BY <2>5, <2>6 DEF Once
    <2> QED BY <2>3, <2>4, <2>7 DEF prompt, standing, listed, selected, rejected
  <1>2. RecallInv => NothingShownTwice
    <2> SUFFICES ASSUME RecallInv PROVE NothingShownTwice
      OBVIOUS
    <2> QED BY <1>1 DEF NothingShownTwice
  <1> QED BY <1>2, RecallInvariance, PTL

\* The window is filled: as long as no more memories echo the standing facts than there
\* are standing facts, and no more than Window - 1 copies are about, dropping duplicates
\* never leaves a slot empty that a distinct text could have had, whatever the window and
\* the store.  (TurnRetrievalStage.run: the over-fetch)
THEOREM WindowIsFilled == Spec => []WindowFilled
  <1>1. ASSUME RecallInv, Prompted, turn.dense, Echoes <= Len(turn.standing), Copies <= Window - 1
        PROVE  Len(turn.prompt) >= Min({Window, Cardinality(Supply)})
    <2> DEFINE mems == turn.loaded
               prompt == turn.prompt
               standing == turn.standing
               selected == turn.ranking.selected
               E == Entries(mems, points)
               F == Unsaid(points, standing)
    <2>1. /\ Chunks(points) /\ SameText(mems, points) /\ standing \in Seq(Texts)
          /\ selected \in Seq(E) /\ prompt \in Seq(E)
          /\ Filled(prompt, selected, standing, Len(selected))
          /\ Enough(selected, points, TopK(standing))
      BY <1>1, PromptedHolds DEF Merged, Mixed, Standing, Ample
    <2>2. Echoes = Cardinality(IdsOf(Echoing(points, standing)))
      <3>1. {q \in Reachable : q.text \in ToSet(standing)} = Echoing(points, standing)
        BY DEF Reachable, Echoing
      <3> HIDE DEF standing
      <3>2. IdsOf(Echoing(points, standing))
              = {p.id : p \in {q \in Reachable : q.text \in ToSet(standing)}}
        BY <3>1 DEF IdsOf
      <3> QED BY <3>2 DEF Echoes, standing
    <2>3. {q \in Reachable : q.text \notin ToSet(standing)} = F
      BY DEF Reachable, Unsaid
    <2>4. Supply = ShownOf(F)
      BY <2>3 DEF Supply, ShownOf
    <2>5. Copies = Cardinality(IdsOf(F)) - Cardinality(ShownOf(F))
      <3>1. {p.id : p \in {q \in Reachable : q.text \notin ToSet(standing)}} = IdsOf(F)
        BY <2>3 DEF IdsOf
      <3> QED BY <2>4, <3>1 DEF Copies
    <2>6. Cardinality(IdsOf(Echoing(points, standing))) <= Len(standing)
      BY <1>1, <2>2
    <2>7. Cardinality(IdsOf(F)) - Cardinality(ShownOf(F)) <= Window - 1
      BY <1>1, <2>5
    <2> HIDE DEF mems, prompt, standing, selected
    <2>8. \/ Len(prompt) >= Window
          \/ Len(prompt) >= Cardinality(ShownOf(F))
      BY <2>1, <2>6, <2>7, WindowFills
    <2> DEFINE s == Cardinality(ShownOf(F))
               l == Len(prompt)
    <2>9. s \in Nat /\ l \in Nat /\ Window \in Nat
      <3>1. F \in SUBSET points
        BY DEF Unsaid
      <3>2. IsFiniteSet(F)
        <4> HIDE DEF F
        <4> QED BY <2>1, <3>1, FS_Subset DEF Chunks
      <3> DEFINE f == [p \in F |-> Shown(p.text)]
      <3>3. ShownOf(F) = {f[p] : p \in F} /\ DOMAIN f = F
        BY DEF ShownOf
      <3> HIDE DEF f, F
      <3>4. IsFiniteSet({f[p] : p \in F})
        BY <3>2, <3>3, ImageFinite
      <3>5. s \in Nat
        BY <3>3, <3>4, FS_CardinalityType
      <3> QED BY <2>1, <3>5, LenProperties, RecallAssumption
    <2>10. Cardinality(Supply) = s
      BY <2>4
    <2> HIDE DEF s, l
    <2>11. Min({Window, s}) = IF Window <= s THEN Window ELSE s
      BY <2>9, LesserOfTwo
    <2>12. l >= Window \/ l >= s
      BY <2>8 DEF l, s
    <2>13. l >= Min({Window, s})
      BY <2>9, <2>11, <2>12
    <2> QED BY <2>10, <2>13 DEF l, prompt
  <1>2. RecallInv => WindowFilled
    <2> SUFFICES ASSUME RecallInv PROVE WindowFilled
      OBVIOUS
    <2> QED BY <1>1 DEF WindowFilled
  <1> QED BY <1>2, RecallInvariance, PTL
=============================================================================
