--------------------------- MODULE SessionViewProofs ---------------------------
(***************************************************************************)
(* Proofs about SessionView and the stream it reads (TurnStream), for      *)
(* every bound on sessions, turns, facts and panel calls in flight.        *)
(*                                                                         *)
(* TypeInv is inductive and has what TypeOK lacks: the numbers of tasks    *)
(* are their own, and an operation finds room for the calls it ends with.  *)
(* PanelsInv says what a list that was loaded alone holds while calls are  *)
(* still in flight; ViewInv says what is on the wire and what of it the    *)
(* transcript lacks.  The stream's parser is followed frame by frame: what *)
(* two chunks leave it with is what one would (TwoChunks), and a frame     *)
(* read from its first token is applied at its last (FrameRead).           *)
(***************************************************************************)
EXTENDS SessionView, FiniteSetTheorems, SequenceTheorems, WellFoundedInduction, TLAPS

CallKinds == {"memories", "canon", "add", "delete"}
PanelCalls == [Slots -> Call \cup {NoCall}]
Flight(f) == {c \in Slots : f[c] # NoCall}

LEMMA BoundTypes ==
    ASSUME bound \in Bounds
    PROVE  /\ bound = [sessions |-> bound.sessions, turns |-> bound.turns,
                       facts |-> bound.facts, calls |-> bound.calls, late |-> bound.late]
           /\ bound.sessions \in Nat /\ bound.turns \in Nat /\ bound.facts \in Nat
           /\ bound.calls \in Nat \ {0, 1}
BY SessionViewAssumption

\* A non-empty finite set of numbers has a least element: the one with the
\* smallest set of smaller elements.
LEMMA LeastExists ==
    ASSUME NEW T \in SUBSET Nat, IsFiniteSet(T), T # {}
    PROVE  \E x \in T : \A y \in T : x <= y
<1> DEFINE Below(x) == {z \in T : z < x}
           F == {Below(x) : x \in T}
<1>1. F \subseteq FiniteSubsetsOf(T) /\ F # {}
  <2>1. F \subseteq SUBSET T /\ F # {}
    OBVIOUS
  <2>2. QED
    BY <2>1, FS_FiniteSubsetsOfFinite
<1>2. PICK u \in F : \A v \in F : <<v, u>> \notin StrictSubsetOrdering(T)
  <2>1. IsWellFoundedOn(StrictSubsetOrdering(T), FiniteSubsetsOf(T))
    BY FS_StrictSubsetOrderingWellFounded
  <2> HIDE DEF F
  <2>2. QED
    BY <1>1, <2>1, WFMin
<1>3. PICK x \in T : u = Below(x)
  OBVIOUS
<1>4. ASSUME NEW y \in T, ~(x <= y)  PROVE FALSE
  <2>0. x \in Nat /\ y \in Nat
    OBVIOUS
  <2>1. y < x /\ y \in Below(x) /\ y \notin Below(y)
    BY <1>4, <2>0
  <2>2. ASSUME NEW z \in Below(y)  PROVE z \in Below(x)
    <3>1. z \in T /\ z < y
      BY <2>2
    <3>2. z \in Nat /\ y \in Nat /\ x \in Nat
      BY <3>1
    <3>3. z < x
      BY <2>1, <3>1, <3>2
    <3>4. QED
      BY <3>1, <3>3
  <2>3. Below(y) \in F /\ Below(x) \in SUBSET T /\ Below(y) \in SUBSET T
    OBVIOUS
  <2>4. <<Below(y), u>> \in StrictSubsetOrdering(T)
    BY <1>3, <2>1, <2>2, <2>3 DEF StrictSubsetOrdering
  <2>5. QED
    BY <1>2, <2>3, <2>4
<1>5. QED
  BY <1>4

LEMMA SlotsFinite ==
    ASSUME bound \in Bounds
    PROVE  IsFiniteSet(Slots) /\ Cardinality(Slots) = bound.calls /\ Slots \in SUBSET Nat
<1> DEFINE n == bound.calls
<1>1. n \in Nat
  BY BoundTypes
<1>2. Slots = 1..n
  BY DEF Slots
<1> HIDE DEF n
<1>3. IsFiniteSet(1..n) /\ Cardinality(1..n) = IF 1 > n THEN 0 ELSE n - 1 + 1
  BY <1>1, FS_Interval
<1>4. Cardinality(1..n) = n /\ 1..n \in SUBSET Nat
  BY <1>1, <1>3
<1>5. QED
  BY <1>2, <1>3, <1>4 DEF n

\* With fewer calls in flight than there are slots, the first free slot exists.
LEMMA FreeSlot ==
    ASSUME bound \in Bounds, NEW f, Cardinality(Flight(f)) < bound.calls
    PROVE  \E c \in Slots : f[c] = NoCall /\ \A d \in 1..(c - 1) : f[d] # NoCall
<1> DEFINE T == {c \in Slots : f[c] = NoCall}
<1>0. IsFiniteSet(Slots) /\ Cardinality(Slots) = bound.calls /\ Slots \in SUBSET Nat
  BY SlotsFinite
<1>00. bound.calls \in Nat
  BY BoundTypes
<1>1. T # {}
  <2>1. SUFFICES ASSUME T = {}  PROVE FALSE
    OBVIOUS
  <2>2. Flight(f) = Slots
    BY <2>1 DEF Flight
  <2>3. QED
    BY <1>0, <1>00, <2>2
<1>2. T \in SUBSET Nat /\ IsFiniteSet(T)
  <2>1. T \in SUBSET Slots
    OBVIOUS
  <2>2. QED
    BY <1>0, <2>1, FS_Subset
<1>3. PICK c \in T : \A y \in T : c <= y
  BY <1>1, <1>2, LeastExists
<1>4. ASSUME NEW d \in 1..(c - 1)  PROVE f[d] # NoCall
  <2>1. c \in 1..bound.calls /\ c \in Nat
    BY <1>00 DEF Slots
  <2>2. d \in 1..bound.calls /\ d < c
    BY <1>00, <2>1
  <2>3. d \notin T
    BY <1>3, <2>1, <2>2
  <2>4. QED
    BY <2>2, <2>3 DEF Slots
<1>5. QED
  BY <1>3, <1>4

\* g is f with one more call, in the free slot s.
Issued(f, g, s, kind, fact) ==
    /\ g \in PanelCalls
    /\ f[s].kind = "none"
    /\ g[s].kind = kind /\ g[s].fact = fact /\ ~g[s].served /\ g[s].found = {}
    /\ g[s].alone => \A c \in Slots : f[c].kind \in CallKinds
                                     => ~Disturbs(kind, f[c].kind)
    /\ \A c \in Slots : c # s => g[c].kind = f[c].kind
    /\ \A c \in Slots : c # s /\ f[c].kind \in CallKinds =>
            /\ g[c].fact = f[c].fact
            /\ g[c].served = f[c].served /\ g[c].found = f[c].found
            /\ g[c].alone => f[c].alone /\ ~Disturbs(kind, f[c].kind)

LEMMA KindOfCall ==
    ASSUME NEW f \in PanelCalls, NEW c \in Slots
    PROVE  /\ f[c] # NoCall <=> f[c] \in Call
           /\ f[c] # NoCall <=> f[c].kind \in CallKinds
           /\ f[c] = NoCall => f[c].kind = "none"
           /\ f[c] \in Call => /\ f[c].fact \in 0..bound.facts /\ f[c].found \in SUBSET Nat
                               /\ f[c].alone \in BOOLEAN /\ f[c].served \in BOOLEAN
BY DEF PanelCalls, Call, NoCall, CallKinds

LEMMA IssueIssues ==
    ASSUME bound \in Bounds, NEW f \in PanelCalls, Cardinality(Flight(f)) < bound.calls,
           NEW kind \in CallKinds, NEW fact \in 0..bound.facts, NEW awaited \in BOOLEAN
    PROVE  \E s \in Slots : Issued(f, Issue(f, kind, fact, awaited), s, kind, fact)
<1> DEFINE slot == CHOOSE c \in Slots :
                      f[c] = NoCall /\ \A d \in 1..(c - 1) : f[d] # NoCall
           overlaps == {c \in Slots : f[c] # NoCall /\ Disturbs(kind, f[c].kind)}
           new == [kind |-> kind, fact |-> fact, awaited |-> awaited, served |-> FALSE,
                   found |-> {}, alone |-> overlaps = {}]
           g == [c \in Slots |-> IF c = slot THEN new
                                 ELSE IF c \in overlaps THEN [f[c] EXCEPT !.alone = FALSE]
                                 ELSE f[c]]
<1>1. slot \in Slots /\ f[slot] = NoCall
  BY FreeSlot
<1>2. g = Issue(f, kind, fact, awaited)
  BY DEF Issue
<1>3. new \in Call
  BY DEF Call, CallKinds
<1>4. ASSUME NEW c \in Slots, f[c] # NoCall
      PROVE  /\ f[c] \in Call
             /\ [f[c] EXCEPT !.alone = FALSE] \in Call
             /\ LET h == [f[c] EXCEPT !.alone = FALSE] IN
                /\ h.kind = f[c].kind /\ h.fact = f[c].fact
                /\ h.served = f[c].served /\ h.found = f[c].found /\ h.alone = FALSE
  BY <1>4 DEF PanelCalls, Call
<1> HIDE DEF slot, overlaps, new
<1>5. g \in PanelCalls
  BY <1>1, <1>3, <1>4 DEF PanelCalls, overlaps
<1>6. /\ g[slot] = new
      /\ new.kind = kind /\ new.fact = fact /\ ~new.served /\ new.found = {}
      /\ new.alone = (overlaps = {})
  BY <1>1 DEF new
<1>7. ASSUME NEW c \in Slots, c # slot
      PROVE  /\ g[c].kind = f[c].kind
             /\ f[c].kind \in CallKinds =>
                 /\ g[c].fact = f[c].fact
                 /\ g[c].served = f[c].served /\ g[c].found = f[c].found
                 /\ g[c].alone => f[c].alone /\ ~Disturbs(kind, f[c].kind)
  <2>1. CASE c \in overlaps
    <3>1. g[c] = [f[c] EXCEPT !.alone = FALSE] /\ f[c] # NoCall
      BY <1>7, <2>1 DEF overlaps
    <3>2. QED
      BY <1>4, <3>1
  <2>2. CASE c \notin overlaps
    <3>1. g[c] = f[c] /\ (f[c] = NoCall \/ ~Disturbs(kind, f[c].kind))
      BY <1>7, <2>2 DEF overlaps
    <3>2. f[c] = NoCall => f[c].kind \notin CallKinds
      BY KindOfCall
    <3>3. QED
      BY <3>1, <3>2
  <2>3. QED
    BY <2>1, <2>2
<1>8. overlaps = {} => \A c \in Slots : f[c].kind \in CallKinds => ~Disturbs(kind, f[c].kind)
  <2>1. ASSUME NEW c \in Slots, f[c].kind \in CallKinds  PROVE f[c] # NoCall
    BY <2>1, KindOfCall
  <2>2. QED
    BY <2>1 DEF overlaps
<1>9. f[slot].kind = "none"
  BY <1>1, KindOfCall
<1> HIDE DEF g
<1>10. Issued(f, g, slot, kind, fact)
  BY <1>5, <1>6, <1>7, <1>8, <1>9 DEF Issued
<1>11. QED
  BY <1>1, <1>2, <1>10

-----------------------------------------------------------------------------
(* What holds of the calls in flight, whatever is issued, served or answered *)

CanonKinds == {"canon", "add", "delete"}

AloneIsAlone(f) ==
    \A c, d \in Slots :
        c # d /\ f[c].kind \in CallKinds /\ f[d].kind \in CallKinds /\ f[c].alone
        => ~Disturbs(f[c].kind, f[d].kind)

\* n facts have been added
FoundAdded(f, n) ==
    \A c \in Slots : f[c].kind \in CanonKinds => f[c].found \subseteq 1..n /\ f[c].fact <= n

\* a canon list fetched undisturbed is the session's
LoadedFound(f, have) ==
    \A c \in Slots :
        f[c].kind = "canon" /\ f[c].alone /\ f[c].served => f[c].found = have

Adds(f) == {c \in Slots : f[c].kind = "add" /\ f[c].served}
Deletes(f) == {c \in Slots : f[c].kind = "delete" /\ f[c].served}

\* the session has what the list shows, with the answers on their way applied
\* in whatever order
Followed(f, list, have) ==
    /\ list = SetToBag(BagToSet(list))
    /\ \A c \in Adds(f) : f[c].found \cap BagToSet(list) = {}
    /\ \A c, d \in Adds(f) : c # d => f[c].found \cap f[d].found = {}
    /\ \A c \in Adds(f), d \in Slots : f[d].kind = "delete" => f[d].fact \notin f[c].found
    /\ \A x : x \in have <=> /\ x \in BagToSet(list) \/ \E c \in Adds(f) : x \in f[c].found
                             /\ \A d \in Deletes(f) : f[d].fact # x

\* a memory list fetched undisturbed has no memory of a deleted turn
MemoriesFound(f, have) ==
    \A c \in Slots :
        f[c].kind = "memories" /\ f[c].alone /\ f[c].served => f[c].found \subseteq have

LEMMA IssueAlone ==
    ASSUME NEW f \in PanelCalls, NEW g, NEW s \in Slots, NEW kind \in CallKinds, NEW fact,
           Issued(f, g, s, kind, fact), AloneIsAlone(f)
    PROVE  AloneIsAlone(g)
<1> SUFFICES ASSUME NEW c \in Slots, NEW d \in Slots, c # d,
                    g[c].kind \in CallKinds, g[d].kind \in CallKinds, g[c].alone
             PROVE  ~Disturbs(g[c].kind, g[d].kind)
  BY DEF AloneIsAlone
<1>1. CASE c = s
  <2>1. f[d].kind = g[d].kind
    BY <1>1 DEF Issued
  <2>2. QED
    BY <1>1, <2>1 DEF Issued
<1>2. CASE d = s
  <2>1. f[c].kind = g[c].kind
    BY <1>2 DEF Issued
  <2>2. ~Disturbs(kind, f[c].kind)
    BY <1>2, <2>1 DEF Issued
  <2>3. QED
    BY <1>2, <2>1, <2>2 DEF Issued, Disturbs
<1>3. CASE c # s /\ d # s
  <2>1. f[c].kind = g[c].kind /\ f[d].kind = g[d].kind
    BY <1>3 DEF Issued
  <2>2. f[c].alone
    BY <1>3, <2>1 DEF Issued
  <2>3. QED
    BY <2>1, <2>2 DEF AloneIsAlone
<1>4. QED
  BY <1>1, <1>2, <1>3

LEMMA IssueFoundAdded ==
    ASSUME NEW f \in PanelCalls, NEW g, NEW s \in Slots, NEW kind \in CallKinds,
           NEW n \in Nat, NEW fact, fact <= n,
           Issued(f, g, s, kind, fact), FoundAdded(f, n)
    PROVE  FoundAdded(g, n)
<1> SUFFICES ASSUME NEW c \in Slots, g[c].kind \in CanonKinds
             PROVE  g[c].found \subseteq 1..n /\ g[c].fact <= n
  BY DEF FoundAdded
<1>1. CASE c = s
  BY <1>1 DEF Issued
<1>2. CASE c # s
  <2>1. f[c].kind = g[c].kind /\ f[c].kind \in CallKinds
    BY <1>2 DEF Issued, CanonKinds, CallKinds
  <2>2. g[c].found = f[c].found /\ g[c].fact = f[c].fact
    BY <1>2, <2>1 DEF Issued
  <2>3. QED
    BY <2>1, <2>2 DEF FoundAdded
<1>3. QED
  BY <1>1, <1>2

LEMMA IssueLoadedFound ==
    ASSUME NEW f \in PanelCalls, NEW g, NEW s \in Slots, NEW kind \in CallKinds, NEW fact,
           Issued(f, g, s, kind, fact), NEW have, LoadedFound(f, have)
    PROVE  LoadedFound(g, have)
<1> SUFFICES ASSUME NEW c \in Slots, g[c].kind = "canon", g[c].alone, g[c].served
             PROVE  g[c].found = have
  BY DEF LoadedFound
<1>1. c # s
  BY DEF Issued
<1>2. f[c].kind = "canon" /\ f[c].kind \in CallKinds
  BY <1>1 DEF Issued, CallKinds
<1>3. f[c].alone /\ f[c].served /\ g[c].found = f[c].found
  BY <1>1, <1>2 DEF Issued
<1>4. QED
  BY <1>2, <1>3 DEF LoadedFound

LEMMA IssueMemoriesFound ==
    ASSUME NEW f \in PanelCalls, NEW g, NEW s \in Slots, NEW kind \in CallKinds, NEW fact,
           Issued(f, g, s, kind, fact), NEW have,
           MemoriesFound(f, have) \/ kind = "memories"
    PROVE  MemoriesFound(g, have)
<1> SUFFICES ASSUME NEW c \in Slots, g[c].kind = "memories", g[c].alone, g[c].served
             PROVE  g[c].found \subseteq have
  BY DEF MemoriesFound
<1>1. c # s
  BY DEF Issued
<1>2. f[c].kind = "memories" /\ f[c].kind \in CallKinds
  BY <1>1 DEF Issued, CallKinds
<1>3. /\ f[c].alone /\ f[c].served /\ g[c].found = f[c].found
      /\ ~Disturbs(kind, f[c].kind)
  BY <1>1, <1>2 DEF Issued
<1>4. kind # "memories"
  BY <1>2, <1>3 DEF Disturbs
<1>5. QED
  BY <1>2, <1>3, <1>4 DEF MemoriesFound

LEMMA IssueFollowed ==
    ASSUME NEW f \in PanelCalls, NEW g, NEW s \in Slots, NEW kind \in CallKinds, NEW fact,
           Issued(f, g, s, kind, fact), NEW list, NEW have,
           kind = "delete" => fact \in BagToSet(list),
           Followed(f, list, have)
    PROVE  Followed(g, list, have)
<1>1. ASSUME NEW c \in Slots
      PROVE  /\ c \in Adds(g) <=> c \in Adds(f)
             /\ c \in Deletes(g) <=> c \in Deletes(f)
             /\ c \in Adds(f) => c # s /\ g[c].found = f[c].found
             /\ c \in Deletes(f) => g[c].fact = f[c].fact
             /\ c # s /\ g[c].kind = "delete"
                => f[c].kind = "delete" /\ g[c].fact = f[c].fact
  <2>1. CASE c = s
    BY <2>1 DEF Issued, Adds, Deletes
  <2>2. CASE c # s
    BY <2>2 DEF Issued, Adds, Deletes, CallKinds
  <2>3. QED
    BY <2>1, <2>2
<1>2. Adds(g) = Adds(f) /\ Deletes(g) = Deletes(f)
  BY <1>1 DEF Adds, Deletes
<1>3. /\ \A c \in Adds(g) : c \in Adds(f) /\ g[c].found = f[c].found
      /\ \A d \in Deletes(g) : d \in Deletes(f) /\ g[d].fact = f[d].fact
  <2>1. Adds(f) \subseteq Slots /\ Deletes(f) \subseteq Slots
    BY DEF Adds, Deletes
  <2>2. QED
    BY <1>1, <1>2, <2>1
<1>4. ASSUME NEW c \in Adds(g), NEW d \in Slots, g[d].kind = "delete"
      PROVE  g[d].fact \notin g[c].found
  <2>1. c \in Slots /\ c \in Adds(f) /\ g[c].found = f[c].found
    BY <1>1, <1>2 DEF Adds
  <2>2. CASE d = s
    <3>1. kind = "delete" /\ g[d].fact = fact
      BY <1>4, <2>2 DEF Issued
    <3>2. f[c].found \cap BagToSet(list) = {}
      BY <2>1 DEF Followed
    <3>3. QED
      BY <2>1, <3>1, <3>2
  <2>3. CASE d # s
    <3>1. f[d].kind = "delete" /\ g[d].fact = f[d].fact
      BY <1>1, <1>4, <2>3
    <3>2. QED
      BY <2>1, <3>1 DEF Followed
  <2>4. QED
    BY <2>2, <2>3
<1>5. ASSUME NEW c \in Adds(g)
      PROVE  /\ g[c].found \cap BagToSet(list) = {}
             /\ \A d \in Adds(g) : c # d => g[c].found \cap g[d].found = {}
  <2>1. \A d \in Adds(g) : d \in Slots /\ d \in Adds(f) /\ g[d].found = f[d].found
    BY <1>1, <1>2 DEF Adds
  <2>2. QED
    BY <2>1 DEF Followed
<1>6. \A x : x \in have <=> /\ x \in BagToSet(list) \/ \E c \in Adds(g) : x \in g[c].found
                           /\ \A d \in Deletes(g) : g[d].fact # x
  BY <1>2, <1>3 DEF Followed
<1>7. QED
  BY <1>4, <1>5, <1>6 DEF Followed

\* g is f with the call of slot c served.
Served(f, g, c, found) ==
    /\ g \in PanelCalls
    /\ g[c].kind = f[c].kind /\ g[c].fact = f[c].fact /\ g[c].alone = f[c].alone
    /\ g[c].served /\ g[c].found = found
    /\ \A d \in Slots : d # c => g[d] = f[d]

LEMMA ServeServes ==
    ASSUME NEW f \in PanelCalls, NEW c \in Slots, f[c] # NoCall, NEW found \in SUBSET Nat
    PROVE  Served(f, [f EXCEPT ![c].served = TRUE, ![c].found = found], c, found)
<1> DEFINE call == f[c]
           new == [call EXCEPT !.served = TRUE, !.found = found]
           g == [f EXCEPT ![c].served = TRUE, ![c].found = found]
<1>1. call \in Call
  BY KindOfCall
<1>2. /\ new \in Call
      /\ new.kind = call.kind /\ new.fact = call.fact /\ new.alone = call.alone
      /\ new.served = TRUE /\ new.found = found
  BY <1>1 DEF Call
<1>3. g[c] = new /\ \A d \in Slots : d # c => g[d] = f[d]
  BY DEF PanelCalls
<1>4. g = [f EXCEPT ![c] = g[c]]
  BY DEF PanelCalls
<1> HIDE DEF call, new
<1>5. g \in PanelCalls
  <2>1. [f EXCEPT ![c] = new] \in PanelCalls
    BY <1>2 DEF PanelCalls
  <2>2. QED
    BY <1>3, <1>4, <2>1
<1>6. QED
  BY <1>2, <1>3, <1>5 DEF Served, call

\* g is f without the call of slot c.
Removed(f, g, c) ==
    /\ g \in PanelCalls
    /\ g[c].kind = "none"
    /\ \A d \in Slots : d # c => g[d] = f[d]

LEMMA RemoveRemoves ==
    ASSUME NEW f \in PanelCalls, NEW c \in Slots
    PROVE  Removed(f, [f EXCEPT ![c] = NoCall], c)
BY DEF Removed, PanelCalls, NoCall

LEMMA ServeKeeps ==
    ASSUME NEW f \in PanelCalls, NEW c \in Slots, f[c].kind \in CallKinds,
           NEW g, NEW found, Served(f, g, c, found)
    PROVE  /\ AloneIsAlone(f) => AloneIsAlone(g)
           /\ \A n, m \in Nat :
                FoundAdded(f, n) /\ n <= m /\ (f[c].kind = "memories" \/ found \subseteq 1..m)
                => FoundAdded(g, m)
           /\ \A have :
                (f[c].kind = "memories" => found = have) /\ MemoriesFound(f, have)
                => MemoriesFound(g, have)
<1>0. \A d \in Slots : g[d].kind = f[d].kind /\ g[d].alone = f[d].alone
  BY DEF Served
<1>1. AloneIsAlone(f) => AloneIsAlone(g)
  BY <1>0 DEF AloneIsAlone
<1>2. ASSUME NEW n \in Nat, NEW m \in Nat, FoundAdded(f, n), n <= m,
             f[c].kind = "memories" \/ found \subseteq 1..m,
             NEW d \in Slots, g[d].kind \in CanonKinds
      PROVE  g[d].found \subseteq 1..m /\ g[d].fact <= m
  <2>1. f[d].found \subseteq 1..n /\ f[d].fact <= n /\ g[d].fact = f[d].fact
    BY <1>0, <1>2 DEF FoundAdded, Served
  <2>2. CASE d = c
    <3>1. g[d].found = found /\ f[c].kind # "memories" /\ f[d] \in Call
      BY <1>0, <1>2, <2>2, KindOfCall DEF Served, CanonKinds
    <3>2. f[d].fact \in Int
      BY <3>1, BoundTypes DEF Call
    <3>3. QED
      BY <1>2, <2>1, <3>1, <3>2
  <2>3. CASE d # c
    <3>1. g[d].found = f[d].found /\ f[d] \in Call
      BY <1>0, <1>2, <2>3, KindOfCall DEF Served, CanonKinds, CallKinds
    <3>2. f[d].fact \in Int
      BY <3>1 DEF Call
    <3>3. 1..n \subseteq 1..m
      BY <1>2
    <3>4. QED
      BY <1>2, <2>1, <3>1, <3>2, <3>3
  <2>4. QED
    BY <2>2, <2>3
<1>3. ASSUME NEW have, f[c].kind = "memories" => found = have, MemoriesFound(f, have),
             NEW d \in Slots, g[d].kind = "memories", g[d].alone, g[d].served
      PROVE  g[d].found \subseteq have
  BY <1>3 DEF MemoriesFound, Served
<1>4. \A n, m \in Nat :
         FoundAdded(f, n) /\ n <= m /\ (f[c].kind = "memories" \/ found \subseteq 1..m)
         => FoundAdded(g, m)
  BY <1>2 DEF FoundAdded
<1>5. \A have :
         (f[c].kind = "memories" => found = have) /\ MemoriesFound(f, have)
         => MemoriesFound(g, have)
  BY <1>3 DEF MemoriesFound
<1>6. QED
  BY <1>1, <1>4, <1>5

\* Serving anything but an add or a delete changes no canon.
LEMMA ServeList ==
    ASSUME NEW f \in PanelCalls, NEW c \in Slots, f[c].kind \in {"memories", "canon"},
           NEW g, NEW found, Served(f, g, c, found), NEW have,
           f[c].kind = "canon" => found = have
    PROVE  /\ LoadedFound(f, have) => LoadedFound(g, have)
           /\ \A list : Followed(f, list, have) => Followed(g, list, have)
<1>1. ASSUME LoadedFound(f, have), NEW d \in Slots,
             g[d].kind = "canon", g[d].alone, g[d].served
      PROVE  g[d].found = have
  BY <1>1 DEF LoadedFound, Served
<1>2. Adds(g) = Adds(f) /\ Deletes(g) = Deletes(f) /\ c \notin Adds(f) /\ c \notin Deletes(f)
  BY DEF Adds, Deletes, Served
<1>3. /\ \A d \in Adds(f) : d \in Slots /\ g[d].found = f[d].found
      /\ \A d \in Deletes(f) : d \in Slots /\ g[d].fact = f[d].fact
  BY <1>2 DEF Adds, Deletes, Served
<1>4. \A d \in Slots : g[d].kind = f[d].kind /\ g[d].fact = f[d].fact
  BY DEF Served
<1>6. ASSUME NEW list, Followed(f, list, have)  PROVE Followed(g, list, have)
  <2>1. \A d \in Adds(g) : g[d].found \cap BagToSet(list) = {}
    BY <1>2, <1>3, <1>6 DEF Followed
  <2>2. \A d, e \in Adds(g) : d # e => g[d].found \cap g[e].found = {}
    BY <1>2, <1>3, <1>6 DEF Followed
  <2>3. \A d \in Adds(g), e \in Slots : g[e].kind = "delete" => g[e].fact \notin g[d].found
    BY <1>2, <1>3, <1>4, <1>6 DEF Followed
  <2>4. \A x : x \in have <=>
             /\ x \in BagToSet(list) \/ \E d \in Adds(g) : x \in g[d].found
             /\ \A d \in Deletes(g) : g[d].fact # x
    BY <1>2, <1>3, <1>6 DEF Followed
  <2>5. QED
    BY <1>6, <2>1, <2>2, <2>3, <2>4 DEF Followed
<1>7. QED
  BY <1>1, <1>6 DEF LoadedFound

\* A fetch that is alone in flight sees no add or delete served.
LEMMA ServeChange ==
    ASSUME NEW f \in PanelCalls, NEW c \in Slots, f[c].kind \in {"add", "delete"},
           NEW g, NEW found, Served(f, g, c, found), AloneIsAlone(f), NEW have
    PROVE  LoadedFound(g, have)
<1> SUFFICES ASSUME NEW d \in Slots, g[d].kind = "canon", g[d].alone, g[d].served
             PROVE  FALSE
  BY DEF LoadedFound
<1>1. d # c /\ f[d].kind = "canon" /\ f[d].alone
  BY DEF Served
<1>2. ~Disturbs("canon", f[c].kind)
  BY <1>1 DEF AloneIsAlone, CallKinds
<1>3. QED
  BY <1>2 DEF Disturbs

\* The session has one more fact, and so has the list when the answer is applied.
LEMMA ServeAdd ==
    ASSUME NEW f \in PanelCalls, NEW c \in Slots, f[c].kind = "add", ~f[c].served,
           NEW g, NEW n \in Nat, Served(f, g, c, {n + 1}), FoundAdded(f, n),
           NEW list, BagToSet(list) \subseteq 1..n, NEW have, Followed(f, list, have)
    PROVE  Followed(g, list, have \cup {n + 1})
<1>1. Adds(g) = Adds(f) \cup {c} /\ Deletes(g) = Deletes(f) /\ c \notin Adds(f)
  BY DEF Adds, Deletes, Served
<1>2. /\ \A d \in Adds(f) : d \in Slots /\ d # c /\ g[d].found = f[d].found
      /\ \A d \in Deletes(f) : d \in Slots /\ g[d].fact = f[d].fact
      /\ g[c].found = {n + 1}
  BY <1>1 DEF Adds, Deletes, Served
<1>3. \A d \in Slots : g[d].kind = f[d].kind /\ g[d].fact = f[d].fact
  BY DEF Served
<1>4. n + 1 \notin 1..n /\ \A k : k <= n => k # n + 1
  OBVIOUS
<1>5. \A d \in Adds(f) : f[d].found \subseteq 1..n
  BY DEF FoundAdded, Adds, CanonKinds
<1>6. \A d \in Slots : f[d].kind = "delete" => f[d].fact # n + 1
  BY <1>4 DEF FoundAdded, CanonKinds
<1>7. ASSUME NEW x
      PROVE  x \in have \cup {n + 1} <=>
             /\ x \in BagToSet(list) \/ \E d \in Adds(g) : x \in g[d].found
             /\ \A d \in Deletes(g) : g[d].fact # x
  <2>1. /\ (\E d \in Adds(g) : x \in g[d].found)
            <=> (x = n + 1 \/ \E d \in Adds(f) : x \in f[d].found)
        /\ (\A d \in Deletes(g) : g[d].fact # x) <=> (\A d \in Deletes(f) : f[d].fact # x)
    BY <1>1, <1>2
  <2>2. \A d \in Deletes(f) : f[d].fact # n + 1
    BY <1>6 DEF Deletes
  <2>3. x \in have <=> /\ x \in BagToSet(list) \/ \E d \in Adds(f) : x \in f[d].found
                       /\ \A d \in Deletes(f) : f[d].fact # x
    BY DEF Followed
  <2>4. QED
    BY <2>1, <2>2, <2>3
<1>10. \A d \in Adds(g) : g[d].found \cap BagToSet(list) = {}
  BY <1>1, <1>2, <1>4 DEF Followed
<1>11. \A d, e \in Adds(g) : d # e => g[d].found \cap g[e].found = {}
  <2>1. ASSUME NEW d \in Adds(f)  PROVE g[d].found \cap {n + 1} = {}
    BY <1>2, <1>4, <1>5
  <2>2. \A d, e \in Adds(f) : d # e => g[d].found \cap g[e].found = {}
    BY <1>2 DEF Followed
  <2>3. QED
    BY <1>1, <1>2, <2>1, <2>2
<1>12. \A d \in Adds(g), e \in Slots : g[e].kind = "delete" => g[e].fact \notin g[d].found
  <2>1. ASSUME NEW d \in Adds(f), NEW e \in Slots, g[e].kind = "delete"
        PROVE  g[e].fact \notin g[d].found
    BY <1>2, <1>3, <2>1 DEF Followed
  <2>2. ASSUME NEW e \in Slots, g[e].kind = "delete"  PROVE g[e].fact \notin g[c].found
    BY <1>2, <1>3, <1>6, <2>2
  <2>3. QED
    BY <1>1, <2>1, <2>2
<1>13. QED
  BY <1>7, <1>10, <1>11, <1>12 DEF Followed

\* The session has one fact less, and so has the list when the answer is applied.
LEMMA ServeDelete ==
    ASSUME NEW f \in PanelCalls, NEW c \in Slots, f[c].kind = "delete", ~f[c].served,
           NEW g, Served(f, g, c, {}), NEW list, NEW have, Followed(f, list, have)
    PROVE  Followed(g, list, have \ {f[c].fact})
<1>1. Adds(g) = Adds(f) /\ Deletes(g) = Deletes(f) \cup {c} /\ c \notin Adds(f)
  BY DEF Adds, Deletes, Served
<1>2. /\ \A d \in Adds(f) : d \in Slots /\ g[d].found = f[d].found
      /\ \A d \in Deletes(g) : d \in Slots /\ g[d].fact = f[d].fact
  BY <1>1 DEF Adds, Deletes, Served
<1>3. \A d \in Slots : g[d].kind = f[d].kind /\ g[d].fact = f[d].fact
  BY DEF Served
<1>5. ASSUME NEW x
      PROVE  x \in have \ {f[c].fact} <=>
             /\ x \in BagToSet(list) \/ \E d \in Adds(g) : x \in g[d].found
             /\ \A d \in Deletes(g) : g[d].fact # x
  <2>1. /\ (\E d \in Adds(g) : x \in g[d].found) <=> (\E d \in Adds(f) : x \in f[d].found)
        /\ (\A d \in Deletes(g) : g[d].fact # x)
            <=> (f[c].fact # x /\ \A d \in Deletes(f) : f[d].fact # x)
    BY <1>1, <1>2
  <2>2. QED
    BY <2>1 DEF Followed
<1>6. \A d \in Adds(g) : g[d].found \cap BagToSet(list) = {}
  BY <1>1, <1>2 DEF Followed
<1>7. \A d, e \in Adds(g) : d # e => g[d].found \cap g[e].found = {}
  BY <1>1, <1>2 DEF Followed
<1>8. \A d \in Adds(g), e \in Slots : g[e].kind = "delete" => g[e].fact \notin g[d].found
  BY <1>1, <1>2, <1>3 DEF Followed
<1>9. QED
  BY <1>5, <1>6, <1>7, <1>8 DEF Followed

LEMMA RemoveKeeps ==
    ASSUME NEW f \in PanelCalls, NEW c \in Slots, NEW g, Removed(f, g, c)
    PROVE  /\ AloneIsAlone(f) => AloneIsAlone(g)
           /\ \A n : FoundAdded(f, n) => FoundAdded(g, n)
           /\ \A have : LoadedFound(f, have) => LoadedFound(g, have)
           /\ \A have : MemoriesFound(f, have) => MemoriesFound(g, have)
<1>1. \A d \in Slots : g[d].kind # "none" => d # c /\ g[d] = f[d]
  BY DEF Removed
<1>2. "none" \notin CallKinds /\ "none" \notin CanonKinds
  BY DEF CallKinds, CanonKinds
<1>3. AloneIsAlone(f) => AloneIsAlone(g)
  BY <1>1, <1>2 DEF AloneIsAlone
<1>4. \A n : FoundAdded(f, n) => FoundAdded(g, n)
  BY <1>1, <1>2 DEF FoundAdded
<1>5. \A have : LoadedFound(f, have) => LoadedFound(g, have)
  BY <1>1 DEF LoadedFound
<1>6. \A have : MemoriesFound(f, have) => MemoriesFound(g, have)
  BY <1>1 DEF MemoriesFound
<1>7. QED
  BY <1>3, <1>4, <1>5, <1>6

\* What the list follows is not touched by a call that changed no canon.
LEMMA RemoveOther ==
    ASSUME NEW f \in PanelCalls, NEW c \in Slots, NEW g, Removed(f, g, c),
           c \notin Adds(f), c \notin Deletes(f),
           NEW list, NEW have, Followed(f, list, have)
    PROVE  Followed(g, list, have)
<1>1. Adds(g) = Adds(f) /\ Deletes(g) = Deletes(f)
  BY DEF Adds, Deletes, Removed
<1>2. /\ \A d \in Adds(f) : g[d] = f[d]
      /\ \A d \in Deletes(f) : g[d] = f[d]
      /\ \A d \in Slots : g[d].kind = "delete" => g[d] = f[d]
  BY DEF Adds, Deletes, Removed
<1>3. QED
  BY <1>1, <1>2 DEF Followed

\* A list that was fetched undisturbed follows the session's canon.
LEMMA AnswerCanon ==
    ASSUME NEW f \in PanelCalls, NEW c \in Slots, f[c].kind = "canon", f[c].alone,
           AloneIsAlone(f), NEW g, Removed(f, g, c), NEW have
    PROVE  Followed(g, SetToBag(have), have)
<1>1. ASSUME NEW d \in Slots  PROVE g[d].kind \notin {"add", "delete"}
  <2>1. CASE d = c
    BY <2>1 DEF Removed
  <2>2. CASE d # c /\ f[d].kind \in CallKinds
    <3>1. ~Disturbs("canon", f[d].kind) /\ g[d] = f[d]
      BY <2>2 DEF AloneIsAlone, CallKinds, Removed
    <3>2. QED
      BY <3>1 DEF Disturbs
  <2>3. CASE d # c /\ f[d].kind \notin CallKinds
    BY <2>3 DEF Removed, CallKinds
  <2>4. QED
    BY <2>1, <2>2, <2>3
<1>2. Adds(g) = {} /\ Deletes(g) = {}
  BY <1>1 DEF Adds, Deletes
<1>3. BagToSet(SetToBag(have)) = have
  BY DEF BagToSet, SetToBag
<1>4. \A d \in Slots : g[d].kind # "delete"
  BY <1>1
<1>5. QED
  BY <1>2, <1>3, <1>4 DEF Followed

LEMMA AnswerAdd ==
    ASSUME NEW f \in PanelCalls, NEW c \in Adds(f), NEW g, Removed(f, g, c),
           NEW list, NEW have, Followed(f, list, have)
    PROVE  Followed(g, list (+) SetToBag(f[c].found), have)
<1> DEFINE new == list (+) SetToBag(f[c].found)
<1>0. f[c].kind = "add" /\ f[c].served /\ c \in Slots
  BY DEF Adds
<1>1. Adds(g) = Adds(f) \ {c} /\ Deletes(g) = Deletes(f)
  BY <1>0 DEF Adds, Deletes, Removed
<1>2. /\ \A d \in Adds(g) : g[d] = f[d]
      /\ \A d \in Deletes(f) : g[d] = f[d]
      /\ \A d \in Slots : g[d].kind = "delete" => g[d] = f[d]
  BY <1>0 DEF Adds, Deletes, Removed
<1>3. /\ BagToSet(new) = BagToSet(list) \cup f[c].found
      /\ new = SetToBag(BagToSet(new))
  <2>1. f[c].found \cap BagToSet(list) = {} /\ list = [x \in BagToSet(list) |-> 1]
    BY DEF Followed, SetToBag
  <2>2. new = [x \in BagToSet(list) \cup f[c].found |->
                 (IF x \in BagToSet(list) THEN list[x] ELSE 0)
                 + (IF x \in f[c].found THEN 1 ELSE 0)]
    BY DEF (+), BagToSet, SetToBag
  <2>3. \A x \in BagToSet(list) : list[x] = 1
    BY <2>1
  <2> HIDE DEF new
  <2>4. new = [x \in BagToSet(list) \cup f[c].found |-> 1]
    BY <2>1, <2>2, <2>3
  <2>5. QED
    BY <2>4 DEF BagToSet, SetToBag
<1> HIDE DEF new
<1>4. \A d \in Adds(g) : g[d].found \cap BagToSet(new) = {}
  BY <1>1, <1>2, <1>3 DEF Followed
<1>5. \A d, e \in Adds(g) : d # e => g[d].found \cap g[e].found = {}
  BY <1>1, <1>2 DEF Followed
<1>6. \A d \in Adds(g), e \in Slots : g[e].kind = "delete" => g[e].fact \notin g[d].found
  BY <1>1, <1>2 DEF Followed
<1>7. \A x : x \in have <=> /\ x \in BagToSet(new) \/ \E d \in Adds(g) : x \in g[d].found
                           /\ \A d \in Deletes(g) : g[d].fact # x
  BY <1>1, <1>2, <1>3 DEF Followed
<1>8. Followed(g, new, have)
  BY <1>3, <1>4, <1>5, <1>6, <1>7 DEF Followed
<1>9. QED
  BY <1>8 DEF new

LEMMA AnswerDelete ==
    ASSUME NEW f \in PanelCalls, NEW c \in Deletes(f), NEW g, Removed(f, g, c),
           NEW list, NEW have, Followed(f, list, have)
    PROVE  Followed(g, Restrict(list, BagToSet(list) \ {f[c].fact}), have)
<1> DEFINE new == Restrict(list, BagToSet(list) \ {f[c].fact})
<1>0. f[c].kind = "delete" /\ f[c].served /\ c \in Slots
  BY DEF Deletes
<1>1. Adds(g) = Adds(f) /\ Deletes(g) = Deletes(f) \ {c}
  BY <1>0 DEF Adds, Deletes, Removed
<1>2. /\ \A d \in Adds(f) : g[d] = f[d]
      /\ \A d \in Deletes(g) : g[d] = f[d]
      /\ \A d \in Slots : g[d].kind = "delete" => g[d] = f[d]
  BY <1>0 DEF Adds, Deletes, Removed
<1>3. /\ BagToSet(new) = BagToSet(list) \ {f[c].fact}
      /\ new = SetToBag(BagToSet(new))
  <2>1. list = [x \in BagToSet(list) |-> 1]
    BY DEF Followed, SetToBag
  <2>2. new = [x \in BagToSet(list) \ {f[c].fact} |-> list[x]]
    BY DEF Restrict
  <2>3. \A x \in BagToSet(list) : list[x] = 1
    BY <2>1
  <2> HIDE DEF new
  <2>4. new = [x \in BagToSet(list) \ {f[c].fact} |-> 1]
    BY <2>2, <2>3
  <2>5. QED
    BY <2>4 DEF BagToSet, SetToBag
<1> HIDE DEF new
<1>4. \A d \in Adds(g) : g[d].found \cap BagToSet(new) = {}
  BY <1>1, <1>2, <1>3 DEF Followed
<1>5. \A d, e \in Adds(g) : d # e => g[d].found \cap g[e].found = {}
  BY <1>1, <1>2 DEF Followed
<1>6. \A d \in Adds(g), e \in Slots : g[e].kind = "delete" => g[e].fact \notin g[d].found
  BY <1>1, <1>2 DEF Followed
<1>7. \A d \in Adds(f) : f[c].fact \notin f[d].found
  BY <1>0 DEF Followed
<1>8. \A x : x \in have <=> /\ x \in BagToSet(new) \/ \E d \in Adds(g) : x \in g[d].found
                           /\ \A d \in Deletes(g) : g[d].fact # x
  <2>1. ASSUME NEW x
        PROVE  (\A d \in Deletes(f) : f[d].fact # x)
                   <=> (f[c].fact # x /\ \A d \in Deletes(g) : g[d].fact # x)
    BY <1>1, <1>2
  <2>2. \A x : (\E d \in Adds(g) : x \in g[d].found) <=> (\E d \in Adds(f) : x \in f[d].found)
    BY <1>1, <1>2
  <2>3. \A x : (\E d \in Adds(f) : x \in f[d].found) => x # f[c].fact
    BY <1>7
  <2>4. \A x : x \in have <=> /\ x \in BagToSet(list) \/ \E d \in Adds(f) : x \in f[d].found
                             /\ \A d \in Deletes(f) : f[d].fact # x
    BY DEF Followed
  <2>5. QED
    BY <1>3, <2>1, <2>2, <2>3, <2>4
<1>9. Followed(g, new, have)
  BY <1>3, <1>4, <1>5, <1>6, <1>8 DEF Followed
<1>10. QED
  BY <1>9 DEF new

\* One call more is in flight.
LEMMA IssuedFlight ==
    ASSUME bound \in Bounds, NEW f \in PanelCalls, NEW g, NEW s \in Slots,
           NEW kind \in CallKinds, NEW fact, Issued(f, g, s, kind, fact)
    PROVE  /\ Flight(g) = Flight(f) \cup {s}
           /\ Cardinality(Flight(g)) = Cardinality(Flight(f)) + 1
<1>1. ASSUME NEW c \in Slots
      PROVE  /\ c \in Flight(f) <=> f[c].kind \in CallKinds
             /\ c \in Flight(g) <=> g[c].kind \in CallKinds
  BY KindOfCall DEF Issued, Flight
<1>2. Flight(f) \subseteq Slots /\ Flight(g) \subseteq Slots
  BY DEF Flight
<1>3. s \notin Flight(f) /\ s \in Flight(g)
  BY <1>1 DEF Issued, CallKinds
<1>4. \A c \in Slots : c # s => (c \in Flight(f) <=> c \in Flight(g))
  BY <1>1 DEF Issued
<1>5. Flight(g) = Flight(f) \cup {s}
  BY <1>2, <1>3, <1>4
<1>6. IsFiniteSet(Flight(f))
  BY <1>2, SlotsFinite, FS_Subset
<1>7. QED
  BY <1>3, <1>5, <1>6, FS_AddElement

LEMMA RemovedFlight ==
    ASSUME bound \in Bounds, NEW f \in PanelCalls, NEW c \in Slots, NEW g, Removed(f, g, c)
    PROVE  /\ Flight(g) = Flight(f) \ {c}
           /\ Cardinality(Flight(g)) \in Nat /\ Cardinality(Flight(f)) \in Nat
           /\ Cardinality(Flight(g)) <= Cardinality(Flight(f))
<1>1. Flight(g) = Flight(f) \ {c}
  <2>1. g[c] = NoCall
    BY KindOfCall DEF Removed, CallKinds
  <2>2. QED
    BY <2>1 DEF Removed, Flight
<1>2. Flight(f) \subseteq Slots /\ Flight(g) \subseteq Flight(f)
  BY <1>1 DEF Flight
<1>3. IsFiniteSet(Flight(f))
  BY <1>2, SlotsFinite, FS_Subset
<1>4. IsFiniteSet(Flight(g)) /\ Cardinality(Flight(g)) <= Cardinality(Flight(f))
  BY <1>2, <1>3, FS_Subset
<1>5. QED
  BY <1>1, <1>3, <1>4, FS_CardinalityType

\* What one more call leaves as it was.
LEMMA IssueKeeps ==
    ASSUME NEW f \in PanelCalls, NEW g, NEW s \in Slots, NEW kind \in CallKinds, NEW fact,
           Issued(f, g, s, kind, fact)
    PROVE  /\ AloneIsAlone(f) => AloneIsAlone(g)
           /\ \A n \in Nat : fact <= n /\ FoundAdded(f, n) => FoundAdded(g, n)
           /\ \A have : LoadedFound(f, have) => LoadedFound(g, have)
           /\ \A have : MemoriesFound(f, have) => MemoriesFound(g, have)
           /\ kind = "memories" => \A have : MemoriesFound(g, have)
           /\ \A list, have :
                (kind = "delete" => fact \in BagToSet(list)) /\ Followed(f, list, have)
                => Followed(g, list, have)
BY IssueAlone, IssueFoundAdded, IssueLoadedFound, IssueMemoriesFound, IssueFollowed

-----------------------------------------------------------------------------
(* Types *)

ServerTypes ==
    /\ bound \in Bounds
    /\ born \in 0..bound.sessions
    /\ added \in 0..bound.facts
    /\ history \in [Sessions -> Seq(Turn)]
    /\ kept \in [Sessions -> SUBSET Turns]
    /\ owed \in [Sessions -> SUBSET Turns]
    /\ canon \in [Sessions -> SUBSET (1..added)]
    /\ \A s \in Sessions : s > born => history[s] = <<>> /\ canon[s] = {}

\* the transcript is a sequence of messages and their replies
Dialogue(entries) ==
    /\ entries \in Seq(ToSet(entries))
    /\ Len(entries) % 2 = 0
    /\ \A i \in 1..Len(entries) :
        IF i % 2 = 1 THEN \E m \in Turns : entries[i] = Player(m)
        ELSE entries[i].role = "assistant"

PageTypes ==
    /\ session \in 0..born
    /\ Dialogue(transcript)
    /\ memories \subseteq Turns
    /\ IsABag(facts) /\ BagToSet(facts) \subseteq 1..added
    /\ canonError \in BOOLEAN

OpTypes ==
    /\ op \in Op /\ op.session \in 0..born
    /\ op.pc \in {"create", "get"} => session = 0
    /\ op.pc \in {"details", "panels", "turn", "reroll"} => session # 0
    /\ op.pc = "create" => born < bound.sessions
    /\ op.pc = "get" => op.session # 0
    /\ op.pc \in {"turn", "reroll"} => op.message \in Turns /\ op.n \in 1..asked
    /\ asked \in 0..bound.turns
    /\ doubt \in BOOLEAN /\ closed \in BOOLEAN

\* a task's number is its own
TaskTypes ==
    /\ tasks \subseteq Task
    /\ \A t \in tasks : t.session <= born /\ t.n <= asked
    /\ \A t, u \in tasks : t.n = u.n => t = u

Unserved(f) == {c \in Slots : f[c].kind = "add" /\ ~f[c].served}

CallTypes ==
    /\ calls \in PanelCalls
    /\ trusted \subseteq {"memories", "canon"}
    /\ FoundAdded(calls, added)
    /\ \A c \in Slots : calls[c].kind = "memories" => calls[c].found \subseteq Turns
    /\ session = 0 => Flight(calls) = {} /\ trusted = {}
    \* the operation under way finds room for the calls it ends with, a fact a number
    /\ op.pc \notin {"idle", "panels"} => Cardinality(Flight(calls)) + 2 <= bound.calls
    /\ added + Cardinality(Unserved(calls)) <= bound.facts

TypeInv == ServerTypes /\ PageTypes /\ OpTypes /\ TaskTypes /\ CallTypes

\* What is defined from the bounds stays as it is.
LEMMA BoundSame ==
    ASSUME bound' = bound
    PROVE  /\ Slots' = Slots /\ Turns' = Turns /\ Sessions' = Sessions
           /\ Turn' = Turn /\ Task' = Task /\ Op' = Op /\ Call' = Call
           /\ PanelCalls' = PanelCalls
           /\ \A f : /\ (Flight(f))' = Flight(f) 
BY DEF Slots, Turns, Sessions, Turn, Task, Op, Call, PanelCalls, Flight

LEMMA PrimedCalls ==
    ASSUME bound' = bound
    PROVE  /\ AloneIsAlone(calls)' <=> AloneIsAlone(calls')
           /\ FoundAdded(calls, added)' <=> FoundAdded(calls', added')
           /\ LoadedFound(calls, canon[session])' <=> LoadedFound(calls', canon'[session'])
           /\ Followed(calls, facts, canon[session])'
                <=> Followed(calls', facts', canon'[session'])
           /\ MemoriesFound(calls, kept[session])' <=> MemoriesFound(calls', kept'[session'])
           /\ Flight(calls)' = Flight(calls')
           /\ Unserved(calls)' = Unserved(calls')
           /\ Dialogue(transcript)' <=> Dialogue(transcript')
<1>1. Slots' = Slots /\ Turns' = Turns
  BY BoundSame
<1>2. AloneIsAlone(calls)' <=> AloneIsAlone(calls')
  BY <1>1 DEF AloneIsAlone
<1>3. FoundAdded(calls, added)' <=> FoundAdded(calls', added')
  BY <1>1 DEF FoundAdded
<1>4. LoadedFound(calls, canon[session])' <=> LoadedFound(calls', canon'[session'])
  BY <1>1 DEF LoadedFound
<1>5. Followed(calls, facts, canon[session])' <=> Followed(calls', facts', canon'[session'])
  BY <1>1 DEF Followed, Adds, Deletes
<1>6. MemoriesFound(calls, kept[session])' <=> MemoriesFound(calls', kept'[session'])
  BY <1>1 DEF MemoriesFound
<1>7. Flight(calls)' = Flight(calls') /\ Unserved(calls)' = Unserved(calls')
  BY <1>1 DEF Flight, Unserved
<1>8. Dialogue(transcript)' <=> Dialogue(transcript')
  BY <1>1 DEF Dialogue
<1>9. QED
  BY <1>2, <1>3, <1>4, <1>5, <1>6, <1>7, <1>8

LEMMA InFlightIs == InFlight = Flight(calls)
BY DEF InFlight, Flight

LEMMA UnservedFinite ==
    ASSUME bound \in Bounds, NEW f
    PROVE  IsFiniteSet(Unserved(f)) /\ Cardinality(Unserved(f)) \in Nat
<1>1. Unserved(f) \subseteq Slots
  BY DEF Unserved
<1>2. QED
  BY <1>1, SlotsFinite, FS_Subset, FS_CardinalityType

LEMMA UnservedIssued ==
    ASSUME bound \in Bounds, NEW f \in PanelCalls, NEW g, NEW s \in Slots,
           NEW kind \in CallKinds, NEW fact, Issued(f, g, s, kind, fact)
    PROVE  Cardinality(Unserved(g))
             = Cardinality(Unserved(f)) + (IF kind = "add" THEN 1 ELSE 0)
<1>1. \A c \in Slots : c # s => (c \in Unserved(g) <=> c \in Unserved(f))
  BY DEF Unserved, Issued, CallKinds
<1>2. s \notin Unserved(f) /\ (s \in Unserved(g) <=> kind = "add")
  BY DEF Unserved, Issued
<1>3. Unserved(f) \subseteq Slots /\ Unserved(g) \subseteq Slots
  BY DEF Unserved
<1>4. CASE kind = "add"
  <2>1. Unserved(g) = Unserved(f) \cup {s}
    BY <1>1, <1>2, <1>3, <1>4
  <2>2. QED
    BY <1>2, <1>4, <2>1, UnservedFinite, FS_AddElement
<1>5. CASE kind # "add"
  <2>1. Unserved(g) = Unserved(f)
    BY <1>1, <1>2, <1>3, <1>5
  <2>2. QED
    BY <1>5, <2>1, UnservedFinite
<1>6. QED
  BY <1>4, <1>5

LEMMA UnservedServed ==
    ASSUME bound \in Bounds, NEW f \in PanelCalls, NEW c \in Slots, ~f[c].served,
           NEW g, NEW found, Served(f, g, c, found)
    PROVE  Cardinality(Unserved(f))
             = Cardinality(Unserved(g)) + (IF f[c].kind = "add" THEN 1 ELSE 0)
<1>1. Unserved(g) = Unserved(f) \ {c}
  BY DEF Unserved, Served
<1>2. c \in Unserved(f) <=> f[c].kind = "add"
  BY DEF Unserved
<1>3. CASE f[c].kind = "add"
  <2>1. Cardinality(Unserved(g)) = Cardinality(Unserved(f)) - 1
    BY <1>1, <1>2, <1>3, UnservedFinite, FS_RemoveElement
  <2>2. QED
    BY <1>3, <2>1, UnservedFinite
<1>4. CASE f[c].kind # "add"
  <2>1. Unserved(g) = Unserved(f)
    BY <1>1, <1>2, <1>4
  <2>2. QED
    BY <1>4, <2>1, UnservedFinite
<1>5. QED
  BY <1>3, <1>4

LEMMA UnservedRemoved ==
    ASSUME bound \in Bounds, NEW f \in PanelCalls, NEW c \in Slots, NEW g, Removed(f, g, c)
    PROVE  Cardinality(Unserved(g)) <= Cardinality(Unserved(f))
<1>1. Unserved(g) \subseteq Unserved(f)
  BY DEF Unserved, Removed
<1>2. QED
  BY <1>1, UnservedFinite, FS_Subset

-----------------------------------------------------------------------------
(* The server's side *)

LEMMA ServerUnchanged ==
    ASSUME ServerTypes, UNCHANGED server
    PROVE  ServerTypes'
<1>1. UNCHANGED <<bound, born, history, kept, owed, canon, added>>
  BY DEF server
<1>2. Sessions' = Sessions /\ Turns' = Turns /\ Turn' = Turn
  BY <1>1, BoundSame
<1>3. QED
  BY <1>1, <1>2 DEF ServerTypes

LEMMA ServerBorn ==
    ASSUME ServerTypes, born' \in born..bound.sessions,
           UNCHANGED <<bound, history, kept, owed, canon, added>>
    PROVE  ServerTypes'
<1>1. bound.sessions \in Nat
  BY BoundTypes DEF ServerTypes
<1>2. born \in Nat /\ born' \in 0..bound.sessions /\ \A s \in Sessions : s > born' => s > born
  BY <1>1 DEF ServerTypes, Sessions
<1>3. Sessions' = Sessions /\ Turns' = Turns /\ Turn' = Turn
  BY BoundSame
<1>4. QED
  BY <1>2, <1>3 DEF ServerTypes

LEMMA ServerDelete ==
    ASSUME ServerTypes, NEW s \in Sessions, DeleteLastTurn(s),
           UNCHANGED <<bound, born, canon, added>>
    PROVE  ServerTypes'
<1> DEFINE front == Front(history[s])
<1>1. history[s] \in Seq(Turn) /\ history[s] # <<>>
  BY DEF ServerTypes, DeleteLastTurn
<1>2. front \in Seq(Turn)
  BY <1>1 DEF Front
<1>3. PICK missed \in SUBSET owed[s] :
        /\ history' = [history EXCEPT ![s] = front]
        /\ kept' = [kept EXCEPT ![s] = kept[s] \cap Last(history[s]).before]
        /\ owed' = [owed EXCEPT ![s] = missed]
  BY DEF DeleteLastTurn
<1> HIDE DEF front
<1>4. kept' \in [Sessions -> SUBSET Turns] /\ owed' \in [Sessions -> SUBSET Turns]
  BY <1>3 DEF ServerTypes
<1>5. history' \in [Sessions -> Seq(Turn)]
  BY <1>2, <1>3 DEF ServerTypes
<1>6. \A r \in Sessions : r # s => history'[r] = history[r]
  BY <1>3 DEF ServerTypes
<1>7. ~(s > born)
  BY <1>1 DEF ServerTypes
<1>8. \A r \in Sessions : r > born => history'[r] = <<>> /\ canon[r] = {}
  BY <1>6, <1>7 DEF ServerTypes
<1>9. QED
  BY <1>4, <1>5, <1>8, BoundSame DEF ServerTypes

LEMMA ServerStore ==
    ASSUME ServerTypes, TaskTypes, NEW t \in tasks,
           history' = [history EXCEPT ![t.session] = Append(@, NewTurn(t))],
           owed' = [owed EXCEPT ![t.session] = @ \cup {t.n}],
           UNCHANGED <<bound, born, kept, canon, added>>
    PROVE  ServerTypes'
<1> DEFINE s == t.session
           new == Append(history[s], NewTurn(t))
<1>1. s \in Sessions /\ t.n \in Turns /\ NewTurn(t) \in Turn /\ ~(s > born)
  <2>1. t \in Task /\ s <= born
    BY DEF TaskTypes
  <2>2. s \in Sessions /\ t.message \in Turns /\ t.n \in Turns
    BY <2>1 DEF Task
  <2>3. s \in Nat /\ born \in Nat
    BY <2>2, BoundTypes DEF Sessions, ServerTypes
  <2>4. kept[s] \subseteq Turns
    BY <2>2 DEF ServerTypes
  <2>5. QED
    BY <2>1, <2>2, <2>3, <2>4 DEF Turn, NewTurn
<1>2. new \in Seq(Turn)
  BY <1>1 DEF ServerTypes
<1>3. history' = [history EXCEPT ![s] = new] /\ owed' = [owed EXCEPT ![s] = owed[s] \cup {t.n}]
  OBVIOUS
<1> HIDE DEF new, s
<1>4. history' \in [Sessions -> Seq(Turn)] /\ owed' \in [Sessions -> SUBSET Turns]
  <2>1. history \in [Sessions -> Seq(Turn)] /\ owed \in [Sessions -> SUBSET Turns]
    BY DEF ServerTypes
  <2>2. [history EXCEPT ![s] = new] \in [Sessions -> Seq(Turn)]
    BY <1>2, <2>1
  <2>3. owed[s] \cup {t.n} \in SUBSET Turns
    BY <1>1, <2>1
  <2>4. [owed EXCEPT ![s] = owed[s] \cup {t.n}] \in [Sessions -> SUBSET Turns]
    BY <2>1, <2>3
  <2>5. QED
    BY <1>3, <2>2, <2>4
<1>5. \A r \in Sessions : r # s => history'[r] = history[r]
  BY <1>1, <1>3 DEF ServerTypes
<1>6. \A r \in Sessions : r > born => history'[r] = <<>> /\ canon[r] = {}
  <2>1. \A r \in Sessions : r > born => history[r] = <<>> /\ canon[r] = {}
    BY DEF ServerTypes
  <2>2. ASSUME NEW r \in Sessions, r > born  PROVE history'[r] = history[r]
    BY <1>1, <1>5, <2>2
  <2>3. QED
    BY <2>1, <2>2
<1>7. Sessions' = Sessions /\ Turns' = Turns /\ Turn' = Turn
  BY BoundSame DEF ServerTypes
<1>8. kept' \in [Sessions -> SUBSET Turns] /\ canon' \in [Sessions -> SUBSET (1..added)]
  BY DEF ServerTypes
<1>9. QED
  BY <1>4, <1>6, <1>7, <1>8 DEF ServerTypes

LEMMA ServerCurate ==
    ASSUME ServerTypes, NEW s \in Sessions, Curate(s)
    PROVE  ServerTypes' /\ \A r \in Sessions : kept[r] \subseteq kept'[r]
<1>1. PICK n \in owed[s] : /\ kept' = [kept EXCEPT ![s] = kept[s] \cup {n}]
                          /\ owed' = [owed EXCEPT ![s] = owed[s] \ {n}]
  BY DEF Curate
<1>2. UNCHANGED <<bound, born, history, canon, added>> /\ n \in Turns
  BY DEF Curate, ServerTypes
<1>3. /\ kept' \in [Sessions -> SUBSET Turns] /\ owed' \in [Sessions -> SUBSET Turns]
      /\ \A r \in Sessions : kept[r] \subseteq kept'[r]
  BY <1>1, <1>2 DEF ServerTypes
<1>4. QED
  BY <1>2, <1>3, BoundSame DEF ServerTypes

\* Calls are in flight in a session only.
LEMMA SessionThere ==
    ASSUME ServerTypes, PageTypes
    PROVE  /\ session # 0 => session \in Sessions
           /\ session \in Nat /\ born \in Nat /\ added \in Nat
           /\ CallTypes => \A c \in Slots : calls[c] # NoCall => session # 0
<1>1. bound.sessions \in Nat /\ bound.facts \in Nat
  BY BoundTypes DEF ServerTypes
<1>2. /\ session # 0 => session \in Sessions
      /\ session \in Nat /\ born \in Nat /\ added \in Nat
  BY <1>1 DEF ServerTypes, PageTypes, Sessions
<1>3. CallTypes => \A c \in Slots : calls[c] # NoCall => session # 0
  BY DEF CallTypes, Flight
<1>4. QED
  BY <1>2, <1>3

\* What serving a call comes to, by its kind.
ServedAs(c, found) ==
    /\ Served(calls, calls', c, found)
    /\ CASE calls[c].kind = "memories" ->
              found = kept[session] /\ UNCHANGED <<canon, added>>
         [] calls[c].kind = "canon" ->
              found = canon[session] /\ UNCHANGED <<canon, added>>
         [] calls[c].kind = "add" ->
              /\ added + 1 <= bound.facts
              /\ found = {added + 1} /\ added' = added + 1
              /\ canon' = [canon EXCEPT ![session] = @ \cup {added + 1}]
         [] calls[c].kind = "delete" ->
              /\ found = {} /\ added' = added
              /\ canon' = [canon EXCEPT ![session] = @ \ {calls[c].fact}]

LEMMA ServeAs ==
    ASSUME TypeInv, NEW c \in Slots, Serve(c)
    PROVE  /\ calls[c] # NoCall /\ calls[c].kind \in CallKinds /\ ~calls[c].served
           /\ session \in Sessions
           /\ \E found \in SUBSET Nat : ServedAs(c, found)
<1> USE DEF TypeInv
<1>1. calls[c] # NoCall /\ calls[c].kind \in CallKinds /\ ~calls[c].served
  BY KindOfCall DEF Serve, InFlight, CallTypes
<1>2. session \in Sessions /\ calls \in PanelCalls /\ added \in Nat
  BY <1>1, SessionThere DEF CallTypes
<1>3. /\ kept[session] \in SUBSET Nat /\ canon[session] \in SUBSET Nat
      /\ {added + 1} \in SUBSET Nat /\ {} \in SUBSET Nat
  <2>1. Turns \subseteq Nat /\ 1..added \subseteq Nat
    BY <1>2, BoundTypes DEF ServerTypes, Turns
  <2>2. kept[session] \in SUBSET Turns /\ canon[session] \in SUBSET (1..added)
    BY <1>2 DEF ServerTypes
  <2>3. kept[session] \in SUBSET Nat /\ canon[session] \in SUBSET Nat
    BY <2>1, <2>2
  <2>4. added + 1 \in Nat
    BY <1>2
  <2>5. QED
    BY <2>3, <2>4
<1>4. ASSUME NEW found \in SUBSET Nat,
             calls' = [calls EXCEPT ![c].served = TRUE, ![c].found = found]
      PROVE  Served(calls, calls', c, found)
  BY <1>1, <1>2, <1>4, ServeServes
<1>5. ASSUME calls[c].kind = "memories"  PROVE \E found \in SUBSET Nat : ServedAs(c, found)
  <2>1. /\ calls' = [calls EXCEPT ![c].served = TRUE, ![c].found = kept[session]]
        /\ UNCHANGED <<canon, added>>
    BY <1>5 DEF Serve
  <2>2. ServedAs(c, kept[session])
    BY <1>3, <1>4, <1>5, <2>1 DEF ServedAs
  <2>3. QED
    BY <1>3, <2>2
<1>6. ASSUME calls[c].kind = "canon"  PROVE \E found \in SUBSET Nat : ServedAs(c, found)
  <2>1. /\ calls' = [calls EXCEPT ![c].served = TRUE, ![c].found = canon[session]]
        /\ UNCHANGED <<canon, added>>
    BY <1>6 DEF Serve, ListCanonFacts
  <2>2. ServedAs(c, canon[session])
    BY <1>3, <1>4, <1>6, <2>1 DEF ServedAs
  <2>3. QED
    BY <1>3, <2>2
<1>7. ASSUME calls[c].kind = "add"  PROVE \E found \in SUBSET Nat : ServedAs(c, found)
  <2>1. c \in Unserved(calls)
    BY <1>1, <1>7 DEF Unserved
  <2>2. Cardinality(Unserved(calls)) # 0
    BY <2>1, UnservedFinite, FS_EmptySet DEF ServerTypes
  <2>3. Cardinality(Unserved(calls)) \in Nat /\ bound.facts \in Nat
    BY UnservedFinite, BoundTypes DEF ServerTypes
  <2>4. added + 1 <= bound.facts
    BY <1>2, <2>2, <2>3 DEF CallTypes
  <2>5. /\ calls' = [calls EXCEPT ![c].served = TRUE, ![c].found = {added + 1}]
        /\ added' = added + 1
        /\ canon' = [canon EXCEPT ![session] = @ \cup {added + 1}]
    BY <1>7 DEF Serve
  <2>6. ServedAs(c, {added + 1})
    BY <1>3, <1>4, <1>7, <2>4, <2>5 DEF ServedAs
  <2>7. QED
    BY <1>3, <2>6
<1>8. ASSUME calls[c].kind = "delete"  PROVE \E found \in SUBSET Nat : ServedAs(c, found)
  <2>1. /\ calls' = [calls EXCEPT ![c].served = TRUE, ![c].found = {}]
        /\ canon' = [canon EXCEPT ![session] = @ \ {calls[c].fact}]
        /\ UNCHANGED added
    BY <1>8 DEF Serve
  <2>2. ServedAs(c, {})
    BY <1>3, <1>4, <1>8, <2>1 DEF ServedAs
  <2>3. QED
    BY <1>3, <2>2
<1>9. QED
  BY <1>1, <1>2, <1>5, <1>6, <1>7, <1>8 DEF CallKinds

LEMMA ServerServe ==
    ASSUME ServerTypes, session \in Sessions, ~(session > born),
           NEW c \in Slots, NEW found, ServedAs(c, found),
           calls[c].kind \in CallKinds, UNCHANGED <<bound, born, history, kept, owed>>
    PROVE  ServerTypes'
<1>1. /\ added \in Nat /\ bound.facts \in Nat
      /\ canon \in [Sessions -> SUBSET (1..added)]
  BY BoundTypes DEF ServerTypes
<1>2. /\ added' \in 0..bound.facts
      /\ canon' \in [Sessions -> SUBSET (1..added')]
      /\ \A s \in Sessions : s > born => canon'[s] = {}
  <2>1. CASE calls[c].kind \in {"memories", "canon"}
    BY <2>1 DEF ServedAs, ServerTypes
  <2>2. CASE calls[c].kind = "add"
    <3>1. /\ added + 1 <= bound.facts /\ added' = added + 1
          /\ canon' = [canon EXCEPT ![session] = canon[session] \cup {added + 1}]
      BY <2>2 DEF ServedAs
    <3>2. 1..added \subseteq 1..(added + 1) /\ added + 1 \in 1..(added + 1)
      BY <1>1
    <3>3. canon[session] \cup {added + 1} \in SUBSET (1..(added + 1))
      BY <1>1, <3>2
    <3>4. canon \in [Sessions -> SUBSET (1..(added + 1))]
      BY <1>1, <3>2
    <3>5. canon' \in [Sessions -> SUBSET (1..(added + 1))]
      BY <3>1, <3>3, <3>4
    <3>6. \A s \in Sessions : s > born => s # session /\ canon'[s] = canon[s]
      BY <1>1, <3>1
    <3>7. QED
      BY <1>1, <3>1, <3>5, <3>6 DEF ServerTypes
  <2>3. CASE calls[c].kind = "delete"
    <3>1. /\ added' = added
          /\ canon' = [canon EXCEPT ![session] = canon[session] \ {calls[c].fact}]
      BY <2>3 DEF ServedAs
    <3>2. canon' \in [Sessions -> SUBSET (1..added)]
      BY <1>1, <3>1
    <3>3. \A s \in Sessions : s > born => s # session /\ canon'[s] = canon[s]
      BY <1>1, <3>1
    <3>4. QED
      BY <3>1, <3>2, <3>3 DEF ServerTypes
  <2>4. QED
    BY <2>1, <2>2, <2>3 DEF CallKinds
<1>3. QED
  BY <1>2, BoundSame DEF ServerTypes

-----------------------------------------------------------------------------
(* The transcript *)

LEMMA SeqOfOwn ==
    ASSUME NEW S, NEW s \in Seq(S)
    PROVE  s \in Seq(ToSet(s))
BY DEF ToSet

LEMMA NoDialogue == Dialogue(<<>>)
<1>1. <<>> \in Seq(ToSet(<<>>)) /\ Len(<<>>) = 0
  OBVIOUS
<1>2. QED
  BY <1>1 DEF Dialogue

LEMMA DialogueGoesOn ==
    ASSUME NEW entries, Dialogue(entries), NEW m \in Turns, NEW text
    PROVE  Dialogue(entries \o <<Player(m), Assistant(text)>>)
<1> DEFINE S == ToSet(entries) \cup {Player(m), Assistant(text)}
           more == <<Player(m), Assistant(text)>>
           new == entries \o more
<1>1. entries \in Seq(S) /\ more \in Seq(S) /\ Len(more) = 2
  BY DEF Dialogue
<1>2. /\ new \in Seq(S) /\ Len(new) = Len(entries) + 2 /\ Len(entries) \in Nat
      /\ \A i \in 1..Len(new) :
          new[i] = IF i <= Len(entries) THEN entries[i] ELSE more[i - Len(entries)]
  BY <1>1
<1>3. new \in Seq(ToSet(new))
  BY <1>2, SeqOfOwn
<1>4. Len(new) % 2 = 0
  BY <1>2 DEF Dialogue
<1>5. ASSUME NEW i \in 1..Len(new)
      PROVE  IF i % 2 = 1 THEN \E n \in Turns : new[i] = Player(n)
             ELSE new[i].role = "assistant"
  <2>1. CASE i <= Len(entries)
    <3>1. i \in 1..Len(entries) /\ new[i] = entries[i]
      BY <1>2, <2>1
    <3>2. QED
      BY <3>1 DEF Dialogue
  <2>2. CASE i = Len(entries) + 1
    <3>1. Len(entries) % 2 = 0 /\ Len(entries) \in Nat
      BY <1>2 DEF Dialogue
    <3>2. i % 2 = 1 /\ ~(i <= Len(entries)) /\ i - Len(entries) = 1
      BY <2>2, <3>1
    <3>3. new[i] = more[1]
      BY <1>2, <3>2
    <3>4. QED
      BY <3>2, <3>3
  <2>3. CASE i = Len(entries) + 2
    <3>1. Len(entries) % 2 = 0 /\ Len(entries) \in Nat
      BY <1>2 DEF Dialogue
    <3>2. i % 2 = 0 /\ ~(i <= Len(entries)) /\ i - Len(entries) = 2
      BY <2>3, <3>1
    <3>3. new[i] = more[2]
      BY <1>2, <3>2
    <3>4. QED
      BY <3>2, <3>3 DEF Assistant, Entry
  <2>4. QED
    BY <1>2, <2>1, <2>2, <2>3
<1> HIDE DEF new
<1>6. Dialogue(new)
  BY <1>3, <1>4, <1>5 DEF Dialogue
<1>7. QED
  BY <1>6 DEF new

LEMMA DialogueCut ==
    ASSUME NEW entries, Dialogue(entries)
    PROVE  Dialogue(SubSeq(entries, 1, Len(entries) - 2))
<1> DEFINE n == Len(entries) - 2
           new == SubSeq(entries, 1, n)
<1>1. entries \in Seq(ToSet(entries)) /\ Len(entries) \in Nat /\ Len(entries) % 2 = 0
  BY DEF Dialogue
<1>2. CASE Len(entries) = 0
  <2>1. SubSeq(entries, 1, -2) = <<>>
    BY <1>1
  <2>2. n = -2
    BY <1>2
  <2>3. QED
    BY <2>1, <2>2, NoDialogue
<1>3. CASE Len(entries) # 0
  <2>1. n \in Nat /\ n % 2 = 0 /\ n <= Len(entries)
    BY <1>1, <1>3
  <2>2. /\ new \in Seq(ToSet(entries)) /\ Len(new) = n
        /\ \A i \in 1..n : new[i] = entries[i]
    <3>1. n \in 0..Len(entries) /\ 1 \in 1..Len(entries) + 1
      BY <1>1, <2>1
    <3>2. /\ new \in Seq(ToSet(entries))
          /\ Len(new) = IF 1 <= n THEN n - 1 + 1 ELSE 0
          /\ \A i \in 1..(n - 1 + 1) : new[i] = entries[1 + i - 1]
      BY <1>1, <3>1, SubSeqProperties
    <3>3. Len(new) = n
      <4>1. CASE n = 0
        BY <3>2, <4>1
      <4>2. CASE n # 0
        <5>1. \A k \in Nat : k # 0 => 1 <= k /\ k - 1 + 1 = k
          OBVIOUS
        <5>2. n \in Nat
          BY <2>1
        <5> HIDE DEF n
        <5>3. 1 <= n /\ n - 1 + 1 = n
          BY <4>2, <5>1, <5>2
        <5>4. QED
          BY <3>2, <5>3
      <4>3. QED
        BY <4>1, <4>2
    <3>4. \A i \in 1..n : i \in 1..(n - 1 + 1) /\ 1 + i - 1 = i
      BY <2>1
    <3>5. QED
      BY <3>2, <3>3, <3>4
  <2>3. new \in Seq(ToSet(new))
    BY <2>2, SeqOfOwn
  <2> HIDE DEF new
  <2>4. ASSUME NEW i \in 1..Len(new)
        PROVE  IF i % 2 = 1 THEN \E m \in Turns : new[i] = Player(m)
               ELSE new[i].role = "assistant"
    <3>1. i \in 1..Len(entries) /\ new[i] = entries[i]
      BY <1>1, <2>1, <2>2
    <3>2. QED
      BY <3>1 DEF Dialogue
  <2>5. Dialogue(new)
    BY <2>1, <2>2, <2>3, <2>4 DEF Dialogue
  <2>6. QED
    BY <2>5 DEF new
<1>4. QED
  BY <1>2, <1>3

LEMMA DialogueOfTurns ==
    ASSUME bound \in Bounds, NEW turns \in Seq(Turn)
    PROVE  /\ Dialogue(FullTranscript(turns))
           /\ Len(FullTranscript(turns)) = 2 * Len(turns)
<1> DEFINE new == FullTranscript(turns)
           n == 2 * Len(turns)
           S == {new[i] : i \in 1..n}
<1>1. /\ new = [i \in 1..n |->
                  IF i % 2 = 1 THEN Player(turns[(i + 1) \div 2].message)
                  ELSE Assistant(Reply(turns[i \div 2].reply))]
      /\ Len(turns) \in Nat
  BY DEF FullTranscript
<1>2. n \in Nat /\ n = 2 * Len(turns)
  BY <1>1
<1> HIDE DEF new, n
<1>3. new \in Seq(S) /\ Len(new) = n
  <2>1. DOMAIN new = 1..n /\ \A i \in 1..n : new[i] \in S
    BY <1>1
  <2>2. new = [i \in 1..n |-> new[i]]
    BY <1>1, <2>1
  <2>3. new \in [1..n -> S]
    BY <2>1, <2>2
  <2>4. new \in Seq(S)
    BY <1>2, <2>3, SeqDef
  <2>5. QED
    BY <1>2, <2>1, <2>4, LenProperties
<1>4. new \in Seq(ToSet(new))
  BY <1>3, SeqOfOwn
<1>5. ASSUME NEW i \in 1..Len(new)
      PROVE  IF i % 2 = 1 THEN \E m \in Turns : new[i] = Player(m)
             ELSE new[i].role = "assistant"
  <2>1. CASE i % 2 = 1
    <3>1. (i + 1) \div 2 \in 1..Len(turns)
      BY <1>1, <1>3, <1>2, <2>1
    <3>2. turns[(i + 1) \div 2] \in Turn
      BY <3>1
    <3>3. turns[(i + 1) \div 2].message \in Turns
      BY <3>2 DEF Turn
    <3>4. QED
      BY <1>1, <1>3, <2>1, <3>3
  <2>2. CASE i % 2 # 1
    BY <1>1, <1>3, <2>2 DEF Assistant, Entry
  <2>3. QED
    BY <2>1, <2>2
<1>6. Len(new) % 2 = 0
  BY <1>1, <1>3, <1>2
<1>7. Dialogue(new)
  BY <1>4, <1>5, <1>6 DEF Dialogue
<1>8. QED
  BY <1>3, <1>7, <1>2 DEF new

\* The last message is the last entry but one.
LEMMA LastPlayerIs ==
    ASSUME Dialogue(transcript), LastPlayer # 0
    PROVE  /\ Len(transcript) \in Nat /\ Len(transcript) >= 2
           /\ LastPlayer = Len(transcript) - 1
           /\ transcript[LastPlayer].text[1] \in Turns
           /\ transcript[LastPlayer] = Player(transcript[LastPlayer].text[1])
<1> DEFINE n == Len(transcript)
           I == {i \in 1..n : transcript[i].role = "player"}
<1>1. /\ n \in Nat /\ n % 2 = 0
      /\ \A i \in 1..n : IF i % 2 = 1 THEN \E m \in Turns : transcript[i] = Player(m)
                         ELSE transcript[i].role = "assistant"
  BY DEF Dialogue
<1>2. LastPlayer = IF I # {} THEN Max(I) ELSE 0
  BY DEF LastPlayer, SelectLastInSeq
<1>3. I # {} /\ LastPlayer = Max(I)
  BY <1>2
<1>4. n >= 2
  BY <1>1, <1>3
<1>5. (n - 1) \in 1..n /\ (n - 1) % 2 = 1
  BY <1>1, <1>4
<1>6. PICK m \in Turns : transcript[n - 1] = Player(m)
  BY <1>1, <1>5
<1>7. n - 1 \in I
  BY <1>5, <1>6 DEF Player, Entry
<1>8. ASSUME NEW i \in I  PROVE i <= n - 1
  <2>1. transcript[n].role = "assistant"
    BY <1>1, <1>4
  <2>2. i # n /\ i \in 1..n
    BY <2>1
  <2>3. QED
    BY <1>1, <2>2
<1>9. Max(I) = n - 1
  <2>1. I \subseteq Int
    BY <1>1
  <2>2. Max(I) \in I /\ \A i \in I : Max(I) >= i
    <3>1. \E x \in I : \A y \in I : x >= y
      BY <1>1, <1>7, <1>8, <2>1
    <3>2. QED
      BY <3>1 DEF Max
  <2>3. QED
    BY <1>1, <1>7, <1>8, <2>1, <2>2
<1>10. transcript[LastPlayer].text[1] = m
  BY <1>3, <1>6, <1>9 DEF Player, Entry
<1>11. QED
  BY <1>1, <1>3, <1>4, <1>6, <1>9, <1>10

-----------------------------------------------------------------------------
(* What most steps leave as it is *)

LEMMA PageUnchanged ==
    ASSUME ServerTypes, PageTypes, UNCHANGED <<bound, page>>,
           born' \in Nat, born <= born', added' \in Nat, added <= added'
    PROVE  PageTypes'
<1>1. UNCHANGED <<session, transcript, memories, facts, canonError>>
  BY DEF page
<1>2. Turns' = Turns /\ (Dialogue(transcript)' <=> Dialogue(transcript'))
  BY BoundSame, PrimedCalls
<1>3. session' \in 0..born' /\ 1..added \subseteq 1..added'
  BY <1>1, SessionThere DEF PageTypes
<1>4. QED
  BY <1>1, <1>2, <1>3 DEF PageTypes, IsABag, BagToSet

LEMMA OpUnchanged ==
    ASSUME OpTypes, UNCHANGED <<bound, born, session, op, asked>>,
           doubt' \in BOOLEAN, closed' \in BOOLEAN
    PROVE  OpTypes'
<1>1. Op' = Op /\ Turns' = Turns
  BY BoundSame
<1>2. QED
  BY <1>1 DEF OpTypes

LEMMA OpIdle ==
    ASSUME ServerTypes, OpTypes, bound' = bound, op' = Idle, asked' = asked,
           born' \in Nat, doubt' \in BOOLEAN, closed' \in BOOLEAN
    PROVE  OpTypes'
<1>1. Idle \in Op /\ Idle.pc = "idle" /\ Idle.session = 0
  BY BoundTypes DEF Idle, Op, ServerTypes
<1>2. Op' = Op
  BY BoundSame
<1>3. QED
  BY <1>1, <1>2 DEF OpTypes

LEMMA TasksFewer ==
    ASSUME ServerTypes, TaskTypes, bound' = bound, tasks' \subseteq tasks,
           born' \in Nat, born <= born', asked' = asked
    PROVE  TaskTypes'
<1>1. Task' = Task
  BY BoundSame
<1>2. \A t \in tasks' : t \in tasks /\ t.session \in Nat /\ t.session <= born /\ born \in Nat
  BY BoundTypes DEF TaskTypes, Task, Sessions, ServerTypes
<1>3. QED
  BY <1>1, <1>2 DEF TaskTypes

\* The operation may end, or go on needing the room it had.
LEMMA CallsUnchanged ==
    ASSUME CallTypes, UNCHANGED <<bound, calls, trusted, added>>,
           session' = session \/ (session = 0),
           op'.pc \in {"idle", "panels"} \/ op.pc \notin {"idle", "panels"}
    PROVE  CallTypes'
<1>1. PanelCalls' = PanelCalls /\ Turns' = Turns /\ Slots' = Slots
  BY BoundSame
<1>2. /\ FoundAdded(calls, added)' <=> FoundAdded(calls, added)
      /\ Flight(calls)' = Flight(calls)
      /\ Unserved(calls)' = Unserved(calls)
  BY PrimedCalls
<1>3. session' = 0 => session = 0
  OBVIOUS
<1>4. QED
  BY <1>1, <1>2, <1>3 DEF CallTypes

-----------------------------------------------------------------------------
(* Types: the panels *)

LEMMA RoomIs == RoomForPanel <=>
    Cardinality(Flight(calls)) + (IF op.pc \in {"idle", "panels"} THEN 0 ELSE 2) < bound.calls
BY InFlightIs DEF RoomForPanel

\* One more call is in flight.
LEMMA CallTypesIssued ==
    ASSUME ServerTypes, CallTypes, NEW s \in Slots, NEW kind \in CallKinds,
           NEW fact, fact <= added, session # 0,
           Issued(calls, calls', s, kind, fact),
           op.pc \in {"idle", "panels"} \/ Cardinality(Flight(calls)) + 3 <= bound.calls,
           kind = "add" => added + Cardinality(Unserved(calls)) < bound.facts,
           UNCHANGED <<bound, added, session, op, trusted>>
    PROVE  CallTypes'
<1>1. PanelCalls' = PanelCalls /\ Turns' = Turns /\ Slots' = Slots
  BY BoundSame
<1>2. /\ FoundAdded(calls, added)' <=> FoundAdded(calls', added)
      /\ Flight(calls)' = Flight(calls')
      /\ Unserved(calls)' = Unserved(calls')
  BY PrimedCalls
<1>3. added \in Nat /\ bound.facts \in Nat /\ bound.calls \in Nat
  BY BoundTypes DEF ServerTypes
<1>4. FoundAdded(calls', added)
  BY <1>3, IssueFoundAdded DEF CallTypes
<1>5. Cardinality(Flight(calls')) = Cardinality(Flight(calls)) + 1
  BY IssuedFlight DEF CallTypes, ServerTypes
<1>6. Cardinality(Flight(calls)) \in Nat
  <2>1. Flight(calls) \subseteq Slots
    BY DEF Flight
  <2>2. QED
    BY <2>1, SlotsFinite, FS_Subset, FS_CardinalityType DEF ServerTypes
<1>7. op'.pc \notin {"idle", "panels"} => Cardinality(Flight(calls')) + 2 <= bound.calls
  BY <1>3, <1>5, <1>6
<1>8. Cardinality(Unserved(calls')) = Cardinality(Unserved(calls)) + (IF kind = "add" THEN 1 ELSE 0)
  BY UnservedIssued DEF CallTypes, ServerTypes
<1>9. added + Cardinality(Unserved(calls')) <= bound.facts
  <2>1. Cardinality(Unserved(calls)) \in Nat
    BY UnservedFinite DEF ServerTypes
  <2>2. added + Cardinality(Unserved(calls)) <= bound.facts
    BY DEF CallTypes
  <2>3. CASE kind = "add"
    BY <1>3, <1>8, <2>1, <2>3
  <2>4. CASE kind # "add"
    BY <1>8, <2>1, <2>2, <2>4
  <2>5. QED
    BY <2>3, <2>4
<1>10. ASSUME NEW c \in Slots, calls'[c].kind = "memories"
       PROVE  calls'[c].found \subseteq Turns
  <2>1. CASE c = s
    BY <2>1 DEF Issued
  <2>2. CASE c # s
    <3>1. calls[c].kind = "memories" /\ calls'[c].found = calls[c].found
      BY <1>10, <2>2 DEF Issued, CallKinds
    <3>2. QED
      BY <3>1 DEF CallTypes
  <2>3. QED
    BY <2>1, <2>2
<1>11. calls' \in PanelCalls
  BY DEF Issued
<1>12. QED
  BY <1>1, <1>2, <1>4, <1>7, <1>9, <1>10, <1>11 DEF CallTypes

LEMMA ClickTypes ==
    ASSUME TypeInv,
           ClickRefresh \/ ClickAdd \/ \E fact \in 1..bound.facts : ClickDelete(fact)
    PROVE  TypeInv' /\ \E s \in Slots, kind \in CallKinds, fact \in 0..bound.facts :
                          /\ Issued(calls, calls', s, kind, fact) /\ fact <= added
                          /\ kind = "delete" => fact \in BagToSet(facts)
<1> USE DEF TypeInv
<1>1. /\ UNCHANGED <<server, tasks, page, op, stream, asked, doubt, trusted>>
      /\ session # 0 /\ RoomForPanel
  BY DEF ClickRefresh, ClickAdd, ClickDelete
<1>2. UNCHANGED <<bound, born, added, session, closed>>
  BY <1>1 DEF server, page, stream
<1>3. calls \in PanelCalls /\ bound.calls \in Nat /\ bound.facts \in Nat /\ added \in Nat
  BY BoundTypes DEF CallTypes, ServerTypes
<1>4. Cardinality(Flight(calls)) \in Nat
  <2>1. Flight(calls) \subseteq Slots
    BY DEF Flight
  <2>2. QED
    BY <2>1, SlotsFinite, FS_Subset, FS_CardinalityType DEF ServerTypes
<1>5. /\ Cardinality(Flight(calls)) < bound.calls
      /\ op.pc \in {"idle", "panels"} \/ Cardinality(Flight(calls)) + 3 <= bound.calls
  BY <1>1, <1>3, <1>4, RoomIs
<1>6. PICK kind \in CallKinds, fact \in 0..bound.facts :
          /\ calls' = Issue(calls, kind, fact, FALSE)
          /\ fact <= added
          /\ kind = "delete" => fact \in BagToSet(facts)
          /\ kind = "add" => added + Cardinality(Unserved(calls)) < bound.facts
  <2>1. 0 \in 0..bound.facts /\ 0 <= added
    BY <1>3
  <2>2. CASE ClickRefresh
    <3>1. calls' = Issue(calls, "memories", 0, FALSE)
      BY <2>2 DEF ClickRefresh, RefreshMemories
    <3>2. QED
      BY <2>1, <3>1 DEF CallKinds
  <2>3. CASE ClickAdd
    <3>1. {c \in Of({"add"}) : ~calls[c].served} = Unserved(calls)
      <4>1. \A c \in Slots : calls[c].kind = "add" => calls[c] # NoCall
        BY <1>3, KindOfCall DEF CallKinds
      <4>2. QED
        BY <4>1 DEF Of, InFlight, Unserved
    <3>2. /\ calls' = Issue(calls, "add", 0, FALSE)
          /\ added + Cardinality(Unserved(calls)) < bound.facts
      BY <2>3, <3>1 DEF ClickAdd
    <3>3. QED
      BY <2>1, <3>2 DEF CallKinds
  <2>4. ASSUME NEW fact \in 1..bound.facts, ClickDelete(fact)
        PROVE  /\ calls' = Issue(calls, "delete", fact, FALSE)
               /\ fact \in 0..bound.facts /\ fact <= added /\ fact \in BagToSet(facts)
    <3>1. fact \in BagToSet(facts) /\ calls' = Issue(calls, "delete", fact, FALSE)
      BY <2>4 DEF ClickDelete, BagIn
    <3>2. fact \in 1..added
      BY <3>1 DEF PageTypes
    <3>3. QED
      BY <1>3, <3>1, <3>2
  <2>5. QED
    BY <2>2, <2>3, <2>4 DEF CallKinds
<1>7. PICK s \in Slots : Issued(calls, calls', s, kind, fact)
  <2>1. \E s \in Slots : Issued(calls, Issue(calls, kind, fact, FALSE), s, kind, fact)
    BY <1>3, <1>5, IssueIssues DEF ServerTypes
  <2>2. QED
    BY <1>6, <2>1
<1>8. CallTypes'
  BY <1>1, <1>2, <1>5, <1>6, <1>7, CallTypesIssued
<1>9. PageTypes'
  BY <1>1, <1>2, <1>3, PageUnchanged, SessionThere
<1>10. OpTypes'
  BY <1>1, <1>2, OpUnchanged DEF OpTypes
<1>11. TaskTypes'
  BY <1>1, <1>2, TasksFewer, SessionThere
<1>12. ServerTypes'
  BY <1>1, ServerUnchanged
<1>13. QED
  BY <1>6, <1>7, <1>8, <1>9, <1>10, <1>11, <1>12

LEMMA ServeTypes ==
    ASSUME TypeInv, NEW c \in Slots, Serve(c)
    PROVE  TypeInv'
<1> USE DEF TypeInv
<1>1. UNCHANGED <<bound, born, history, kept, owed, tasks, page, op, stream, asked, doubt,
                trusted>>
  BY DEF Serve
<1>2. UNCHANGED <<session, closed>>
  BY <1>1 DEF page, stream
<1>3. /\ calls[c] # NoCall /\ calls[c].kind \in CallKinds /\ ~calls[c].served
      /\ session \in Sessions
  BY ServeAs
<1>4. PICK found \in SUBSET Nat : ServedAs(c, found)
  BY ServeAs
<1>5. /\ calls \in PanelCalls /\ bound.facts \in Nat /\ added \in Nat /\ born \in Nat
      /\ ~(session > born)
  BY BoundTypes, SessionThere DEF CallTypes, ServerTypes, PageTypes
<1>6. ServerTypes'
  BY <1>1, <1>3, <1>4, <1>5, ServerServe
<1>7. added' = added + (IF calls[c].kind = "add" THEN 1 ELSE 0)
  <2>1. ASSUME calls[c].kind = "memories" \/ calls[c].kind = "canon"  PROVE added' = added
    <3>1. CASE calls[c].kind = "memories"
      BY <1>4, <3>1 DEF ServedAs
    <3>2. CASE calls[c].kind = "canon"
      BY <1>4, <3>2 DEF ServedAs
    <3>3. QED
      BY <2>1, <3>1, <3>2
  <2>2. CASE calls[c].kind = "add"
    BY <1>4, <1>5, <2>2 DEF ServedAs
  <2>3. CASE calls[c].kind = "delete"
    BY <1>4, <1>5, <2>3 DEF ServedAs
  <2>4. added = added + 0
    BY <1>5
  <2>5. QED
    BY <1>3, <2>1, <2>2, <2>3, <2>4 DEF CallKinds
<1>8. added' \in Nat /\ added <= added'
  BY <1>5, <1>7
<1>9. PageTypes'
  BY <1>1, <1>5, <1>8, PageUnchanged
<1>10. OpTypes'
  BY <1>1, <1>2, OpUnchanged DEF OpTypes
<1>11. TaskTypes'
  BY <1>1, <1>5, TasksFewer
<1>12. CallTypes'
  <2>1. Served(calls, calls', c, found)
    BY <1>4 DEF ServedAs
  <2>2. PanelCalls' = PanelCalls /\ Turns' = Turns /\ Slots' = Slots
    BY <1>1, BoundSame
  <2>3. /\ FoundAdded(calls, added)' <=> FoundAdded(calls', added')
        /\ Flight(calls)' = Flight(calls')
        /\ Unserved(calls)' = Unserved(calls')
    BY <1>1, PrimedCalls
  <2>4. calls[c].kind = "memories" \/ found \subseteq 1..added'
    <3>1. canon[session] \subseteq 1..added
      BY <1>3 DEF ServerTypes
    <3>2. CASE calls[c].kind = "canon"
      BY <1>4, <3>1, <3>2 DEF ServedAs
    <3>3. CASE calls[c].kind = "add"
      BY <1>4, <1>5, <3>3 DEF ServedAs
    <3>4. CASE calls[c].kind = "delete"
      BY <1>4, <3>4 DEF ServedAs
    <3>5. QED
      BY <1>3, <3>2, <3>3, <3>4 DEF CallKinds
  <2>5. FoundAdded(calls', added')
    <3>1. \A n, m \in Nat :
             FoundAdded(calls, n) /\ n <= m
             /\ (calls[c].kind = "memories" \/ found \subseteq 1..m)
             => FoundAdded(calls', m)
      BY <1>3, <1>5, <2>1, ServeKeeps
    <3>2. FoundAdded(calls, added)
      BY DEF CallTypes
    <3>3. QED
      BY <1>5, <1>8, <2>4, <3>1, <3>2
  <2>6. Flight(calls') = Flight(calls)
    <3>1. calls' \in PanelCalls /\ \A d \in Slots : calls'[d].kind = calls[d].kind
      BY <2>1 DEF Served
    <3>2. \A d \in Slots : calls'[d] # NoCall <=> calls[d] # NoCall
      BY <1>5, <3>1, KindOfCall
    <3>3. QED
      BY <3>2 DEF Flight
  <2>7. Cardinality(Unserved(calls))
          = Cardinality(Unserved(calls')) + (IF calls[c].kind = "add" THEN 1 ELSE 0)
    BY <1>3, <1>5, <2>1, UnservedServed DEF ServerTypes
  <2>9. added' + Cardinality(Unserved(calls')) <= bound.facts
    <3>1. added + Cardinality(Unserved(calls)) <= bound.facts
      BY DEF CallTypes
    <3>2. Cardinality(Unserved(calls)) \in Nat /\ Cardinality(Unserved(calls')) \in Nat
      BY UnservedFinite DEF ServerTypes
    <3>3. QED
      BY <1>5, <1>7, <2>7, <3>1, <3>2
  <2>10. ASSUME NEW d \in Slots, calls'[d].kind = "memories"
         PROVE  calls'[d].found \subseteq Turns
    <3>1. CASE d = c
      <4>1. found = kept[session]
        BY <1>4, <2>1, <2>10, <3>1 DEF ServedAs, Served
      <4>2. kept[session] \subseteq Turns
        BY <1>3 DEF ServerTypes
      <4>3. QED
        BY <2>1, <3>1, <4>1, <4>2 DEF Served
    <3>2. CASE d # c
      BY <2>1, <2>10, <3>2 DEF Served, CallTypes
    <3>3. QED
      BY <3>1, <3>2
  <2>11. calls' \in PanelCalls
    BY <2>1 DEF Served
  <2>12. session' = 0 => FALSE
    BY <1>2, <1>3, BoundTypes DEF Sessions, ServerTypes
  <2>13. QED
    BY <1>1, <2>2, <2>3, <2>5, <2>6, <2>9, <2>10, <2>11, <2>12 DEF CallTypes
<1>13. QED
  BY <1>6, <1>9, <1>10, <1>11, <1>12

LEMMA SettledTypes ==
    ASSUME TypeInv, NEW c \in Slots, calls[c] # NoCall, Settled(c),
           UNCHANGED <<bound, born, added, session, asked, doubt, closed>>,
           trusted' \subseteq {"memories", "canon"}
    PROVE  OpTypes' /\ CallTypes' /\ Removed(calls, calls', c)
<1> USE DEF TypeInv
<1>1. calls \in PanelCalls
  BY DEF CallTypes
<1>2. Removed(calls, calls', c)
  BY <1>1, RemoveRemoves DEF Settled
<1>3. OpTypes'
  <2>1. doubt' \in BOOLEAN /\ closed' \in BOOLEAN /\ born' \in Nat
    BY SessionThere DEF OpTypes
  <2>2. CASE op' = Idle
    BY <2>1, <2>2, OpIdle
  <2>3. CASE op' = op
    BY <2>1, <2>3, OpUnchanged
  <2>4. QED
    BY <2>2, <2>3 DEF Settled
<1>4. CallTypes'
  <2>1. PanelCalls' = PanelCalls /\ Turns' = Turns /\ Slots' = Slots
    BY BoundSame
  <2>2. /\ FoundAdded(calls, added)' <=> FoundAdded(calls', added)
        /\ Flight(calls)' = Flight(calls')
        /\ Unserved(calls)' = Unserved(calls')
    BY PrimedCalls
  <2>3. FoundAdded(calls', added) /\ calls' \in PanelCalls
    BY <1>1, <1>2, RemoveKeeps DEF CallTypes, Removed
  <2>4. /\ Cardinality(Flight(calls')) \in Nat /\ Cardinality(Flight(calls)) \in Nat
        /\ Cardinality(Flight(calls')) <= Cardinality(Flight(calls))
    BY <1>1, <1>2, RemovedFlight DEF ServerTypes
  <2>5. /\ Cardinality(Unserved(calls')) \in Nat /\ Cardinality(Unserved(calls)) \in Nat
        /\ Cardinality(Unserved(calls')) <= Cardinality(Unserved(calls))
    BY <1>1, <1>2, UnservedFinite, UnservedRemoved DEF ServerTypes
  <2>6. bound.calls \in Nat /\ bound.facts \in Nat /\ added \in Nat
    BY BoundTypes DEF ServerTypes
  <2>7. session # 0
    BY SessionThere
  <2>8. ASSUME op'.pc \notin {"idle", "panels"}
        PROVE  Cardinality(Flight(calls')) + 2 <= bound.calls
    <3>1. op' = op
      BY <2>8 DEF Settled, Idle
    <3>2. Cardinality(Flight(calls)) + 2 <= bound.calls
      BY <2>8, <3>1 DEF CallTypes
    <3>3. QED
      BY <2>4, <2>6, <3>2
  <2>9. added + Cardinality(Unserved(calls')) <= bound.facts
    <3>1. added + Cardinality(Unserved(calls)) <= bound.facts
      BY DEF CallTypes
    <3>2. QED
      BY <2>5, <2>6, <3>1
  <2>10. \A d \in Slots : calls'[d].kind = "memories" => calls'[d].found \subseteq Turns
    BY <1>2 DEF Removed, CallTypes
  <2>11. QED
    BY <2>1, <2>2, <2>3, <2>7, <2>8, <2>9, <2>10 DEF CallTypes
<1>5. QED
  BY <1>2, <1>3, <1>4

\* What answering a call does to the list.
LEMMA FactsTyped ==
    ASSUME TypeInv, NEW c \in Slots, calls[c].kind \in CanonKinds
    PROVE  /\ IsABag(FactsAnswered(calls[c]))
           /\ BagToSet(FactsAnswered(calls[c])) \subseteq 1..added
<1> DEFINE call == calls[c]
           found == call.found
<1>1. found \subseteq 1..added
  BY DEF TypeInv, CallTypes, FoundAdded
<1>2. IsABag(facts) /\ BagToSet(facts) \subseteq 1..added
  BY DEF TypeInv, PageTypes
<1>3. facts \in [DOMAIN facts -> {n \in Nat : n > 0}]
  BY <1>2 DEF IsABag
<1> HIDE DEF found
<1>4. CASE call.kind = "canon"
  <2>1. FactsAnswered(call) = [e \in found |-> 1]
    BY <1>4 DEF FactsAnswered, SetToBag, found
  <2>2. [e \in found |-> 1] \in [found -> {n \in Nat : n > 0}]
    OBVIOUS
  <2>3. QED
    BY <1>1, <2>1, <2>2 DEF IsABag, BagToSet
<1>5. CASE call.kind = "add"
  <2> DEFINE all == DOMAIN facts \cup found
             many(e) == (IF e \in DOMAIN facts THEN facts[e] ELSE 0)
                        + (IF e \in found THEN 1 ELSE 0)
  <2>1. FactsAnswered(call) = [e \in all |-> many(e)]
    BY <1>5 DEF FactsAnswered, SetToBag, (+), found
  <2>2. ASSUME NEW e \in all  PROVE many(e) \in {n \in Nat : n > 0}
    <3>1. e \in DOMAIN facts => facts[e] \in Nat /\ facts[e] > 0
      BY <1>3
    <3>2. QED
      BY <3>1
  <2> HIDE DEF many
  <2>3. [e \in all |-> many(e)] \in [all -> {n \in Nat : n > 0}]
    BY <2>2
  <2>4. all \subseteq 1..added
    BY <1>1, <1>2 DEF BagToSet
  <2>5. QED
    BY <2>1, <2>3, <2>4 DEF IsABag, BagToSet
<1>6. CASE call.kind = "delete"
  <2> DEFINE rest == DOMAIN facts \ {call.fact}
  <2>1. FactsAnswered(call) = [e \in rest |-> facts[e]]
    BY <1>6 DEF FactsAnswered, Restrict, BagToSet
  <2>2. [e \in rest |-> facts[e]] \in [rest -> {n \in Nat : n > 0}]
    BY <1>3
  <2>3. rest \subseteq 1..added
    BY <1>2 DEF BagToSet
  <2>4. QED
    BY <2>1, <2>2, <2>3 DEF IsABag, BagToSet
<1>7. QED
  BY <1>4, <1>5, <1>6 DEF CanonKinds

LEMMA AnswerTypes ==
    ASSUME TypeInv, NEW c \in Slots, Answer(c)
    PROVE  TypeInv' /\ Removed(calls, calls', c)
<1> USE DEF TypeInv
<1>1. /\ UNCHANGED <<server, tasks, session, transcript, stream, asked, doubt>>
      /\ Settled(c) /\ calls[c] # NoCall
  BY DEF Answer, InFlight
<1>2. UNCHANGED <<bound, born, added, closed>>
  BY <1>1 DEF server, stream
<1>3. calls[c].kind \in CallKinds
  BY <1>1, KindOfCall DEF CallTypes
<1>4. trusted' \subseteq {"memories", "canon"}
  BY DEF Answer, Lists, CallTypes
<1>5. OpTypes' /\ CallTypes' /\ Removed(calls, calls', c)
  BY <1>1, <1>2, <1>4, SettledTypes
<1>6. ServerTypes'
  BY <1>1, ServerUnchanged
<1>7. TaskTypes'
  BY <1>1, <1>2, TasksFewer, SessionThere
<1>8. PageTypes'
  <2>1. memories' \subseteq Turns
    <3>1. CASE calls[c].kind = "memories"
      BY <3>1 DEF Answer, CallTypes
    <3>2. CASE calls[c].kind # "memories"
      BY <3>2 DEF Answer, PageTypes
    <3>3. QED
      BY <3>1, <3>2
  <2>2. IsABag(facts') /\ BagToSet(facts') \subseteq 1..added /\ canonError' \in BOOLEAN
    <3>1. CASE calls[c].kind = "memories"
      <4>1. facts' = facts /\ canonError' = canonError
        BY <3>1 DEF Answer
      <4>2. QED
        BY <4>1 DEF PageTypes
    <3>2. CASE calls[c].kind # "memories"
      <4>1. facts' = FactsAnswered(calls[c]) /\ canonError' = FALSE
        BY <3>2 DEF Answer
      <4>2. calls[c].kind \in CanonKinds
        BY <1>3, <3>2 DEF CallKinds, CanonKinds
      <4>3. QED
        BY <4>1, <4>2, FactsTyped
    <3>3. QED
      BY <3>1, <3>2
  <2>3. Turns' = Turns /\ (Dialogue(transcript)' <=> Dialogue(transcript))
    BY <1>1, <1>2, BoundSame, PrimedCalls
  <2>4. IsABag(facts)' <=> IsABag(facts')
    BY DEF IsABag
  <2>5. QED
    BY <1>1, <1>2, <2>1, <2>2, <2>3, <2>4 DEF PageTypes, BagToSet
<1>9. QED
  BY <1>5, <1>6, <1>7, <1>8

LEMMA FailsTypes ==
    ASSUME TypeInv, NEW c \in Slots, CallFails(c)
    PROVE  TypeInv' /\ Removed(calls, calls', c)
<1> USE DEF TypeInv
<1>1. /\ UNCHANGED <<server, tasks, session, transcript, memories, facts, stream, asked, doubt>>
      /\ Settled(c) /\ calls[c] # NoCall
      /\ canonError' = (canonError \/ calls[c].kind # "memories")
  BY DEF CallFails, InFlight
<1>2. UNCHANGED <<bound, born, added, closed>>
  BY <1>1 DEF server, stream
<1>3. trusted' \subseteq {"memories", "canon"}
  BY DEF CallFails, CallTypes
<1>4. OpTypes' /\ CallTypes' /\ Removed(calls, calls', c)
  BY <1>1, <1>2, <1>3, SettledTypes
<1>5. ServerTypes'
  BY <1>1, ServerUnchanged
<1>6. TaskTypes'
  BY <1>1, <1>2, TasksFewer, SessionThere
<1>7. PageTypes'
  <2>1. Turns' = Turns /\ (Dialogue(transcript)' <=> Dialogue(transcript))
    BY <1>1, <1>2, BoundSame, PrimedCalls
  <2>2. IsABag(facts)' <=> IsABag(facts)
    BY <1>1 DEF IsABag
  <2>3. QED
    BY <1>1, <1>2, <2>1, <2>2 DEF PageTypes, BagToSet
<1>8. QED
  BY <1>4, <1>5, <1>6, <1>7

-----------------------------------------------------------------------------
(* Types: create and resume *)

\* The calls are typed apart from the room an operation needs.
CallsFine(f) ==
    /\ f \in PanelCalls
    /\ FoundAdded(f, added)
    /\ \A c \in Slots : f[c].kind = "memories" => f[c].found \subseteq Turns
    /\ added + Cardinality(Unserved(f)) <= bound.facts

LEMMA IssueFine ==
    ASSUME ServerTypes, NEW f, CallsFine(f), NEW kind \in {"memories", "canon"},
           NEW awaited \in BOOLEAN, Cardinality(Flight(f)) < bound.calls,
           NEW g, g = Issue(f, kind, 0, awaited)
    PROVE  /\ CallsFine(g)
           /\ Cardinality(Flight(g)) = Cardinality(Flight(f)) + 1
           /\ \E s \in Slots : Issued(f, g, s, kind, 0)
<1>1. /\ f \in PanelCalls /\ kind \in CallKinds /\ added \in Nat
      /\ bound.facts \in Nat /\ 0 \in 0..bound.facts
  BY BoundTypes DEF CallsFine, CallKinds, ServerTypes
<1>2. PICK s \in Slots : Issued(f, g, s, kind, 0)
  BY <1>1, IssueIssues DEF ServerTypes
<1>3. FoundAdded(g, added)
  BY <1>1, <1>2, IssueFoundAdded DEF CallsFine
<1>4. Cardinality(Unserved(g)) = Cardinality(Unserved(f))
  <2>1. Cardinality(Unserved(g)) = Cardinality(Unserved(f)) + (IF kind = "add" THEN 1 ELSE 0)
    BY <1>1, <1>2, UnservedIssued DEF ServerTypes
  <2>2. Cardinality(Unserved(f)) \in Nat /\ kind # "add"
    BY UnservedFinite DEF ServerTypes
  <2>3. QED
    BY <2>1, <2>2
<1>5. ASSUME NEW c \in Slots, g[c].kind = "memories"
      PROVE  g[c].found \subseteq Turns
  <2>1. CASE c = s
    BY <1>2, <2>1 DEF Issued
  <2>2. CASE c # s
    <3>1. f[c].kind = "memories" /\ g[c].found = f[c].found
      BY <1>2, <1>5, <2>2 DEF Issued, CallKinds
    <3>2. QED
      BY <3>1 DEF CallsFine
  <2>3. QED
    BY <2>1, <2>2
<1>6. g \in PanelCalls
  BY <1>2 DEF Issued
<1>7. Cardinality(Flight(g)) = Cardinality(Flight(f)) + 1
  BY <1>1, <1>2, IssuedFlight DEF ServerTypes
<1>8. CallsFine(g)
  BY <1>3, <1>4, <1>5, <1>6 DEF CallsFine
<1>9. QED
  BY <1>2, <1>7, <1>8

\* The two calls that end a create or a resume.
LEMMA LoadPanelsFine ==
    ASSUME ServerTypes, CallTypes, op.pc \notin {"idle", "panels"}
    PROVE  /\ CallsFine(LoadPanels)
           /\ \E g \in PanelCalls, s, r \in Slots :
                /\ Issued(calls, g, s, "memories", 0)
                /\ Issued(g, LoadPanels, r, "canon", 0)
<1> DEFINE g == RefreshMemories(calls, TRUE)
<1>1. CallsFine(calls)
  BY DEF CallTypes, CallsFine
<1>2. Cardinality(Flight(calls)) + 2 <= bound.calls /\ bound.calls \in Nat
  BY BoundTypes DEF CallTypes, ServerTypes
<1>3. Cardinality(Flight(calls)) \in Nat
  <2>1. Flight(calls) \subseteq Slots
    BY DEF Flight
  <2>2. QED
    BY <2>1, SlotsFinite, FS_Subset, FS_CardinalityType DEF ServerTypes
<1>4. Cardinality(Flight(calls)) < bound.calls
  BY <1>2, <1>3
<1>5. g = Issue(calls, "memories", 0, TRUE) /\ LoadPanels = Issue(g, "canon", 0, TRUE)
  BY DEF LoadPanels, RefreshMemories
<1> HIDE DEF g
<1>6. /\ CallsFine(g) /\ Cardinality(Flight(g)) = Cardinality(Flight(calls)) + 1
      /\ \E s \in Slots : Issued(calls, g, s, "memories", 0)
  BY <1>1, <1>4, <1>5, IssueFine
<1>7. Cardinality(Flight(g)) < bound.calls
  BY <1>2, <1>3, <1>6
<1>8. CallsFine(LoadPanels) /\ \E r \in Slots : Issued(g, LoadPanels, r, "canon", 0)
  BY <1>5, <1>6, <1>7, IssueFine
<1>9. g \in PanelCalls
  BY <1>6 DEF CallsFine
<1>10. QED
  BY <1>6, <1>8, <1>9

LEMMA CallTypesFine ==
    ASSUME CallTypes, CallsFine(calls'), UNCHANGED <<bound, added, trusted>>,
           session' # 0, op'.pc \in {"idle", "panels"}
    PROVE  CallTypes'
<1>1. PanelCalls' = PanelCalls /\ Turns' = Turns /\ Slots' = Slots
  BY BoundSame
<1>2. /\ FoundAdded(calls, added)' <=> FoundAdded(calls', added)
      /\ Unserved(calls)' = Unserved(calls')
  BY PrimedCalls
<1>3. QED
  BY <1>1, <1>2 DEF CallTypes, CallsFine

LEMMA StartTypes ==
    ASSUME TypeInv, Create \/ \E s \in 1..born : Resume(s)
    PROVE  TypeInv'
<1> USE DEF TypeInv
<1>1. /\ UNCHANGED <<server, tasks, page, stream, calls, asked, doubt, trusted>>
      /\ RoomToStart /\ session = 0
  BY DEF Create, Resume, Start
<1>2. UNCHANGED <<bound, born, added, session, closed>>
  BY <1>1 DEF server, page, stream
<1>3. /\ op' \in Op /\ op'.session \in 0..born
      /\ op'.pc \in {"create", "get"}
      /\ op'.pc = "create" => born < bound.sessions
      /\ op'.pc = "get" => op'.session # 0
  <2>1. bound.sessions \in Nat /\ bound.turns \in Nat /\ born \in 0..bound.sessions
    BY BoundTypes DEF ServerTypes
  <2>2. ASSUME Create
        PROVE  op' \in Op /\ op'.pc = "create" /\ op'.session = 0 /\ born < bound.sessions
    <3>1. op' = [Idle EXCEPT !.pc = "create"] /\ born < bound.sessions
      BY <2>2 DEF Create, Start
    <3>2. op' = [pc |-> "create", session |-> 0, message |-> 0, n |-> 0,
                 again |-> FALSE, saved |-> TRUE]
      BY <3>1 DEF Idle
    <3>3. 0 \in 0..bound.sessions /\ 0 \in 0..bound.turns
      BY <2>1
    <3>4. op' \in Op
      BY <3>2, <3>3 DEF Op
    <3>5. op'.pc = "create" /\ op'.session = 0
      BY <3>2
    <3>6. QED
      BY <3>1, <3>4, <3>5
  <2>3. ASSUME NEW s \in 1..born, Resume(s)
        PROVE  op' \in Op /\ op'.pc = "get" /\ op'.session \in 0..born /\ op'.session # 0
    <3>1. s \in 0..bound.sessions /\ s \in 0..born /\ s # 0
      BY <2>1
    <3>2. op' = [Idle EXCEPT !.pc = "get", !.session = s]
      BY <2>3 DEF Resume, Start
    <3>3. op' = [pc |-> "get", session |-> s, message |-> 0, n |-> 0,
                 again |-> FALSE, saved |-> TRUE]
      BY <3>2 DEF Idle
    <3>4. 0 \in 0..bound.turns
      BY <2>1
    <3>5. QED
      BY <3>1, <3>3, <3>4 DEF Op
  <2>4. 0 \in 0..born
    BY <2>1
  <2>5. QED
    BY <2>2, <2>3, <2>4
<1>4. OpTypes'
  BY <1>1, <1>2, <1>3, BoundSame DEF OpTypes
<1>5. CallTypes'
  <2>1. PanelCalls' = PanelCalls /\ Turns' = Turns /\ Slots' = Slots
    BY <1>2, BoundSame
  <2>2. /\ FoundAdded(calls, added)' <=> FoundAdded(calls, added)
        /\ Flight(calls)' = Flight(calls)
        /\ Unserved(calls)' = Unserved(calls)
    BY <1>1, <1>2, PrimedCalls
  <2>3. Cardinality(Flight(calls)) + 2 <= bound.calls
    BY <1>1, InFlightIs DEF RoomToStart
  <2>4. QED
    BY <1>1, <1>2, <2>1, <2>2, <2>3 DEF CallTypes
<1>6. ServerTypes'
  BY <1>1, ServerUnchanged
<1>7. PageTypes'
  BY <1>1, <1>2, PageUnchanged, SessionThere
<1>8. TaskTypes'
  BY <1>1, <1>2, TasksFewer, SessionThere
<1>9. QED
  BY <1>4, <1>5, <1>6, <1>7, <1>8

LEMMA OpMoves ==
    ASSUME op \in Op, NEW pc \in {"details", "panels"}, NEW o, o = [op EXCEPT !.pc = pc]
    PROVE  o \in Op /\ o.pc = pc /\ o.session = op.session
BY DEF Op

LEMMA CreatedTypes ==
    ASSUME TypeInv, CreateAnswered
    PROVE  TypeInv'
<1> USE DEF TypeInv
<1>1. /\ op.pc = "create" /\ born' = born + 1 /\ session' = born + 1
      /\ transcript' = <<>> /\ memories' = {} /\ doubt' = FALSE
      /\ op' = [op EXCEPT !.pc = "panels"] /\ calls' = LoadPanels
      /\ UNCHANGED <<bound, history, kept, owed, canon, added, tasks, facts, canonError, stream,
                     asked, trusted>>
  BY DEF CreateAnswered
<1>2. UNCHANGED <<wire, closed>>
  BY <1>1 DEF stream
<1>3. born \in Nat /\ bound.sessions \in Nat /\ born < bound.sessions
  BY <1>1, BoundTypes, SessionThere DEF ServerTypes, OpTypes
<1>4. ServerTypes'
  <2>1. born + 1 \in born..bound.sessions
    BY <1>3
  <2>2. QED
    BY <1>1, <2>1, ServerBorn
<1>5. PageTypes'
  <2>1. Turns' = Turns /\ (Dialogue(transcript)' <=> Dialogue(transcript'))
    BY <1>1, BoundSame, PrimedCalls
  <2>2. Dialogue(<<>>)
    BY NoDialogue
  <2>3. IsABag(facts)' <=> IsABag(facts)
    BY <1>1 DEF IsABag
  <2>4. session' \in 0..born'
    BY <1>1, <1>3
  <2>5. QED
    BY <1>1, <2>1, <2>2, <2>3, <2>4 DEF PageTypes, BagToSet
<1>6. OpTypes'
  <2>1. op' \in Op /\ op'.pc = "panels" /\ op'.session = op.session
    BY <1>1, OpMoves DEF OpTypes
  <2>2. Op' = Op
    BY <1>1, BoundSame
  <2>3. op.session \in 0..born' /\ session' # 0
    BY <1>1, <1>3 DEF OpTypes
  <2>4. QED
    BY <1>1, <1>2, <2>1, <2>2, <2>3 DEF OpTypes
<1>7. TaskTypes'
  BY <1>1, <1>3, TasksFewer
<1>8. CallTypes'
  <2>1. CallsFine(calls')
    BY <1>1, LoadPanelsFine
  <2>2. op'.pc = "panels" /\ session' # 0
    BY <1>1, <1>3, OpMoves DEF OpTypes
  <2>3. QED
    BY <1>1, <2>1, <2>2, CallTypesFine
<1>9. QED
  BY <1>4, <1>5, <1>6, <1>7, <1>8

LEMMA GotTypes ==
    ASSUME TypeInv, GetAnswered
    PROVE  TypeInv'
<1> USE DEF TypeInv
<1>1. /\ op.pc = "get" /\ session' = op.session /\ doubt' = TRUE
      /\ op' = [op EXCEPT !.pc = "details"]
      /\ UNCHANGED <<server, tasks, transcript, memories, facts, canonError, stream, calls,
                     asked, trusted>>
  BY DEF GetAnswered
<1>2. UNCHANGED <<bound, born, added, closed>>
  BY <1>1 DEF server, stream
<1>3. op.session \in 0..born /\ op.session # 0 /\ session = 0
  BY <1>1 DEF OpTypes
<1>4. ServerTypes'
  BY <1>1, ServerUnchanged
<1>5. PageTypes'
  <2>1. Turns' = Turns /\ (Dialogue(transcript)' <=> Dialogue(transcript))
    BY <1>1, <1>2, BoundSame, PrimedCalls
  <2>2. IsABag(facts)' <=> IsABag(facts)
    BY <1>1 DEF IsABag
  <2>3. QED
    BY <1>1, <1>2, <1>3, <2>1, <2>2 DEF PageTypes, BagToSet
<1>6. op' \in Op /\ op'.pc = "details" /\ op'.session = op.session
  BY <1>1, OpMoves DEF OpTypes
<1>7. OpTypes'
  <2>1. Op' = Op
    BY <1>2, BoundSame
  <2>2. QED
    BY <1>1, <1>2, <1>3, <1>6, <2>1 DEF OpTypes
<1>8. TaskTypes'
  BY <1>1, <1>2, TasksFewer, SessionThere
<1>9. CallTypes'
  <2>1. op.pc \notin {"idle", "panels"}
    BY <1>1
  <2>2. QED
    BY <1>1, <1>2, <1>3, <2>1, CallsUnchanged
<1>10. QED
  BY <1>4, <1>5, <1>7, <1>8, <1>9

LEMMA DetailsTypes ==
    ASSUME TypeInv, DetailsAnswered
    PROVE  TypeInv'
<1> USE DEF TypeInv
<1>1. /\ op.pc = "details"
      /\ transcript' = FullTranscript(history[session])
      /\ doubt' \in BOOLEAN
      /\ op' = [op EXCEPT !.pc = "panels"] /\ calls' = LoadPanels
      /\ UNCHANGED <<server, tasks, session, memories, facts, canonError, stream, asked,
                     trusted>>
  BY DEF DetailsAnswered, SessionTurnDetails
<1>2. UNCHANGED <<bound, born, added, closed>>
  BY <1>1 DEF server, stream
<1>3. session # 0 /\ session \in Sessions
  BY <1>1, SessionThere DEF OpTypes
<1>4. ServerTypes'
  BY <1>1, ServerUnchanged
<1>5. PageTypes'
  <2>1. Turns' = Turns /\ (Dialogue(transcript)' <=> Dialogue(transcript'))
    BY <1>1, <1>2, BoundSame, PrimedCalls
  <2>2. history[session] \in Seq(Turn)
    BY <1>3 DEF ServerTypes
  <2>3. Dialogue(transcript')
    BY <1>1, <2>2, DialogueOfTurns DEF ServerTypes
  <2>4. IsABag(facts)' <=> IsABag(facts)
    BY <1>1 DEF IsABag
  <2>5. QED
    BY <1>1, <1>2, <2>1, <2>3, <2>4 DEF PageTypes, BagToSet
<1>6. op' \in Op /\ op'.pc = "panels" /\ op'.session = op.session
  BY <1>1, OpMoves DEF OpTypes
<1>7. OpTypes'
  <2>1. Op' = Op
    BY <1>2, BoundSame
  <2>2. QED
    BY <1>1, <1>2, <1>3, <1>6, <2>1 DEF OpTypes
<1>8. TaskTypes'
  BY <1>1, <1>2, TasksFewer, SessionThere
<1>9. CallTypes'
  <2>1. CallsFine(calls')
    BY <1>1, LoadPanelsFine
  <2>2. QED
    BY <1>1, <1>2, <1>3, <1>6, <2>1, CallTypesFine
<1>10. QED
  BY <1>4, <1>5, <1>7, <1>8, <1>9

LEMMA RequestFailsTypes ==
    ASSUME TypeInv, RequestFails
    PROVE  TypeInv'
<1> USE DEF TypeInv
<1>1. /\ op.pc \in {"create", "get", "details"} /\ op' = Idle
      /\ born' \in IF op.pc = "create" THEN {born, born + 1} ELSE {born}
      /\ UNCHANGED <<bound, history, kept, owed, canon, added, tasks, page, stream, calls, asked,
                     doubt, trusted>>
  BY DEF RequestFails
<1>2. UNCHANGED <<session, closed>>
  BY <1>1 DEF page, stream
<1>3. born \in Nat /\ bound.sessions \in Nat /\ born <= bound.sessions
      /\ (op.pc = "create" => born < bound.sessions)
  BY BoundTypes, SessionThere DEF ServerTypes, OpTypes
<1>4. born' \in born..bound.sessions /\ born' \in Nat /\ born <= born'
  BY <1>1, <1>3
<1>5. ServerTypes'
  BY <1>1, <1>4, ServerBorn
<1>6. PageTypes'
  BY <1>1, <1>4, PageUnchanged, SessionThere
<1>7. OpTypes'
  BY <1>1, <1>2, <1>4, OpIdle DEF OpTypes
<1>8. TaskTypes'
  BY <1>1, <1>4, TasksFewer
<1>9. CallTypes'
  <2>1. op'.pc = "idle"
    BY <1>1 DEF Idle
  <2>2. QED
    BY <1>1, <1>2, <2>1, CallsUnchanged
<1>10. QED
  BY <1>5, <1>6, <1>7, <1>8, <1>9

-----------------------------------------------------------------------------
(* Types: turns and rerolls *)

\* An operation starts that has the room its calls will need.
LEMMA CallsStart ==
    ASSUME CallTypes, UNCHANGED <<bound, calls, trusted, added, session>>, RoomToStart
    PROVE  CallTypes'
<1>1. PanelCalls' = PanelCalls /\ Turns' = Turns /\ Slots' = Slots
  BY BoundSame
<1>2. /\ FoundAdded(calls, added)' <=> FoundAdded(calls, added)
      /\ Flight(calls)' = Flight(calls)
      /\ Unserved(calls)' = Unserved(calls)
  BY PrimedCalls
<1>3. Cardinality(Flight(calls)) + 2 <= bound.calls
  BY InFlightIs DEF RoomToStart
<1>4. QED
  BY <1>1, <1>2, <1>3 DEF CallTypes

LEMMA TaskAdded ==
    ASSUME TypeInv, session # 0, asked < bound.turns, NEW kind \in {"turn", "delete"},
           NEW message \in Turns, tasks' = tasks \cup {NewTask(kind, asked + 1, message)},
           asked' = asked + 1, UNCHANGED <<bound, born>>
    PROVE  TaskTypes'
<1> USE DEF TypeInv
<1> DEFINE new == NewTask(kind, asked + 1, message)
<1>1. /\ bound.turns \in Nat /\ asked \in Nat /\ asked + 1 \in Turns /\ session \in Sessions
      /\ session <= born /\ born \in Nat
  <2>1. bound.turns \in Nat /\ bound.sessions \in Nat
    BY BoundTypes DEF ServerTypes
  <2>2. asked \in 0..bound.turns /\ session \in 0..born /\ born \in 0..bound.sessions
    BY DEF ServerTypes, OpTypes, PageTypes
  <2>3. session \in Sessions
    BY <2>1, <2>2 DEF Sessions
  <2>4. asked + 1 \in Turns
    BY <2>1, <2>2 DEF Turns
  <2>5. QED
    BY <2>1, <2>2, <2>3, <2>4
<1>2. new \in Task /\ new.session = session /\ new.n = asked + 1
  BY <1>1 DEF NewTask, Task
<1>3. \A t \in tasks : t \in Task /\ t.session <= born /\ t.n <= asked
  BY DEF TaskTypes
<1>4. \A t \in tasks : t.n \in Nat
  BY <1>3, BoundTypes DEF Task, Turns, ServerTypes
<1>5. \A t \in tasks : t.n # asked + 1 /\ t.n <= asked + 1
  BY <1>1, <1>3, <1>4
<1>6. Task' = Task
  BY BoundSame
<1> HIDE DEF new
<1>7. tasks' \subseteq Task
  BY <1>2, <1>3 DEF new
<1>8. \A t \in tasks' : t \in tasks \/ t = new
  BY DEF new
<1>9. \A t \in tasks' : t.session <= born /\ t.n <= asked + 1
  BY <1>1, <1>2, <1>3, <1>5, <1>8
<1>10. ASSUME NEW t \in tasks', NEW u \in tasks', t.n = u.n  PROVE t = u
  BY <1>2, <1>5, <1>8, <1>10 DEF TaskTypes
<1>11. QED
  BY <1>6, <1>7, <1>9, <1>10 DEF TaskTypes

LEMMA IdleTyped ==
    ASSUME ServerTypes
    PROVE  Idle \in Op /\ Idle.pc = "idle" /\ Idle.session = 0 /\ Idle.again = FALSE
BY BoundTypes DEF Idle, Op, ServerTypes

LEMMA SendTypes ==
    ASSUME TypeInv, Send
    PROVE  TypeInv'
<1> USE DEF TypeInv
<1>1. /\ ~Busy /\ RoomToStart /\ session # 0 /\ asked < bound.turns
      /\ asked' = asked + 1
      /\ op' = [Idle EXCEPT !.pc = "turn", !.message = asked + 1, !.n = asked + 1,
                            !.again = FALSE]
      /\ tasks' = tasks \cup {NewTask("turn", asked + 1, asked + 1)}
      /\ UNCHANGED <<server, page, stream, calls, doubt, trusted>>
  BY DEF Send, RunTurn
<1>2. UNCHANGED <<bound, born, added, session, closed>>
  BY <1>1 DEF server, page, stream
<1>3. /\ asked \in Nat /\ bound.turns \in Nat /\ born \in Nat /\ added \in Nat
      /\ asked + 1 \in Turns
  BY <1>1, BoundTypes, SessionThere DEF ServerTypes, OpTypes, Turns
<1>4. ServerTypes'
  BY <1>1, ServerUnchanged
<1>5. PageTypes'
  BY <1>1, <1>2, <1>3, PageUnchanged
<1>6. op' \in Op /\ op'.pc = "turn" /\ op'.session = 0 /\ op'.message = asked + 1
      /\ op'.n = asked + 1
  <2>1. /\ Idle \in Op /\ Idle.session = 0
        /\ asked + 1 \in 0..bound.turns
    BY <1>3, IdleTyped DEF Turns
  <2> DEFINE o == op'
  <2>2. o = [Idle EXCEPT !.pc = "turn", !.message = asked + 1, !.n = asked + 1,
                         !.again = FALSE]
    BY <1>1
  <2> HIDE DEF o
  <2>3. /\ o \in Op /\ o.pc = "turn" /\ o.session = 0
        /\ o.message = asked + 1 /\ o.n = asked + 1
    BY <2>1, <2>2 DEF Op
  <2>4. QED
    BY <2>3 DEF o
<1>7. OpTypes'
  <2>1. Op' = Op /\ Turns' = Turns
    BY <1>2, BoundSame
  <2>2. asked' \in 0..bound.turns /\ op'.n \in 1..asked' /\ 0 \in 0..born
    BY <1>1, <1>3, <1>6
  <2>3. QED
    BY <1>1, <1>2, <1>3, <1>6, <2>1, <2>2 DEF OpTypes
<1>8. TaskTypes'
  BY <1>1, <1>2, <1>3, TaskAdded
<1>9. CallTypes'
  BY <1>1, <1>2, CallsStart
<1>10. QED
  BY <1>4, <1>5, <1>7, <1>8, <1>9

LEMMA RerollTypes ==
    ASSUME TypeInv, Reroll
    PROVE  TypeInv'
<1> USE DEF TypeInv
<1> DEFINE message == transcript[LastPlayer].text[1]
<1>1. /\ ~Busy /\ RoomToStart /\ session # 0 /\ asked < bound.turns /\ LastPlayer # 0
      /\ asked' = asked + 1
      /\ op' = [Idle EXCEPT !.pc = "reroll", !.message = message, !.n = asked + 1]
      /\ tasks' = tasks \cup {NewTask("delete", asked + 1, message)}
      /\ UNCHANGED <<server, page, stream, calls, doubt, trusted>>
  BY DEF Reroll
<1>2. UNCHANGED <<bound, born, added, session, closed>>
  BY <1>1 DEF server, page, stream
<1>3. /\ asked \in Nat /\ bound.turns \in Nat /\ born \in Nat /\ added \in Nat
      /\ asked + 1 \in Turns
  BY <1>1, BoundTypes, SessionThere DEF ServerTypes, OpTypes, Turns
<1>4. message \in Turns
  BY <1>1, LastPlayerIs DEF PageTypes
<1> HIDE DEF message
<1>5. ServerTypes'
  BY <1>1, ServerUnchanged
<1>6. PageTypes'
  BY <1>1, <1>2, <1>3, PageUnchanged
<1>7. op' \in Op /\ op'.pc = "reroll" /\ op'.session = 0 /\ op'.message = message
      /\ op'.n = asked + 1
  <2>0. /\ Idle \in Op /\ Idle.session = 0
        /\ asked + 1 \in 0..bound.turns /\ message \in 0..bound.turns
    BY <1>3, <1>4, IdleTyped DEF Turns
  <2> DEFINE o == op'
  <2>1. o = [Idle EXCEPT !.pc = "reroll", !.message = message, !.n = asked + 1]
    BY <1>1
  <2> HIDE DEF o
  <2>2. /\ o \in Op /\ o.pc = "reroll" /\ o.session = 0
        /\ o.message = message /\ o.n = asked + 1
    BY <2>0, <2>1 DEF Op
  <2>3. QED
    BY <2>2 DEF o
<1>8. OpTypes'
  <2>1. Op' = Op /\ Turns' = Turns
    BY <1>2, BoundSame
  <2>2. asked' \in 0..bound.turns /\ op'.n \in 1..asked' /\ 0 \in 0..born
    BY <1>1, <1>3, <1>7
  <2>3. QED
    BY <1>1, <1>2, <1>4, <1>7, <2>1, <2>2 DEF OpTypes
<1>9. TaskTypes'
  BY <1>1, <1>2, <1>4, TaskAdded
<1>10. CallTypes'
  BY <1>1, <1>2, CallsStart
<1>11. QED
  BY <1>5, <1>6, <1>8, <1>9, <1>10

LEMMA CurateTypes ==
    ASSUME TypeInv, NEW s \in 1..born, Curate(s)
    PROVE  TypeInv' /\ s \in Sessions /\ \A r \in Sessions : kept[r] \subseteq kept'[r]
<1> USE DEF TypeInv
<1>1. UNCHANGED <<bound, born, history, canon, added, tasks, page, op, stream, calls, asked,
                  doubt, trusted>>
  BY DEF Curate
<1>2. UNCHANGED <<session, closed>>
  BY <1>1 DEF page, stream
<1>3. s \in Sessions
  BY BoundTypes DEF ServerTypes, Sessions
<1>4. ServerTypes' /\ \A r \in Sessions : kept[r] \subseteq kept'[r]
  BY <1>3, ServerCurate
<1>5. PageTypes'
  BY <1>1, PageUnchanged, SessionThere
<1>6. OpTypes'
  BY <1>1, <1>2, OpUnchanged DEF OpTypes
<1>7. TaskTypes'
  BY <1>1, TasksFewer, SessionThere
<1>8. CallTypes'
  BY <1>1, <1>2, CallsUnchanged
<1>9. QED
  BY <1>3, <1>4, <1>5, <1>6, <1>7, <1>8

LEMMA RerollFailsTypes ==
    ASSUME TypeInv, RerollFails
    PROVE  TypeInv'
<1> USE DEF TypeInv
<1>1. /\ op' = Idle /\ doubt' = TRUE
      /\ UNCHANGED <<server, tasks, page, stream, calls, asked, trusted>>
  BY DEF RerollFails
<1>2. UNCHANGED <<bound, born, added, session, closed>> /\ born \in Nat /\ op'.pc = "idle"
  BY <1>1, SessionThere DEF server, page, stream, Idle
<1>3. ServerTypes'
  BY <1>1, ServerUnchanged
<1>4. PageTypes'
  BY <1>1, <1>2, PageUnchanged, SessionThere
<1>5. OpTypes'
  BY <1>1, <1>2, OpIdle DEF OpTypes
<1>6. TaskTypes'
  BY <1>1, <1>2, TasksFewer, SessionThere
<1>7. CallTypes'
  BY <1>1, <1>2, CallsUnchanged
<1>8. QED
  BY <1>3, <1>4, <1>5, <1>6, <1>7

LEMMA ReloadTypes ==
    ASSUME TypeInv, Reload
    PROVE  TypeInv'
<1> USE DEF TypeInv
<1>1. /\ session' = 0 /\ transcript' = <<>> /\ facts' = EmptyBag /\ memories' = {}
      /\ canonError' = FALSE /\ op' = Idle /\ closed' = FALSE
      /\ calls' = [c \in Slots |-> NoCall] /\ doubt' = FALSE /\ trusted' = {}
      /\ UNCHANGED <<server, tasks, asked>>
  BY DEF Reload
<1>2. UNCHANGED <<bound, born, added>>
  BY <1>1 DEF server
<1>3. born \in Nat /\ added \in Nat /\ bound.calls \in Nat /\ bound.facts \in Nat
      /\ added <= bound.facts
  BY BoundTypes DEF ServerTypes
<1>4. ServerTypes'
  BY <1>1, ServerUnchanged
<1>5. PageTypes'
  <2>1. Turns' = Turns /\ (Dialogue(transcript)' <=> Dialogue(transcript'))
    BY <1>2, BoundSame, PrimedCalls
  <2>2. DOMAIN EmptyBag = {} /\ IsABag(EmptyBag)
    BY DEF EmptyBag, SetToBag, IsABag
  <2>3. IsABag(facts)' <=> IsABag(facts')
    BY DEF IsABag
  <2>4. session' \in 0..born'
    BY <1>1, <1>2, <1>3
  <2>5. QED
    BY <1>1, <1>2, <2>1, <2>2, <2>3, <2>4, NoDialogue DEF PageTypes, BagToSet
<1>6. OpTypes'
  BY <1>1, <1>2, <1>3, OpIdle
<1>7. TaskTypes'
  BY <1>1, <1>2, <1>3, TasksFewer
<1>8. CallTypes'
  <2>1. PanelCalls' = PanelCalls /\ Turns' = Turns /\ Slots' = Slots
    BY <1>2, BoundSame
  <2>2. /\ FoundAdded(calls, added)' <=> FoundAdded(calls', added)
        /\ Flight(calls)' = Flight(calls')
        /\ Unserved(calls)' = Unserved(calls')
    BY <1>2, PrimedCalls
  <2>3. calls' \in PanelCalls /\ \A c \in Slots : calls'[c] = NoCall /\ calls'[c].kind = "none"
    BY <1>1 DEF PanelCalls, NoCall
  <2>4. Flight(calls') = {} /\ Unserved(calls') = {} /\ FoundAdded(calls', added)
    BY <2>3 DEF Flight, Unserved, FoundAdded, CanonKinds
  <2>5. Cardinality({}) = 0
    BY FS_EmptySet
  <2>6. added + Cardinality(Unserved(calls')) <= bound.facts
    BY <1>3, <2>4, <2>5
  <2>7. op'.pc = "idle"
    BY <1>1 DEF Idle
  <2>8. QED
    BY <1>1, <1>2, <2>1, <2>2, <2>3, <2>4, <2>6, <2>7 DEF CallTypes
<1>9. QED
  BY <1>4, <1>5, <1>6, <1>7, <1>8

LEMMA TaskSessions ==
    ASSUME TypeInv, NEW t \in tasks
    PROVE  t.session \in Sessions /\ t.session \in Nat /\ t.session # 0
BY BoundTypes DEF TypeInv, TaskTypes, Task, Sessions, ServerTypes

\* The delete a reroll waits for is answered.
LEMMA RerollAnsweredTypes ==
    ASSUME TypeInv, NEW t \in tasks, RerollAnswered(t)
    PROVE  TypeInv'
<1> USE DEF TypeInv
<1> DEFINE new == NewTask("turn", op.n, op.message)
<1>1. /\ op.pc = "reroll" /\ op.n = t.n
      /\ DeleteLastTurn(session)
      /\ transcript' = SubSeq(transcript, 1, Len(transcript) - 2)
      /\ op' = [Idle EXCEPT !.pc = "turn", !.message = op.message, !.n = op.n, !.again = TRUE]
      /\ UNCHANGED stream
      /\ tasks' = (tasks \ {t}) \cup {new}
      /\ UNCHANGED <<bound, born, canon, added, session, memories, facts, canonError, calls,
                     asked, doubt, trusted>>
  BY DEF RerollAnswered, Rerolls, RunTurn, Slice
<1>2. closed' = closed
  BY <1>1 DEF stream
<1>3. session # 0 /\ session \in Sessions /\ session <= born /\ session \in Nat /\ born \in Nat
  BY <1>1, SessionThere DEF OpTypes, PageTypes
<1>4. /\ op.message \in Turns /\ op.n \in 1..asked /\ asked \in 0..bound.turns
      /\ bound.turns \in Nat
  BY <1>1, BoundTypes DEF OpTypes, ServerTypes
<1>5. op.n \in Turns /\ op.n <= asked
  BY <1>4 DEF Turns
<1>6. ServerTypes'
  BY <1>1, <1>3, ServerDelete
<1>7. PageTypes'
  <2>1. Turns' = Turns /\ (Dialogue(transcript)' <=> Dialogue(transcript'))
    BY <1>1, BoundSame, PrimedCalls
  <2>2. Dialogue(transcript')
    BY <1>1, DialogueCut DEF PageTypes
  <2>3. IsABag(facts)' <=> IsABag(facts)
    BY <1>1 DEF IsABag
  <2>4. QED
    BY <1>1, <2>1, <2>2, <2>3 DEF PageTypes, BagToSet
<1>8. op' \in Op /\ op'.pc = "turn" /\ op'.session = 0 /\ op'.message = op.message
      /\ op'.n = op.n /\ op'.again = TRUE
  <2>1. /\ Idle \in Op /\ Idle.session = 0
        /\ op.n \in 0..bound.turns /\ op.message \in 0..bound.turns
    BY <1>4, <1>5, IdleTyped DEF Turns
  <2> DEFINE o == op'
             m == op.message
             k == op.n
  <2>2. o = [Idle EXCEPT !.pc = "turn", !.message = m, !.n = k, !.again = TRUE]
    BY <1>1
  <2>3. m \in 0..bound.turns /\ k \in 0..bound.turns
    BY <2>1
  <2> HIDE DEF o, m, k
  <2>4. /\ o \in Op /\ o.pc = "turn" /\ o.session = 0
        /\ o.message = m /\ o.n = k /\ o.again = TRUE
    BY <2>1, <2>2, <2>3 DEF Op
  <2>5. QED
    BY <2>4 DEF o, m, k
<1>9. OpTypes'
  <2>1. Op' = Op /\ Turns' = Turns
    BY <1>1, BoundSame
  <2>2. 0 \in 0..born
    BY <1>3
  <2>3. QED
    BY <1>1, <1>2, <1>3, <1>4, <1>8, <2>1, <2>2 DEF OpTypes
<1>10. TaskTypes'
  <2>1. new \in Task /\ new.session = session /\ new.n = op.n
    BY <1>3, <1>4, <1>5 DEF NewTask, Task
  <2>2. Task' = Task
    BY <1>1, BoundSame
  <2>3. \A u \in tasks' : (u \in tasks /\ u # t) \/ u = new
    BY <1>1
  <2> HIDE DEF new
  <2>4. \A u \in tasks : u # t => u.n # new.n
    BY <1>1, <2>1 DEF TaskTypes
  <2>5. tasks' \subseteq Task
    BY <2>1, <2>3 DEF TaskTypes
  <2>6. \A u \in tasks' : u.session <= born /\ u.n <= asked
    BY <1>3, <1>5, <2>1, <2>3 DEF TaskTypes
  <2>7. \A u, w \in tasks' : u.n = w.n => u = w
    BY <2>3, <2>4 DEF TaskTypes
  <2>8. QED
    BY <1>1, <2>2, <2>5, <2>6, <2>7 DEF TaskTypes
<1>11. CallTypes'
  <2>1. op.pc \notin {"idle", "panels"}
    BY <1>1
  <2>2. QED
    BY <1>1, <2>1, CallsUnchanged
<1>12. QED
  BY <1>6, <1>7, <1>9, <1>10, <1>11

LEMMA DeleteTypes ==
    ASSUME TypeInv, NEW t \in tasks, LateDelete(t) \/ DeleteRefused(t)
    PROVE  TypeInv'
<1> USE DEF TypeInv
<1>1. /\ tasks' = tasks \ {t}
      /\ UNCHANGED <<bound, born, canon, added, page, stream, calls, asked, trusted>>
      /\ UNCHANGED <<op, doubt>> \/ (op' = Idle /\ doubt' = TRUE)
      /\ UNCHANGED server \/ DeleteLastTurn(t.session)
  BY DEF LateDelete, DeleteRefused, server
<1>2. UNCHANGED <<session, closed>> /\ born \in Nat
  BY <1>1, SessionThere DEF page, stream
<1>3. ServerTypes'
  BY <1>1, ServerUnchanged, ServerDelete, TaskSessions
<1>4. PageTypes'
  BY <1>1, PageUnchanged, SessionThere
<1>5. OpTypes'
  BY <1>1, <1>2, OpIdle, OpUnchanged DEF OpTypes
<1>6. TaskTypes'
  BY <1>1, <1>2, TasksFewer
<1>7. CallTypes'
  <2>1. op' = op \/ op'.pc = "idle"
    BY <1>1 DEF Idle
  <2>2. QED
    BY <1>1, <1>2, <2>1, CallsUnchanged
<1>8. QED
  BY <1>3, <1>4, <1>5, <1>6, <1>7

-----------------------------------------------------------------------------
(* Types: a turn's end *)

LEMMA TurnTypes ==
    ASSUME TypeInv, NEW t \in tasks, EnterStage(t) \/ TurnRaises(t) \/ CancelTurn(t)
    PROVE  TypeInv' /\ UNCHANGED <<server, page, op, calls, doubt, trusted>> /\ tasks' \subseteq tasks
<1> USE DEF TypeInv
<1>1. /\ tasks' \subseteq tasks /\ closed' \in BOOLEAN
      /\ UNCHANGED <<server, page, op, calls, asked, doubt, trusted>>
  BY DEF EnterStage, TurnRaises, CancelTurn, EndTask, OpTypes, Streams
<1>2. UNCHANGED <<bound, born, added, session>> /\ born \in Nat
  BY <1>1, SessionThere DEF server, page
<1>3. ServerTypes'
  BY <1>1, ServerUnchanged
<1>4. PageTypes'
  BY <1>1, <1>2, PageUnchanged, SessionThere
<1>5. OpTypes'
  BY <1>1, <1>2, OpUnchanged DEF OpTypes
<1>6. TaskTypes'
  BY <1>1, <1>2, TasksFewer
<1>7. CallTypes'
  BY <1>1, <1>2, CallsUnchanged
<1>8. QED
  BY <1>1, <1>3, <1>4, <1>5, <1>6, <1>7

LEMMA OpSaved ==
    ASSUME op \in Op, NEW saved \in BOOLEAN, NEW o, o = [op EXCEPT !.saved = saved]
    PROVE  /\ o \in Op /\ o.pc = op.pc /\ o.session = op.session
           /\ o.message = op.message /\ o.n = op.n /\ o.again = op.again
BY DEF Op

LEMMA StoreTypes ==
    ASSUME TypeInv, NEW t \in tasks, NEW outcome, NEW fragmented, NEW saved \in BOOLEAN,
           StoreTurn(t, outcome, fragmented, saved)
    PROVE  TypeInv' /\ op'.pc = op.pc /\ op'.again = op.again /\ op'.n = op.n
<1> USE DEF TypeInv
<1>1. /\ tasks' = tasks \ {t} /\ closed' \in BOOLEAN
      /\ op' = op \/ op' = [op EXCEPT !.saved = saved]
      /\ \/ UNCHANGED <<history, owed>>
         \/ /\ history' = [history EXCEPT ![t.session] = Append(@, NewTurn(t))]
            /\ owed' = [owed EXCEPT ![t.session] = @ \cup {t.n}]
      /\ UNCHANGED <<bound, born, kept, canon, added, page, calls, asked, doubt, trusted>>
  BY DEF StoreTurn, EndTask, OpTypes, Streams
<1>2. session' = session /\ born \in Nat
  BY <1>1, SessionThere DEF page
<1>3. ServerTypes'
  <2>1. CASE UNCHANGED <<history, owed>>
    BY <1>1, <2>1, ServerUnchanged DEF server
  <2>2. CASE /\ history' = [history EXCEPT ![t.session] = Append(@, NewTurn(t))]
             /\ owed' = [owed EXCEPT ![t.session] = @ \cup {t.n}]
    BY <1>1, <2>2, ServerStore
  <2>3. QED
    BY <1>1, <2>1, <2>2
<1>4. PageTypes'
  BY <1>1, PageUnchanged, SessionThere
<1>5. /\ op' \in Op /\ op'.pc = op.pc /\ op'.session = op.session
      /\ op'.message = op.message /\ op'.n = op.n /\ op'.again = op.again
  <2>1. CASE op' = op
    BY <2>1 DEF OpTypes
  <2>2. CASE op' = [op EXCEPT !.saved = saved]
    BY <2>2, OpSaved DEF OpTypes
  <2>3. QED
    BY <1>1, <2>1, <2>2
<1>6. OpTypes'
  <2>1. Op' = Op /\ Turns' = Turns
    BY <1>1, BoundSame
  <2>2. QED
    BY <1>1, <1>2, <1>5, <2>1 DEF OpTypes
<1>7. TaskTypes'
  <2>1. tasks' \subseteq tasks /\ born <= born' /\ born' \in Nat
    BY <1>1, <1>2
  <2>2. QED
    BY <1>1, <2>1, TasksFewer
<1>8. CallTypes'
  <2>1. op'.pc \in {"idle", "panels"} \/ op.pc \notin {"idle", "panels"}
    BY <1>5
  <2>2. QED
    BY <1>1, <1>2, <2>1, CallsUnchanged
<1>9. QED
  BY <1>3, <1>4, <1>5, <1>6, <1>7, <1>8

\* What the ends of a turn have in common: the page is idle, and its memories
\* are fetched again after an answer and after a reroll.
TurnOver ==
    /\ op.pc = "turn"
    /\ (\E text : ApplyTurn(text)) \/ (\E unsure \in BOOLEAN : GiveUp(unsure))
    /\ EndTurn

LEMMA TurnIsOver ==
    ASSUME TypeInv, Timeout \/ \E length, split \in 0..Len(wire) : EndOfStream(length, split)
    PROVE  TurnOver
<1>1. CASE Timeout
  <2>1. GiveUp(TRUE) /\ TRUE \in BOOLEAN
    BY <1>1 DEF Timeout
  <2>2. \E unsure \in BOOLEAN : GiveUp(unsure)
    BY <2>1
  <2>3. QED
    BY <1>1, <2>2 DEF Timeout, TurnOver
<1>2. ASSUME NEW length \in 0..Len(wire), NEW split \in 0..Len(wire),
             EndOfStream(length, split)
      PROVE  TurnOver
  <2> DEFINE reader == Finish(Read(Read(Fresh, SubSeq(wire, 1, split)),
                                   SubSeq(wire, split + 1, length)))
             unsure == ~closed \/ length < Len(wire)
  <2>1. /\ op.pc = "turn" /\ EndTurn
        /\ IF reader.failed THEN GiveUp(unsure) ELSE ApplyTurn(reader.text)
    BY <1>2 DEF EndOfStream
  <2>2. unsure \in BOOLEAN
    OBVIOUS
  <2> HIDE DEF reader, unsure
  <2>3. (\E text : ApplyTurn(text)) \/ (\E u \in BOOLEAN : GiveUp(u))
    BY <2>1, <2>2
  <2>4. QED
    BY <2>1, <2>3 DEF TurnOver
<1>3. QED
  BY <1>1, <1>2

\* One memories call is issued for an answer, one for a reroll.
LEMMA RestFine ==
    ASSUME ServerTypes, OpTypes, NEW f, CallsFine(f), Cardinality(Flight(f)) < bound.calls
    PROVE  /\ CallsFine(Rest(f))
           /\ op.again => \E s \in Slots : Issued(f, Rest(f), s, "memories", 0)
           /\ ~op.again => Rest(f) = f
<1>1. CASE op.again
  <2>1. Rest(f) = Issue(f, "memories", 0, FALSE)
    BY <1>1 DEF Rest, RefreshMemories
  <2>2. QED
    BY <1>1, <2>1, IssueFine
<1>2. CASE ~op.again
  BY <1>2 DEF Rest
<1>3. QED
  BY <1>1, <1>2

LEMMA TurnOverCalls ==
    ASSUME TypeInv, TurnOver
    PROVE  /\ CallsFine(calls')
           /\ \/ \E s \in Slots : Issued(calls, calls', s, "memories", 0)
              \/ \E g \in PanelCalls, s, r \in Slots :
                    /\ Issued(calls, g, s, "memories", 0)
                    /\ Issued(g, calls', r, "memories", 0)
              \/ ~op.again /\ calls' = calls
<1> USE DEF TypeInv
<1>1. CallsFine(calls)
  BY DEF CallTypes, CallsFine
<1>2. Cardinality(Flight(calls)) + 2 <= bound.calls /\ bound.calls \in Nat
  BY BoundTypes DEF CallTypes, ServerTypes, TurnOver
<1>3. Cardinality(Flight(calls)) \in Nat
  <2>1. Flight(calls) \subseteq Slots
    BY DEF Flight
  <2>2. QED
    BY <2>1, SlotsFinite, FS_Subset, FS_CardinalityType DEF ServerTypes
<1>4. Cardinality(Flight(calls)) < bound.calls
  BY <1>2, <1>3
<1>5. ASSUME NEW unsure, GiveUp(unsure)
      PROVE  /\ CallsFine(calls')
             /\ \/ \E s \in Slots : Issued(calls, calls', s, "memories", 0)
                \/ ~op.again /\ calls' = calls
  <2>1. calls' = Rest(calls)
    BY <1>5 DEF GiveUp
  <2>2. QED
    BY <1>1, <1>4, <2>1, RestFine
<1>6. ASSUME NEW text, ApplyTurn(text)
      PROVE  /\ CallsFine(calls')
             /\ \/ \E s \in Slots : Issued(calls, calls', s, "memories", 0)
                \/ \E g \in PanelCalls, s, r \in Slots :
                      /\ Issued(calls, g, s, "memories", 0)
                      /\ Issued(g, calls', r, "memories", 0)
  <2> DEFINE g == RefreshMemories(calls, FALSE)
  <2>1. g = Issue(calls, "memories", 0, FALSE) /\ calls' = Rest(g)
    BY <1>6 DEF ApplyTurn, RefreshMemories
  <2> HIDE DEF g
  <2>2. /\ CallsFine(g) /\ Cardinality(Flight(g)) = Cardinality(Flight(calls)) + 1
        /\ \E s \in Slots : Issued(calls, g, s, "memories", 0)
    BY <1>1, <1>4, <2>1, IssueFine
  <2>3. Cardinality(Flight(g)) < bound.calls
    BY <1>2, <1>3, <2>2
  <2>4. /\ CallsFine(calls')
        /\ op.again => \E r \in Slots : Issued(g, calls', r, "memories", 0)
        /\ ~op.again => calls' = g
    BY <2>1, <2>2, <2>3, RestFine
  <2>5. g \in PanelCalls
    BY <2>2 DEF CallsFine
  <2>6. CASE op.again
    BY <2>2, <2>4, <2>5, <2>6
  <2>7. CASE ~op.again
    BY <2>2, <2>4, <2>7
  <2>8. QED
    BY <2>6, <2>7
<1>7. QED
  BY <1>5, <1>6 DEF TurnOver

LEMMA TurnOverTypes ==
    ASSUME TypeInv, TurnOver
    PROVE  TypeInv'
<1> USE DEF TypeInv
<1>1. /\ op.pc = "turn" /\ op' = Idle /\ closed' = FALSE
      /\ UNCHANGED <<server, tasks, session, memories, facts, canonError, asked, trusted>>
  BY DEF TurnOver, EndTurn
<1>2. UNCHANGED <<bound, born, added>> /\ born \in Nat /\ op'.pc = "idle"
  BY <1>1, SessionThere DEF server, Idle
<1>3. session # 0 /\ op.message \in Turns
  BY <1>1 DEF OpTypes
<1>4. Dialogue(transcript') /\ doubt' \in BOOLEAN
  <2>1. ASSUME NEW text, ApplyTurn(text)
        PROVE  Dialogue(transcript') /\ doubt' \in BOOLEAN
    <3>1. /\ transcript' = transcript \o <<Player(op.message), Assistant(text)>>
          /\ doubt' = (doubt \/ ~op.saved)
      BY <2>1 DEF ApplyTurn
    <3>2. Dialogue(transcript')
      BY <1>3, <3>1, DialogueGoesOn DEF PageTypes
    <3>3. QED
      BY <3>1, <3>2
  <2>2. ASSUME NEW unsure, GiveUp(unsure)
        PROVE  Dialogue(transcript') /\ doubt' \in BOOLEAN
    BY <2>2 DEF GiveUp, PageTypes
  <2>3. QED
    BY <2>1, <2>2 DEF TurnOver
<1>5. ServerTypes'
  BY <1>1, ServerUnchanged
<1>6. PageTypes'
  <2>1. Turns' = Turns /\ (Dialogue(transcript)' <=> Dialogue(transcript'))
    BY <1>2, BoundSame, PrimedCalls
  <2>2. IsABag(facts)' <=> IsABag(facts)
    BY <1>1 DEF IsABag
  <2>3. QED
    BY <1>1, <1>2, <1>4, <2>1, <2>2 DEF PageTypes, BagToSet
<1>7. OpTypes'
  BY <1>1, <1>2, <1>4, OpIdle DEF OpTypes
<1>8. TaskTypes'
  BY <1>1, <1>2, TasksFewer
<1>9. CallTypes'
  BY <1>1, <1>2, <1>3, TurnOverCalls, CallTypesFine
<1>10. QED
  BY <1>5, <1>6, <1>7, <1>8, <1>9

-----------------------------------------------------------------------------
(* Every step *)

LEMMA InitTypes ==
    ASSUME Init
    PROVE  TypeInv
<1>1. bound.sessions \in Nat /\ bound.turns \in Nat /\ bound.facts \in Nat /\ bound \in Bounds
      /\ bound.calls \in Nat
  BY BoundTypes DEF Init
<1>2. ServerTypes
  <2>1. history \in [Sessions -> Seq(Turn)]
    BY DEF Init
  <2>2. QED
    BY <1>1, <2>1 DEF Init, ServerTypes
<1>3. PageTypes
  <2>1. DOMAIN EmptyBag = {} /\ IsABag(EmptyBag)
    BY DEF EmptyBag, SetToBag, IsABag
  <2>2. BagToSet(facts) = {} /\ IsABag(facts) /\ session \in 0..born
    BY <2>1 DEF Init, BagToSet
  <2>3. Dialogue(transcript) /\ memories = {} /\ canonError = FALSE
    BY NoDialogue DEF Init
  <2>4. QED
    BY <2>2, <2>3 DEF PageTypes
<1>4. OpTypes
  <2>1. Idle \in Op /\ Idle.pc = "idle" /\ Idle.session = 0
    BY <1>2, IdleTyped
  <2>2. op = Idle /\ born = 0 /\ asked = 0 /\ doubt = FALSE /\ closed = FALSE
    BY DEF Init
  <2>3. asked \in 0..bound.turns /\ 0 \in 0..born
    BY <1>1, <2>2
  <2>4. QED
    BY <2>1, <2>2, <2>3 DEF OpTypes
<1>5. TaskTypes
  BY DEF Init, TaskTypes
<1>6. CallTypes
  <2>1. calls \in PanelCalls /\ \A c \in Slots : calls[c] = NoCall /\ calls[c].kind = "none"
    BY DEF Init, PanelCalls, NoCall
  <2>2. Flight(calls) = {} /\ Unserved(calls) = {} /\ FoundAdded(calls, added)
    BY <2>1 DEF Flight, Unserved, FoundAdded, CanonKinds
  <2>3. Cardinality({}) = 0 /\ added = 0
    BY FS_EmptySet DEF Init
  <2>4. added + Cardinality(Unserved(calls)) <= bound.facts
    BY <1>1, <2>2, <2>3
  <2>5. op.pc = "idle" /\ trusted = {}
    BY DEF Init, Idle
  <2>6. QED
    BY <2>1, <2>2, <2>4, <2>5 DEF CallTypes
<1>7. QED
  BY <1>2, <1>3, <1>4, <1>5, <1>6 DEF TypeInv

LEMMA StutterTypes ==
    ASSUME TypeInv, UNCHANGED vars
    PROVE  TypeInv'
<1> USE DEF TypeInv
<1>1. /\ UNCHANGED <<server, page, op, calls, asked, doubt, trusted, tasks>>
      /\ UNCHANGED <<bound, born, added, session, closed>>
  BY DEF vars, server, page, stream
<1>2. ServerTypes'
  BY <1>1, ServerUnchanged
<1>3. PageTypes'
  BY <1>1, PageUnchanged, SessionThere
<1>4. OpTypes'
  BY <1>1, OpUnchanged DEF OpTypes
<1>5. TaskTypes'
  BY <1>1, TasksFewer, SessionThere
<1>6. CallTypes'
  BY <1>1, CallsUnchanged
<1>7. QED
  BY <1>2, <1>3, <1>4, <1>5, <1>6

LEMMA StepTypes ==
    ASSUME TypeInv, [Next]_vars
    PROVE  TypeInv'
<1>1. CASE ClickRefresh \/ ClickAdd \/ \E fact \in 1..bound.facts : ClickDelete(fact)
  BY <1>1, ClickTypes
<1>2. ASSUME NEW c \in Slots, Serve(c) \/ Answer(c) \/ CallFails(c)  PROVE TypeInv'
  BY <1>2, ServeTypes, AnswerTypes, FailsTypes
<1>3. CASE Create \/ \E s \in 1..born : Resume(s)
  BY <1>3, StartTypes
<1>4. CASE CreateAnswered \/ GetAnswered \/ DetailsAnswered \/ RequestFails
  BY <1>4, CreatedTypes, GotTypes, DetailsTypes, RequestFailsTypes
<1>5. CASE \E s \in 1..born : Curate(s)
  BY <1>5, CurateTypes
<1>6. CASE Send \/ Reroll \/ RerollFails \/ Reload
  BY <1>6, SendTypes, RerollTypes, RerollFailsTypes, ReloadTypes
<1>7. ASSUME NEW t \in tasks, RerollAnswered(t) \/ LateDelete(t) \/ DeleteRefused(t)
      PROVE  TypeInv'
  BY <1>7, RerollAnsweredTypes, DeleteTypes
<1>8. ASSUME NEW t \in tasks, EnterStage(t) \/ TurnRaises(t) \/ CancelTurn(t)
      PROVE  TypeInv'
  BY <1>8, TurnTypes
<1>9. ASSUME NEW t \in tasks, NEW outcome, NEW fragmented, NEW saved \in BOOLEAN,
             StoreTurn(t, outcome, fragmented, saved)
      PROVE  TypeInv'
  BY <1>9, StoreTypes
<1>10. CASE Timeout \/ \E length, split \in 0..Len(wire) : EndOfStream(length, split)
  BY <1>10, TurnIsOver, TurnOverTypes
<1>11. CASE UNCHANGED vars
  BY <1>11, StutterTypes
<1>12. Turning \subseteq tasks
  BY DEF Turning
<1>13. QED
  BY <1>1, <1>2, <1>3, <1>4, <1>5, <1>6, <1>7, <1>8, <1>9, <1>10, <1>11, <1>12 DEF Next

LEMMA TypesAreOK ==
    ASSUME TypeInv
    PROVE  TypeOK
<1> USE DEF TypeInv
<1>1. /\ bound \in Bounds /\ born \in 0..bound.sessions /\ added \in 0..bound.facts
      /\ tasks \subseteq Task /\ session \in 0..born /\ Len(transcript) % 2 = 0
      /\ memories \subseteq Turns /\ op \in Op /\ op.session \in 0..born
      /\ trusted \subseteq {"memories", "canon"}
      /\ asked \in 0..bound.turns /\ {doubt, closed, canonError} \subseteq BOOLEAN
      /\ IsABag(facts) /\ BagToSet(facts) \subseteq 1..added
  BY DEF ServerTypes, PageTypes, OpTypes, TaskTypes, CallTypes, Dialogue
<1>2. ASSUME NEW s \in Sessions
      PROVE  /\ \A i \in DOMAIN history[s] : history[s][i] \in Turn
             /\ kept[s] \cup owed[s] \subseteq Turns
             /\ canon[s] \subseteq 1..added
             /\ s > born => history[s] = <<>> /\ canon[s] = {}
  <2>1. history[s] \in Seq(Turn) /\ canon[s] \subseteq 1..added
    BY DEF ServerTypes
  <2>2. \A i \in DOMAIN history[s] : history[s][i] \in Turn
    BY <2>1
  <2>3. QED
    BY <2>1, <2>2 DEF ServerTypes
<1>3. ASSUME NEW c \in Slots
      PROVE  calls[c] = NoCall \/ (calls[c] \in Call /\ session # 0)
  BY SessionThere DEF CallTypes, PanelCalls
<1>4. QED
  BY <1>1, <1>2, <1>3 DEF TypeOK

\* The store's state, the page's and the calls between them stay in their types,
\* whatever answers, failures and reloads come in what order: in particular a
\* memory is that of a stored turn, a panel shows nothing that was never added,
\* the transcript holds whole turns, and no call is in flight without a session.
THEOREM ViewTyped == Spec => []TypeOK
<1>1. Init => TypeInv
  BY InitTypes
<1>2. TypeInv /\ [Next]_vars => TypeInv'
  BY StepTypes
<1>3. TypeInv => TypeOK
  BY TypesAreOK
<1>4. QED
  BY <1>1, <1>2, <1>3, PTL DEF Spec

-----------------------------------------------------------------------------
(* The canon panel *)

CanonInv ==
    /\ AloneIsAlone(calls)
    /\ LoadedFound(calls, canon[session])
    /\ "canon" \in trusted => Followed(calls, facts, canon[session])

\* What a canon panel needs of the calls in flight.
CanonFine(f) ==
    /\ f \in PanelCalls
    /\ AloneIsAlone(f)
    /\ LoadedFound(f, canon[session])
    /\ "canon" \in trusted => Followed(f, facts, canon[session])

LEMMA CanonPrimed ==
    ASSUME bound' = bound
    PROVE  CanonInv' <=>
             /\ AloneIsAlone(calls')
             /\ LoadedFound(calls', canon'[session'])
             /\ "canon" \in trusted' => Followed(calls', facts', canon'[session'])
BY PrimedCalls DEF CanonInv

LEMMA CanonSame ==
    ASSUME CanonInv, UNCHANGED <<bound, calls, canon, session, facts, trusted>>
    PROVE  CanonInv'
BY CanonPrimed DEF CanonInv

LEMMA CanonIssued ==
    ASSUME NEW f, CanonFine(f), NEW g, NEW s \in Slots, NEW kind \in CallKinds, NEW fact,
           Issued(f, g, s, kind, fact), kind = "delete" => fact \in BagToSet(facts)
    PROVE  CanonFine(g)
<1>1. g \in PanelCalls
  BY DEF Issued
<1>2. f \in PanelCalls
  BY DEF CanonFine
<1>3. AloneIsAlone(g)
  BY <1>2, IssueAlone DEF CanonFine
<1>4. LoadedFound(g, canon[session])
  BY <1>2, IssueLoadedFound DEF CanonFine
<1>5. "canon" \in trusted => Followed(g, facts, canon[session])
  BY <1>2, IssueFollowed DEF CanonFine
<1>6. QED
  BY <1>1, <1>3, <1>4, <1>5 DEF CanonFine

LEMMA CanonFineNow ==
    ASSUME TypeInv, CanonInv
    PROVE  CanonFine(calls)
BY DEF TypeInv, CallTypes, CanonInv, CanonFine

LEMMA CanonFineNext ==
    ASSUME CanonFine(calls'), UNCHANGED <<bound, canon, session, facts, trusted>>
    PROVE  CanonInv'
BY CanonPrimed DEF CanonFine

LEMMA CanonClick ==
    ASSUME TypeInv, CanonInv,
           ClickRefresh \/ ClickAdd \/ \E fact \in 1..bound.facts : ClickDelete(fact)
    PROVE  CanonInv'
<1>1. UNCHANGED <<server, page, trusted>>
  BY DEF ClickRefresh, ClickAdd, ClickDelete
<1>2. UNCHANGED <<bound, canon, session, facts, trusted>>
  BY <1>1 DEF server, page
<1>3. PICK s \in Slots, kind \in CallKinds, fact \in 0..bound.facts :
          /\ Issued(calls, calls', s, kind, fact)
          /\ kind = "delete" => fact \in BagToSet(facts)
  BY ClickTypes
<1>4. CanonFine(calls')
  BY <1>3, CanonFineNow, CanonIssued
<1>5. QED
  BY <1>2, <1>4, CanonFineNext

LEMMA CanonServe ==
    ASSUME TypeInv, CanonInv, NEW c \in Slots, Serve(c)
    PROVE  CanonInv'
<1> DEFINE have == canon[session]
           more == canon'[session]
<1>1. UNCHANGED <<bound, page, trusted>> /\ UNCHANGED <<session, facts>>
  BY DEF Serve, page
<1>2. /\ calls[c] # NoCall /\ calls[c].kind \in CallKinds /\ ~calls[c].served
      /\ session \in Sessions
  BY ServeAs
<1>3. PICK found \in SUBSET Nat : ServedAs(c, found)
  BY ServeAs
<1>4. /\ calls \in PanelCalls /\ added \in Nat /\ Served(calls, calls', c, found)
      /\ canon \in [Sessions -> SUBSET (1..added)] /\ BagToSet(facts) \subseteq 1..added
      /\ FoundAdded(calls, added)
  BY <1>3, SessionThere DEF TypeInv, CallTypes, ServedAs, ServerTypes, PageTypes
<1>5. AloneIsAlone(calls) /\ LoadedFound(calls, have)
      /\ ("canon" \in trusted => Followed(calls, facts, have))
  BY DEF CanonInv
<1>6. AloneIsAlone(calls')
  BY <1>2, <1>4, <1>5, ServeKeeps
<1>7. LoadedFound(calls', more) /\ ("canon" \in trusted => Followed(calls', facts, more))
  <2>1. CASE calls[c].kind \in {"memories", "canon"}
    <3>1. more = have /\ (calls[c].kind = "canon" => found = have)
      <4>1. CASE calls[c].kind = "memories"
        BY <1>3, <4>1 DEF ServedAs
      <4>2. CASE calls[c].kind = "canon"
        BY <1>3, <4>2 DEF ServedAs
      <4>3. QED
        BY <2>1, <4>1, <4>2
    <3>2. /\ LoadedFound(calls, have) => LoadedFound(calls', have)
          /\ \A list : Followed(calls, list, have) => Followed(calls', list, have)
      BY <1>4, <2>1, <3>1, ServeList
    <3>3. QED
      BY <1>5, <3>1, <3>2
  <2>2. CASE calls[c].kind = "add"
    <3>1. /\ found = {added + 1}
          /\ canon' = [canon EXCEPT ![session] = canon[session] \cup {added + 1}]
      BY <1>3, <2>2 DEF ServedAs
    <3>2. more = have \cup {added + 1}
      BY <1>2, <1>4, <3>1
    <3>3. LoadedFound(calls', more)
      BY <1>4, <1>5, <2>2, ServeChange
    <3>4. ASSUME "canon" \in trusted  PROVE Followed(calls', facts, have \cup {added + 1})
      <4>1. Followed(calls, facts, have) /\ Served(calls, calls', c, {added + 1})
        BY <1>4, <1>5, <3>1, <3>4
      <4> HIDE DEF have
      <4>2. QED
        BY <1>2, <1>4, <2>2, <4>1, ServeAdd
    <3>5. QED
      BY <3>2, <3>3, <3>4
  <2>3. CASE calls[c].kind = "delete"
    <3>1. /\ found = {}
          /\ canon' = [canon EXCEPT ![session] = canon[session] \ {calls[c].fact}]
      BY <1>3, <2>3 DEF ServedAs
    <3>2. more = have \ {calls[c].fact}
      BY <1>2, <1>4, <3>1
    <3>3. LoadedFound(calls', more)
      BY <1>4, <1>5, <2>3, ServeChange
    <3>4. ASSUME "canon" \in trusted  PROVE Followed(calls', facts, have \ {calls[c].fact})
      <4>1. Followed(calls, facts, have) /\ Served(calls, calls', c, {})
        BY <1>4, <1>5, <3>1, <3>4
      <4> HIDE DEF have
      <4>2. QED
        BY <1>2, <1>4, <2>3, <4>1, ServeDelete
    <3>5. QED
      BY <3>2, <3>3, <3>4
  <2>4. QED
    BY <1>2, <2>1, <2>2, <2>3 DEF CallKinds
<1>8. QED
  BY <1>1, <1>6, <1>7, CanonPrimed

LEMMA CanonAnswer ==
    ASSUME TypeInv, CanonInv, NEW c \in Slots, Answer(c)
    PROVE  CanonInv'
<1> DEFINE have == canon[session]
<1>1. /\ UNCHANGED <<server, session>> /\ calls[c].served /\ calls[c] # NoCall
      /\ UNCHANGED <<bound, canon>>
  BY DEF Answer, InFlight, server
<1>2. Removed(calls, calls', c)
  BY AnswerTypes
<1>3. calls \in PanelCalls /\ calls[c].kind \in CallKinds
  BY <1>1, KindOfCall DEF TypeInv, CallTypes
<1>4. AloneIsAlone(calls) /\ LoadedFound(calls, have)
      /\ ("canon" \in trusted => Followed(calls, facts, have))
  BY DEF CanonInv
<1>5. AloneIsAlone(calls') /\ LoadedFound(calls', have)
  BY <1>2, <1>3, <1>4, RemoveKeeps
<1>6. ASSUME "canon" \in trusted'  PROVE Followed(calls', facts', have)
  <2>1. CASE calls[c].kind = "memories"
    <3>1. facts' = facts /\ "canon" \in trusted
      BY <1>6, <2>1 DEF Answer, Lists
    <3>2. c \notin Adds(calls) /\ c \notin Deletes(calls)
      BY <2>1 DEF Adds, Deletes
    <3>3. QED
      BY <1>2, <1>3, <1>4, <3>1, <3>2, RemoveOther
  <2>2. CASE calls[c].kind = "canon"
    <3>1. calls[c].alone
      BY <1>6, <2>2 DEF Answer, Lists
    <3>2. calls[c].found = have
      BY <1>1, <1>4, <2>2, <3>1 DEF LoadedFound
    <3>3. facts' = SetToBag(have)
      BY <2>2, <3>2 DEF Answer, FactsAnswered
    <3>4. Followed(calls', SetToBag(have), have)
      BY <1>2, <1>3, <1>4, <2>2, <3>1, AnswerCanon
    <3>5. QED
      BY <3>3, <3>4
  <2>3. CASE calls[c].kind = "add"
    <3>1. "canon" \in trusted /\ facts' = facts (+) SetToBag(calls[c].found)
      BY <1>6, <2>3 DEF Answer, Lists, FactsAnswered
    <3>2. c \in Adds(calls) /\ Followed(calls, facts, have)
      BY <1>1, <1>4, <2>3, <3>1 DEF Adds
    <3> HIDE DEF have
    <3>3. Followed(calls', facts (+) SetToBag(calls[c].found), have)
      BY <1>2, <1>3, <3>2, AnswerAdd
    <3>4. QED
      BY <3>1, <3>3
  <2>4. CASE calls[c].kind = "delete"
    <3>1. /\ "canon" \in trusted
          /\ facts' = Restrict(facts, BagToSet(facts) \ {calls[c].fact})
      BY <1>6, <2>4 DEF Answer, Lists, FactsAnswered
    <3>2. c \in Deletes(calls) /\ Followed(calls, facts, have)
      BY <1>1, <1>4, <2>4, <3>1 DEF Deletes
    <3> HIDE DEF have
    <3>3. Followed(calls', Restrict(facts, BagToSet(facts) \ {calls[c].fact}), have)
      BY <1>2, <1>3, <3>2, AnswerDelete
    <3>4. QED
      BY <3>1, <3>3
  <2>5. QED
    BY <1>3, <2>1, <2>2, <2>3, <2>4 DEF CallKinds
<1>7. QED
  BY <1>1, <1>5, <1>6, CanonPrimed

LEMMA CanonFails ==
    ASSUME TypeInv, CanonInv, NEW c \in Slots, CallFails(c)
    PROVE  CanonInv'
<1> DEFINE have == canon[session]
<1>1. UNCHANGED <<server, session, facts>> /\ calls[c] # NoCall /\ UNCHANGED <<bound, canon>>
  BY DEF CallFails, InFlight, server
<1>2. Removed(calls, calls', c)
  BY FailsTypes
<1>3. calls \in PanelCalls /\ calls[c].kind \in CallKinds
  BY <1>1, KindOfCall DEF TypeInv, CallTypes
<1>4. AloneIsAlone(calls) /\ LoadedFound(calls, have)
      /\ ("canon" \in trusted => Followed(calls, facts, have))
  BY DEF CanonInv
<1>5. AloneIsAlone(calls') /\ LoadedFound(calls', have)
  BY <1>2, <1>3, <1>4, RemoveKeeps
<1>6. ASSUME "canon" \in trusted'  PROVE Followed(calls', facts, have)
  <2>1. "canon" \in trusted /\ c \notin Adds(calls) /\ c \notin Deletes(calls)
    <3>1. CASE calls[c].kind = "memories"
      BY <1>6, <3>1 DEF CallFails, Adds, Deletes
    <3>2. CASE calls[c].kind = "canon"
      BY <1>6, <3>2 DEF CallFails, Adds, Deletes
    <3>3. CASE calls[c].kind \in {"add", "delete"} /\ calls[c].served
      BY <1>6, <3>3 DEF CallFails
    <3>4. CASE calls[c].kind \in {"add", "delete"} /\ ~calls[c].served
      BY <1>6, <3>4 DEF CallFails, Adds, Deletes
    <3>5. QED
      BY <1>3, <3>1, <3>2, <3>3, <3>4 DEF CallKinds
  <2>2. QED
    BY <1>2, <1>3, <1>4, <2>1, RemoveOther
<1>7. QED
  BY <1>1, <1>5, <1>6, CanonPrimed

\* With no call in flight and no list trusted there is nothing to relate.
LEMMA CanonVacuous ==
    ASSUME NEW f \in PanelCalls, Flight(f) = {}, NEW have
    PROVE  AloneIsAlone(f) /\ LoadedFound(f, have) /\ MemoriesFound(f, have)
<1>1. \A c \in Slots : f[c].kind \notin CallKinds
  BY KindOfCall DEF Flight
<1>2. QED
  BY <1>1 DEF AloneIsAlone, LoadedFound, MemoriesFound, CallKinds

LEMMA CanonCreated ==
    ASSUME TypeInv, CreateAnswered
    PROVE  CanonInv'
<1>1. /\ op.pc = "create" /\ calls' = LoadPanels
      /\ UNCHANGED <<bound, trusted>>
  BY DEF CreateAnswered
<1>2. session = 0 /\ Flight(calls) = {} /\ trusted = {} /\ calls \in PanelCalls
  BY <1>1 DEF TypeInv, OpTypes, CallTypes
<1>3. PICK g \in PanelCalls, s \in Slots, r \in Slots :
          /\ Issued(calls, g, s, "memories", 0)
          /\ Issued(g, calls', r, "canon", 0)
  BY <1>1, LoadPanelsFine DEF TypeInv
<1> DEFINE have == canon'[session']
<1>4. AloneIsAlone(calls) /\ LoadedFound(calls, have)
  BY <1>2, CanonVacuous
<1> HIDE DEF have
<1>5. AloneIsAlone(g) /\ LoadedFound(g, have)
  BY <1>2, <1>3, <1>4, IssueAlone, IssueLoadedFound DEF CallKinds
<1>6. AloneIsAlone(calls') /\ LoadedFound(calls', have)
  BY <1>3, <1>5, IssueAlone, IssueLoadedFound DEF CallKinds
<1>7. QED
  BY <1>1, <1>2, <1>6, CanonPrimed DEF have

LEMMA CanonGot ==
    ASSUME TypeInv, GetAnswered
    PROVE  CanonInv'
<1>1. op.pc = "get" /\ UNCHANGED <<server, calls, trusted>> /\ UNCHANGED <<bound, canon>>
  BY DEF GetAnswered, server
<1>2. session = 0 /\ Flight(calls) = {} /\ trusted = {} /\ calls \in PanelCalls
  BY <1>1 DEF TypeInv, OpTypes, CallTypes
<1>3. AloneIsAlone(calls) /\ LoadedFound(calls, canon'[session'])
  BY <1>2, CanonVacuous
<1>4. QED
  BY <1>1, <1>2, <1>3, CanonPrimed

LEMMA CanonDetails ==
    ASSUME TypeInv, CanonInv, DetailsAnswered
    PROVE  CanonInv'
<1>1. /\ op.pc = "details" /\ calls' = LoadPanels
      /\ UNCHANGED <<bound, canon, session, facts, trusted>>
  BY DEF DetailsAnswered, server
<1>2. PICK g \in PanelCalls, s \in Slots, r \in Slots :
          /\ Issued(calls, g, s, "memories", 0)
          /\ Issued(g, calls', r, "canon", 0)
  BY <1>1, LoadPanelsFine DEF TypeInv
<1>3. CanonFine(g)
  BY <1>2, CanonFineNow, CanonIssued DEF CallKinds
<1>4. CanonFine(calls')
  BY <1>2, <1>3, CanonIssued DEF CallKinds
<1>5. QED
  BY <1>1, <1>4, CanonFineNext

LEMMA CanonTurnOver ==
    ASSUME TypeInv, CanonInv, TurnOver
    PROVE  CanonInv'
<1>1. UNCHANGED <<bound, canon, session, facts, trusted>>
  BY DEF TurnOver, EndTurn, server
<1>2. CASE \E s \in Slots : Issued(calls, calls', s, "memories", 0)
  <2>1. CanonFine(calls')
    BY <1>2, CanonFineNow, CanonIssued DEF CallKinds
  <2>2. QED
    BY <1>1, <2>1, CanonFineNext
<1>3. CASE \E g \in PanelCalls, s, r \in Slots :
             Issued(calls, g, s, "memories", 0) /\ Issued(g, calls', r, "memories", 0)
  <2>1. PICK g \in PanelCalls, s \in Slots, r \in Slots :
            Issued(calls, g, s, "memories", 0) /\ Issued(g, calls', r, "memories", 0)
    BY <1>3
  <2>2. CanonFine(g)
    BY <2>1, CanonFineNow, CanonIssued DEF CallKinds
  <2>3. CanonFine(calls')
    BY <2>1, <2>2, CanonIssued DEF CallKinds
  <2>4. QED
    BY <1>1, <2>3, CanonFineNext
<1>4. CASE calls' = calls
  BY <1>1, <1>4, CanonSame
<1>5. QED
  BY <1>2, <1>3, <1>4, TurnOverCalls

LEMMA CanonReload ==
    ASSUME TypeInv, Reload
    PROVE  CanonInv'
<1>1. calls' = [c \in Slots |-> NoCall] /\ trusted' = {} /\ bound' = bound
  BY DEF Reload, server
<1>2. calls' \in PanelCalls /\ Flight(calls') = {}
  BY <1>1 DEF PanelCalls, Flight
<1>3. AloneIsAlone(calls') /\ LoadedFound(calls', canon'[session'])
  BY <1>2, CanonVacuous
<1>4. QED
  BY <1>1, <1>3, CanonPrimed

LEMMA CanonInit ==
    ASSUME Init
    PROVE  CanonInv
<1>1. trusted = {} /\ calls \in PanelCalls /\ Flight(calls) = {}
  BY DEF Init, PanelCalls, Flight
<1>2. QED
  BY <1>1, CanonVacuous DEF CanonInv

LEMMA CanonStep ==
    ASSUME TypeInv, CanonInv, [Next]_vars
    PROVE  CanonInv'
<1>1. CASE ClickRefresh \/ ClickAdd \/ \E fact \in 1..bound.facts : ClickDelete(fact)
  BY <1>1, CanonClick
<1>2. ASSUME NEW c \in Slots, Serve(c) \/ Answer(c) \/ CallFails(c)  PROVE CanonInv'
  BY <1>2, CanonServe, CanonAnswer, CanonFails
<1>3. CASE CreateAnswered \/ GetAnswered \/ DetailsAnswered
  BY <1>3, CanonCreated, CanonGot, CanonDetails
<1>4. CASE Create \/ \E s \in 1..born : Resume(s)
  <2>1. UNCHANGED <<server, page, calls, trusted>>
    BY <1>4 DEF Create, Resume, Start
  <2>2. QED
    BY <2>1, CanonSame DEF server, page
<1>5. CASE RequestFails \/ \E s \in 1..born : Curate(s)
  BY <1>5, CanonSame DEF RequestFails, Curate, page
<1>6. CASE Send \/ Reroll \/ RerollFails
  BY <1>6, CanonSame DEF Send, Reroll, RerollFails, server, page
<1>7. CASE Reload
  BY <1>7, CanonReload
<1>8. ASSUME NEW t \in tasks, RerollAnswered(t) \/ LateDelete(t) \/ DeleteRefused(t)
      PROVE  CanonInv'
  BY <1>8, CanonSame DEF RerollAnswered, LateDelete, DeleteRefused, server, page
<1>9. ASSUME NEW t \in tasks, EnterStage(t) \/ TurnRaises(t) \/ CancelTurn(t)
      PROVE  CanonInv'
  BY <1>9, TurnTypes, CanonSame DEF server, page
<1>10. ASSUME NEW t \in tasks, NEW outcome, NEW fragmented, NEW saved \in BOOLEAN,
              StoreTurn(t, outcome, fragmented, saved)
       PROVE  CanonInv'
  BY <1>10, CanonSame DEF StoreTurn, page
<1>11. CASE Timeout \/ \E length, split \in 0..Len(wire) : EndOfStream(length, split)
  BY <1>11, TurnIsOver, CanonTurnOver
<1>12. CASE UNCHANGED vars
  BY <1>12, CanonSame DEF vars, server, page
<1>13. Turning \subseteq tasks
  BY DEF Turning
<1>14. QED
  BY <1>1, <1>2, <1>3, <1>4, <1>5, <1>6, <1>7, <1>8, <1>9, <1>10, <1>11, <1>12, <1>13
     DEF Next

\* With no canon call in flight nothing is left to apply.
LEMMA CanonMatches ==
    ASSUME TypeInv, CanonInv, "canon" \in trusted, Of({"canon", "add", "delete"}) = {}
    PROVE  facts = SetToBag(canon[session])
<1>1. Adds(calls) = {} /\ Deletes(calls) = {}
  <2>1. ASSUME NEW c \in Slots, calls[c].kind \in {"add", "delete"}  PROVE FALSE
    <3>1. calls[c] # NoCall
      BY <2>1, KindOfCall DEF TypeInv, CallTypes, CallKinds
    <3>2. QED
      BY <2>1, <3>1 DEF Of, InFlight
  <2>2. QED
    BY <2>1 DEF Adds, Deletes
<1>2. Followed(calls, facts, canon[session])
  BY DEF CanonInv
<1>3. facts = SetToBag(BagToSet(facts)) /\ canon[session] = BagToSet(facts)
  <2>1. facts = SetToBag(BagToSet(facts))
    BY <1>2 DEF Followed
  <2>2. \A x : x \in canon[session] <=> x \in BagToSet(facts)
    BY <1>1, <1>2 DEF Followed
  <2>4. QED
    BY <2>1, <2>2
<1>4. QED
  BY <1>3

-----------------------------------------------------------------------------
(* The memory panel *)

\* A delete still running in the page's session is the one its reroll waits
\* for, or the page does not vouch for what it shows.
DeletesDoubted ==
    \A t \in tasks : t.kind = "delete" /\ t.session = session => doubt \/ Rerolls(t)

LEMMA DoubtKept ==
    ASSUME DeletesDoubted, tasks' \subseteq tasks, session' = session, doubt => doubt',
           doubt' \/ (op.pc = "reroll" => op'.pc = "reroll" /\ op'.n = op.n)
    PROVE  DeletesDoubted'
BY DEF DeletesDoubted, Rerolls

\* Only a delete the page waits for is not doubted, and none when it waits for none.
LEMMA DoubtIdle ==
    ASSUME DeletesDoubted, op.pc # "reroll", NEW t \in tasks, t.kind = "delete",
           t.session = session
    PROVE  doubt
BY DEF DeletesDoubted, Rerolls

\* A task joins that is a turn, or the delete of the reroll that begins.
LEMMA DoubtJoins ==
    ASSUME DeletesDoubted, session' = session, doubt => doubt',
           NEW new, NEW rest \in SUBSET tasks, tasks' = rest \cup {new},
           new.kind = "turn" \/ (op'.pc = "reroll" /\ op'.n = new.n),
           \A t \in rest : ~Rerolls(t)
    PROVE  DeletesDoubted'
<1> SUFFICES ASSUME NEW t \in tasks', t.kind = "delete", t.session = session', ~doubt'
             PROVE  Rerolls(t)'
  BY DEF DeletesDoubted
<1>1. CASE t \in rest
  BY <1>1 DEF DeletesDoubted
<1>2. CASE t = new
  BY <1>2 DEF Rerolls
<1>3. QED
  BY <1>1, <1>2

LEMMA DoubtStep ==
    ASSUME TypeInv, DeletesDoubted, [Next]_vars
    PROVE  DeletesDoubted'
<1>1. CASE ClickRefresh \/ ClickAdd \/ \E fact \in 1..bound.facts : ClickDelete(fact)
  <2>1. UNCHANGED <<tasks, page, op, doubt>>
    BY <1>1 DEF ClickRefresh, ClickAdd, ClickDelete
  <2>2. QED
    BY <2>1, DoubtKept DEF page
<1>2. ASSUME NEW c \in Slots, Serve(c) \/ Answer(c) \/ CallFails(c)
      PROVE  DeletesDoubted'
  <2>1. /\ UNCHANGED <<tasks, session, doubt>>
        /\ op' = op \/ op.pc = "panels"
    BY <1>2 DEF Serve, Answer, CallFails, Settled, page
  <2>2. QED
    BY <2>1, DoubtKept
<1>3. CASE CreateAnswered
  <2>1. tasks' = tasks /\ session' = born + 1 /\ born \in Nat
    BY <1>3, SessionThere DEF CreateAnswered, TypeInv
  <2>2. \A t \in tasks : t.session <= born /\ t.session \in Nat
    BY TaskSessions DEF TypeInv, TaskTypes
  <2>3. \A t \in tasks : t.session # born + 1
    BY <2>1, <2>2
  <2>4. QED
    BY <2>1, <2>3 DEF DeletesDoubted
<1>4. CASE GetAnswered
  BY <1>4 DEF GetAnswered, DeletesDoubted
<1>5. CASE DetailsAnswered
  <2>1. tasks' = tasks /\ session' = session /\ doubt' = \E t \in tasks : t.session = session
    BY <1>5 DEF DetailsAnswered
  <2>2. QED
    BY <2>1 DEF DeletesDoubted
<1>6. CASE RequestFails \/ Create \/ \E s \in 1..born : Resume(s) \/ Curate(s)
  <2>1. UNCHANGED <<tasks, page, doubt>> /\ (op.pc = "reroll" => op' = op)
    <3>1. CASE RequestFails \/ Create \/ \E s \in 1..born : Resume(s)
      BY <3>1 DEF RequestFails, Create, Resume, Start, Busy
    <3>2. CASE \E s \in 1..born : Curate(s)
      BY <3>2 DEF Curate
    <3>3. QED
      BY <1>6, <3>1, <3>2
  <2>2. QED
    BY <2>1, DoubtKept DEF page
<1>7. CASE Send
  <2>1. /\ tasks' = tasks \cup {NewTask("turn", asked + 1, asked + 1)}
        /\ session' = session /\ doubt' = doubt /\ op.pc = "idle"
    BY <1>7 DEF Send, RunTurn, Busy, page
  <2>2. NewTask("turn", asked + 1, asked + 1).kind = "turn"
    BY DEF NewTask
  <2>3. \A t \in tasks : ~Rerolls(t)
    BY <2>1 DEF Rerolls
  <2>4. QED
    BY <2>1, <2>2, <2>3, DoubtJoins
<1>8. CASE Reroll
  <2> DEFINE message == transcript[LastPlayer].text[1]
  <2>1. /\ tasks' = tasks \cup {NewTask("delete", asked + 1, message)}
        /\ session' = session /\ doubt' = doubt /\ op.pc = "idle"
        /\ op' = [Idle EXCEPT !.pc = "reroll", !.message = message, !.n = asked + 1]
    BY <1>8 DEF Reroll, Busy, page
  <2>2. NewTask("delete", asked + 1, message).n = asked + 1
    BY DEF NewTask
  <2>3. op'.pc = "reroll" /\ op'.n = asked + 1
    BY <2>1 DEF Idle
  <2>4. \A t \in tasks : ~Rerolls(t)
    BY <2>1 DEF Rerolls
  <2> HIDE DEF message
  <2>5. QED
    BY <2>1, <2>2, <2>3, <2>4, DoubtJoins
<1>9. CASE RerollFails
  BY <1>9 DEF RerollFails, DeletesDoubted
<1>10. CASE Reload
  <2>1. tasks' = tasks /\ session' = 0
    BY <1>10 DEF Reload
  <2>2. \A t \in tasks : t.session # 0
    BY TaskSessions
  <2>3. QED
    BY <2>1, <2>2 DEF DeletesDoubted
<1>11. ASSUME NEW t \in tasks, RerollAnswered(t)  PROVE DeletesDoubted'
  <2>1. /\ tasks' = (tasks \ {t}) \cup {NewTask("turn", op.n, op.message)}
        /\ session' = session /\ doubt' = doubt /\ op.n = t.n
    BY <1>11 DEF RerollAnswered, Rerolls
  <2>2. NewTask("turn", op.n, op.message).kind = "turn"
    BY DEF NewTask
  <2>3. \A u \in tasks \ {t} : ~Rerolls(u)
    BY <2>1 DEF Rerolls, TypeInv, TaskTypes
  <2>4. QED
    BY <2>1, <2>2, <2>3, DoubtJoins
<1>12. ASSUME NEW t \in tasks, LateDelete(t) \/ DeleteRefused(t)  PROVE DeletesDoubted'
  <2>1. /\ tasks' \subseteq tasks /\ session' = session
        /\ UNCHANGED <<op, doubt>> \/ doubt' = TRUE
    BY <1>12 DEF LateDelete, DeleteRefused, page
  <2>2. QED
    BY <2>1, DoubtKept
<1>13. ASSUME NEW t \in tasks, EnterStage(t) \/ TurnRaises(t) \/ CancelTurn(t)
       PROVE  DeletesDoubted'
  BY <1>13, TurnTypes, DoubtKept DEF page
<1>14. ASSUME NEW t \in tasks, NEW outcome, NEW fragmented, NEW saved \in BOOLEAN,
              StoreTurn(t, outcome, fragmented, saved)
       PROVE  DeletesDoubted'
  <2>1. op'.pc = op.pc /\ op'.n = op.n
    BY <1>14, StoreTypes
  <2>2. tasks' \subseteq tasks /\ session' = session /\ doubt' = doubt
    BY <1>14 DEF StoreTurn, EndTask, page
  <2>3. QED
    BY <2>1, <2>2, DoubtKept
<1>15. CASE Timeout \/ \E length, split \in 0..Len(wire) : EndOfStream(length, split)
  <2>1. op.pc = "turn" /\ tasks' = tasks /\ session' = session /\ (doubt => doubt')
    BY <1>15, TurnIsOver DEF TurnOver, EndTurn, ApplyTurn, GiveUp
  <2>2. QED
    BY <2>1, DoubtKept
<1>16. CASE UNCHANGED vars
  BY <1>16, DoubtKept DEF vars, page
<1>17. Turning \subseteq tasks
  BY DEF Turning
<1>18. QED
  BY <1>1, <1>2, <1>3, <1>4, <1>5, <1>6, <1>7, <1>8, <1>9, <1>10, <1>11, <1>12, <1>13,
     <1>14, <1>15, <1>16, <1>17 DEF Next

Replacing == op.pc = "turn" /\ op.again

\* The page vouches for its memory panel.
Sure == ~doubt /\ ~Replacing

NoFetch(f) == \A c \in Slots : f[c].kind # "memories"

\* A list fetched undisturbed, on its way or shown, has memories the session keeps.
MemoryFine(f, list, trust, have) ==
    /\ MemoriesFound(f, have)
    /\ "memories" \in trust /\ NoFetch(f) => list \subseteq have

MemoryInv == Sure => MemoryFine(calls, memories, trusted, kept[session])

LEMMA MemoryPrimed ==
    ASSUME bound' = bound
    PROVE  MemoryInv' <=> (Sure' => MemoryFine(calls', memories', trusted', kept'[session']))
<1>1. Slots' = Slots
  BY BoundSame
<1>2. QED
  BY <1>1 DEF MemoryInv, MemoryFine, MemoriesFound, NoFetch

LEMMA MemoryVacuous ==
    ASSUME NEW f \in PanelCalls, Flight(f) = {}, NEW list, NEW have
    PROVE  MemoryFine(f, list, {}, have)
BY CanonVacuous DEF MemoryFine

\* A step after which the page vouches for no more than before, and the session
\* keeps no less.
LEMMA MemorySame ==
    ASSUME TypeInv, MemoryInv, UNCHANGED <<bound, calls, memories, session, trusted>>,
           session # 0 => kept[session] \subseteq kept'[session], Sure' => Sure
    PROVE  MemoryInv'
<1>1. CASE session = 0
  <2>1. calls \in PanelCalls /\ Flight(calls) = {} /\ trusted = {}
    BY <1>1 DEF TypeInv, CallTypes
  <2>2. MemoryFine(calls, memories, {}, kept'[session])
    BY <2>1, MemoryVacuous
  <2>3. QED
    BY <2>1, <2>2, MemoryPrimed
<1>2. CASE session # 0
  <2>1. ASSUME Sure'  PROVE MemoryFine(calls, memories, trusted, kept'[session])
    BY <1>2, <2>1 DEF MemoryInv, MemoryFine, MemoriesFound
  <2>2. QED
    BY <2>1, MemoryPrimed
<1>3. QED
  BY <1>1, <1>2

\* A fetch that is issued disturbs those in flight, and hides the list.
LEMMA MemoryIssued ==
    ASSUME NEW f \in PanelCalls, NEW g, NEW s \in Slots, NEW kind \in CallKinds, NEW fact,
           Issued(f, g, s, kind, fact), NEW list, NEW trust, NEW have,
           kind = "memories" \/ MemoryFine(f, list, trust, have)
    PROVE  MemoryFine(g, list, trust, have)
<1>1. MemoriesFound(g, have)
  BY IssueMemoriesFound DEF MemoryFine
<1>2. NoFetch(g) => kind # "memories" /\ NoFetch(f)
  BY DEF NoFetch, Issued
<1>3. QED
  BY <1>1, <1>2 DEF MemoryFine

LEMMA MemoryClick ==
    ASSUME TypeInv, MemoryInv,
           ClickRefresh \/ ClickAdd \/ \E fact \in 1..bound.facts : ClickDelete(fact)
    PROVE  MemoryInv'
<1>1. UNCHANGED <<server, page, op, doubt, trusted>>
  BY DEF ClickRefresh, ClickAdd, ClickDelete
<1>2. UNCHANGED <<bound, kept, session, memories>>
  BY <1>1 DEF server, page
<1>3. PICK s \in Slots, kind \in CallKinds, fact \in 0..bound.facts :
          Issued(calls, calls', s, kind, fact)
  BY ClickTypes
<1>4. ASSUME Sure'  PROVE MemoryFine(calls', memories, trusted, kept[session])
  <2>1. MemoryFine(calls, memories, trusted, kept[session])
    BY <1>1, <1>4 DEF MemoryInv, Sure, Replacing
  <2>2. calls \in PanelCalls
    BY DEF TypeInv, CallTypes
  <2>3. QED
    BY <1>3, <2>1, <2>2, MemoryIssued
<1>5. QED
  BY <1>1, <1>2, <1>4, MemoryPrimed

LEMMA MemoryServe ==
    ASSUME TypeInv, MemoryInv, NEW c \in Slots, Serve(c)
    PROVE  MemoryInv'
<1>1. /\ UNCHANGED <<bound, kept, page, op, doubt, trusted>> /\ UNCHANGED <<session, memories>>
  BY DEF Serve, page
<1>2. calls[c].kind \in CallKinds
  BY ServeAs
<1>3. PICK found \in SUBSET Nat : ServedAs(c, found)
  BY ServeAs
<1>4. calls \in PanelCalls /\ Served(calls, calls', c, found)
  BY <1>3 DEF TypeInv, CallTypes, ServedAs
<1>5. calls[c].kind = "memories" => found = kept[session]
  BY <1>3 DEF ServedAs
<1>6. ASSUME Sure'  PROVE MemoryFine(calls', memories, trusted, kept[session])
  <2>1. MemoryFine(calls, memories, trusted, kept[session])
    BY <1>1, <1>6 DEF MemoryInv, Sure, Replacing
  <2>2. \A have : (calls[c].kind = "memories" => found = have) /\ MemoriesFound(calls, have)
                  => MemoriesFound(calls', have)
    BY <1>2, <1>4, ServeKeeps
  <2>3. MemoriesFound(calls', kept[session])
    BY <1>5, <2>1, <2>2 DEF MemoryFine
  <2>4. NoFetch(calls') => NoFetch(calls)
    BY <1>4 DEF NoFetch, Served
  <2>5. QED
    BY <2>1, <2>3, <2>4 DEF MemoryFine
<1>7. QED
  BY <1>1, <1>6, MemoryPrimed

LEMMA MemorySettled ==
    ASSUME TypeInv, MemoryInv, NEW c \in Slots, Answer(c) \/ CallFails(c)
    PROVE  MemoryInv'
<1>1. /\ UNCHANGED <<server, session, doubt>> /\ UNCHANGED <<bound, kept>>
      /\ op' = op \/ (op.pc = "panels" /\ op'.pc = "idle")
      /\ calls[c] # NoCall
  BY DEF Answer, CallFails, InFlight, Settled, Idle, server
<1>2. Removed(calls, calls', c)
  BY AnswerTypes, FailsTypes
<1>3. calls \in PanelCalls /\ calls[c].kind \in CallKinds
  BY <1>1, KindOfCall DEF TypeInv, CallTypes
<1>4. ASSUME Sure'  PROVE MemoryFine(calls', memories', trusted', kept[session])
  <2>1. MemoryFine(calls, memories, trusted, kept[session])
    BY <1>1, <1>4 DEF MemoryInv, Sure, Replacing
  <2>2. MemoriesFound(calls', kept[session])
    BY <1>2, <1>3, <2>1, RemoveKeeps DEF MemoryFine
  <2>3. ASSUME "memories" \in trusted', NoFetch(calls')
        PROVE  memories' \subseteq kept[session]
    <3>1. CASE calls[c].kind = "memories"
      <4>0. ~CallFails(c)
        BY <2>3, <3>1 DEF CallFails
      <4>1. Answer(c) /\ calls[c].alone
        BY <2>3, <3>1, <4>0 DEF Answer, Lists
      <4>2. memories' = calls[c].found /\ calls[c].served
        BY <3>1, <4>1 DEF Answer
      <4>3. QED
        BY <2>1, <3>1, <4>1, <4>2 DEF MemoryFine, MemoriesFound
    <3>2. CASE calls[c].kind # "memories"
      <4>1. memories' = memories
        BY <3>2 DEF Answer, CallFails
      <4>2. "memories" \in trusted
        <5>1. CASE Answer(c)
          BY <2>3, <3>2, <5>1 DEF Answer, Lists
        <5>2. CASE CallFails(c)
          <6>1. trusted' \subseteq trusted
            BY <3>2, <5>2 DEF CallFails
          <6>2. QED
            BY <2>3, <6>1
        <5>3. QED
          BY <5>1, <5>2
      <4>3. NoFetch(calls)
        BY <1>2, <2>3, <3>2 DEF NoFetch, Removed
      <4>4. QED
        BY <2>1, <4>1, <4>2, <4>3 DEF MemoryFine
    <3>3. QED
      BY <3>1, <3>2
  <2>4. QED
    BY <2>2, <2>3 DEF MemoryFine
<1>5. QED
  BY <1>1, <1>4, MemoryPrimed

\* The lists of a create or a resume are fetched anew.
LEMMA MemoryLoads ==
    ASSUME TypeInv, CreateAnswered \/ DetailsAnswered
    PROVE  MemoryInv'
<1>1. op.pc \notin {"idle", "panels"} /\ calls' = LoadPanels /\ bound' = bound
  BY DEF CreateAnswered, DetailsAnswered, server
<1>2. PICK g \in PanelCalls, s \in Slots, r \in Slots :
          /\ Issued(calls, g, s, "memories", 0)
          /\ Issued(g, calls', r, "canon", 0)
  BY <1>1, LoadPanelsFine DEF TypeInv
<1>3. calls \in PanelCalls
  BY DEF TypeInv, CallTypes
<1> DEFINE have == kept'[session']
           list == memories'
           trust == trusted'
<1> HIDE DEF have, list, trust
<1>4. MemoryFine(g, list, trust, have)
  BY <1>2, <1>3, MemoryIssued DEF CallKinds
<1>5. MemoryFine(calls', list, trust, have)
  BY <1>2, <1>4, MemoryIssued DEF CallKinds
<1>6. QED
  BY <1>1, <1>5, MemoryPrimed DEF have, list, trust

\* However a turn ends: after a reroll the memories are fetched anew.
LEMMA MemoryTurnOver ==
    ASSUME TypeInv, MemoryInv, TurnOver
    PROVE  MemoryInv'
<1>1. /\ UNCHANGED <<bound, kept, session, memories, trusted>>
      /\ op' = Idle /\ (doubt => doubt')
  BY DEF TurnOver, EndTurn, server, ApplyTurn, GiveUp
<1>2. calls \in PanelCalls
  BY DEF TypeInv, CallTypes
<1> DEFINE have == kept[session]
<1>3. CASE \E s \in Slots : Issued(calls, calls', s, "memories", 0)
  <2>1. MemoryFine(calls', memories, trusted, have)
    BY <1>2, <1>3, MemoryIssued DEF CallKinds
  <2>2. QED
    BY <1>1, <2>1, MemoryPrimed
<1>4. CASE \E g \in PanelCalls, s, r \in Slots :
             Issued(calls, g, s, "memories", 0) /\ Issued(g, calls', r, "memories", 0)
  <2>1. PICK g \in PanelCalls, r \in Slots : Issued(g, calls', r, "memories", 0)
    BY <1>4
  <2>2. MemoryFine(calls', memories, trusted, have)
    BY <2>1, MemoryIssued DEF CallKinds
  <2>3. QED
    BY <1>1, <2>2, MemoryPrimed
<1>5. CASE ~op.again /\ calls' = calls
  <2>1. Sure' => Sure
    BY <1>1, <1>5 DEF Sure, Replacing
  <2>2. QED
    BY <1>1, <1>5, <2>1, MemorySame
<1>6. QED
  BY <1>3, <1>4, <1>5, TurnOverCalls

LEMMA MemoryReload ==
    ASSUME TypeInv, Reload
    PROVE  MemoryInv'
<1>1. calls' = [c \in Slots |-> NoCall] /\ trusted' = {} /\ bound' = bound
  BY DEF Reload, server
<1>2. calls' \in PanelCalls /\ Flight(calls') = {}
  BY <1>1 DEF PanelCalls, Flight
<1>3. MemoryFine(calls', memories', {}, kept'[session'])
  BY <1>2, MemoryVacuous
<1>4. QED
  BY <1>1, <1>3, MemoryPrimed

\* A late delete that reaches the page's session is doubted.
LEMMA MemoryDelete ==
    ASSUME TypeInv, MemoryInv, DeletesDoubted, NEW t \in tasks,
           LateDelete(t) \/ DeleteRefused(t)
    PROVE  MemoryInv'
<1>1. /\ UNCHANGED <<bound, calls, memories, session, trusted>>
      /\ UNCHANGED <<op, doubt>> \/ doubt' = TRUE
  BY DEF LateDelete, DeleteRefused, page, server
<1>2. Sure' => Sure
  BY <1>1 DEF Sure, Replacing
<1>3. CASE kept' = kept
  BY <1>1, <1>2, <1>3, MemorySame
<1>4. CASE LateDelete(t)
  <2>1. /\ t.kind = "delete" /\ ~Rerolls(t) /\ doubt' = doubt
        /\ kept' = [kept EXCEPT ![t.session] = @ \cap Last(history[t.session]).before]
    BY <1>4 DEF LateDelete, DeleteLastTurn
  <2>2. CASE t.session = session
    <3>1. ~Sure'
      BY <2>1, <2>2 DEF DeletesDoubted, Sure
    <3>2. QED
      BY <1>1, <3>1, MemoryPrimed
  <2>3. CASE t.session # session
    <3>1. session # 0 => kept'[session] = kept[session]
      BY <2>1, <2>3, SessionThere DEF TypeInv, ServerTypes
    <3>2. QED
      BY <1>1, <1>2, <3>1, MemorySame
  <2>4. QED
    BY <2>2, <2>3
<1>5. QED
  BY <1>3, <1>4 DEF DeleteRefused, server

LEMMA MemoryStep ==
    ASSUME TypeInv, MemoryInv, DeletesDoubted, [Next]_vars
    PROVE  MemoryInv'
<1>1. CASE ClickRefresh \/ ClickAdd \/ \E fact \in 1..bound.facts : ClickDelete(fact)
  BY <1>1, MemoryClick
<1>2. ASSUME NEW c \in Slots, Serve(c) \/ Answer(c) \/ CallFails(c)  PROVE MemoryInv'
  BY <1>2, MemoryServe, MemorySettled
<1>3. CASE CreateAnswered \/ DetailsAnswered
  BY <1>3, MemoryLoads
<1>4. CASE GetAnswered
  <2>1. doubt' = TRUE /\ bound' = bound
    BY <1>4 DEF GetAnswered, server
  <2>2. QED
    BY <2>1, MemoryPrimed DEF Sure
<1>5. CASE RequestFails \/ Create \/ \E s \in 1..born : Resume(s)
  <2>1. /\ UNCHANGED <<bound, kept, page, calls, doubt, trusted>>
        /\ op.pc # "turn"
    BY <1>5 DEF RequestFails, Create, Resume, Start, Busy, server
  <2>2. Sure' => Sure
    BY <2>1 DEF Sure, Replacing
  <2>3. QED
    BY <2>1, <2>2, MemorySame DEF page
<1>6. ASSUME NEW s \in 1..born, Curate(s)  PROVE MemoryInv'
  <2>1. UNCHANGED <<bound, page, op, calls, doubt, trusted>>
    BY <1>6 DEF Curate
  <2>2. Sure' => Sure
    BY <2>1 DEF Sure, Replacing
  <2>3. session # 0 => kept[session] \subseteq kept'[session]
    BY <1>6, CurateTypes, SessionThere DEF TypeInv
  <2>4. QED
    BY <2>1, <2>2, <2>3, MemorySame DEF page
<1>7. CASE Send \/ Reroll
  <2>1. /\ UNCHANGED <<server, page, calls, doubt, trusted>>
        /\ op.pc = "idle"
    BY <1>7 DEF Send, Reroll, Busy
  <2>2. Sure' => Sure
    BY <2>1 DEF Sure, Replacing
  <2>3. QED
    BY <2>1, <2>2, MemorySame DEF page, server
<1>8. CASE RerollFails
  <2>1. doubt' = TRUE /\ bound' = bound
    BY <1>8 DEF RerollFails, server
  <2>2. QED
    BY <2>1, MemoryPrimed DEF Sure
<1>9. CASE Reload
  BY <1>9, MemoryReload
<1>10. ASSUME NEW t \in tasks, RerollAnswered(t)  PROVE MemoryInv'
  <2>1. /\ op' = [Idle EXCEPT !.pc = "turn", !.message = op.message, !.n = op.n, !.again = TRUE]
        /\ bound' = bound
    BY <1>10 DEF RerollAnswered, RunTurn
  <2>2. Replacing'
    BY <2>1 DEF Replacing, Idle
  <2>3. QED
    BY <2>1, <2>2, MemoryPrimed DEF Sure
<1>11. ASSUME NEW t \in tasks, LateDelete(t) \/ DeleteRefused(t)  PROVE MemoryInv'
  BY <1>11, MemoryDelete
<1>12. ASSUME NEW t \in tasks, EnterStage(t) \/ TurnRaises(t) \/ CancelTurn(t)
       PROVE  MemoryInv'
  <2>1. UNCHANGED <<server, page, op, calls, doubt, trusted>>
    BY <1>12, TurnTypes
  <2>2. Sure' => Sure
    BY <2>1 DEF Sure, Replacing
  <2>3. QED
    BY <2>1, <2>2, MemorySame DEF page, server
<1>13. ASSUME NEW t \in tasks, NEW outcome, NEW fragmented, NEW saved \in BOOLEAN,
              StoreTurn(t, outcome, fragmented, saved)
       PROVE  MemoryInv'
  <2>1. UNCHANGED <<bound, kept, page, calls, doubt, trusted>>
    BY <1>13 DEF StoreTurn
  <2>2. op'.pc = op.pc /\ op'.again = op.again
    BY <1>13, StoreTypes
  <2>3. Sure' => Sure
    BY <2>1, <2>2 DEF Sure, Replacing
  <2>4. QED
    BY <2>1, <2>3, MemorySame DEF page
<1>14. CASE Timeout \/ \E length, split \in 0..Len(wire) : EndOfStream(length, split)
  BY <1>14, TurnIsOver, MemoryTurnOver
<1>15. CASE UNCHANGED vars
  <2>1. UNCHANGED <<server, page, op, calls, doubt, trusted>>
    BY <1>15 DEF vars
  <2>2. Sure' => Sure
    BY <2>1 DEF Sure, Replacing
  <2>3. QED
    BY <2>1, <2>2, MemorySame DEF page, server
<1>16. Turning \subseteq tasks
  BY DEF Turning
<1>17. QED
  BY <1>1, <1>2, <1>3, <1>4, <1>5, <1>6, <1>7, <1>8, <1>9, <1>10, <1>11, <1>12, <1>13,
     <1>14, <1>15, <1>16 DEF Next

LEMMA MemoryMatches ==
    ASSUME TypeInv, MemoryInv, "memories" \in trusted, ~Busy, ~doubt, Of({"memories"}) = {}
    PROVE  memories \subseteq kept[session]
<1>1. NoFetch(calls)
  <2>1. ASSUME NEW c \in Slots, calls[c].kind = "memories"  PROVE FALSE
    <3>1. calls[c] # NoCall
      BY <2>1, KindOfCall DEF TypeInv, CallTypes, CallKinds
    <3>2. QED
      BY <2>1, <3>1 DEF Of, InFlight
  <2>2. QED
    BY <2>1 DEF NoFetch
<1>2. Sure
  BY DEF Sure, Replacing, Busy
<1>3. QED
  BY <1>1, <1>2 DEF MemoryInv, MemoryFine

-----------------------------------------------------------------------------

PanelsInv == CanonInv /\ MemoryInv /\ DeletesDoubted

\* The panels agree with the store once their answers are in: a canon list that
\* nothing overlapped while it was fetched, and that only answers have changed,
\* is the session's canon, and a memory list fetched alone shows no memory of a
\* turn a reroll has deleted, whatever became of the turn that replaces it.
THEOREM PanelsAgree == Spec => []PanelsMatch
<1>1. Init => TypeInv /\ PanelsInv
  <2>1. ASSUME Init  PROVE MemoryInv /\ DeletesDoubted
    <3>1. trusted = {} /\ tasks = {} /\ calls \in PanelCalls /\ Flight(calls) = {}
      BY <2>1 DEF Init, PanelCalls, Flight
    <3>2. QED
      BY <3>1, MemoryVacuous DEF MemoryInv, DeletesDoubted
  <2>2. QED
    BY <2>1, InitTypes, CanonInit DEF PanelsInv
<1>2. TypeInv /\ PanelsInv /\ [Next]_vars => TypeInv' /\ PanelsInv'
  BY StepTypes, CanonStep, MemoryStep, DoubtStep DEF PanelsInv
<1>3. TypeInv /\ PanelsInv => PanelsMatch
  BY CanonMatches, MemoryMatches DEF PanelsInv, PanelsMatch
<1>4. QED
  BY <1>1, <1>2, <1>3, PTL DEF Spec

-----------------------------------------------------------------------------
(* The stream's parser *)

LEMMA FirstTwo ==
    ASSUME NEW S, NEW s \in Seq(S), Len(s) >= 2
    PROVE  SubSeq(s, 1, 2) = <<s[1], s[2]>>
<1>1. 1 \in 1..Len(s) /\ 2 \in 1..Len(s)
  OBVIOUS
<1>2. /\ SubSeq(s, 1, 2) \in Seq(S)
      /\ Len(SubSeq(s, 1, 2)) = 2
      /\ \A i \in 1..2 : SubSeq(s, 1, 2)[i] = s[(1 + i) - 1]
  <2>1. \A i \in 1..2 : i \in 1..Len(s)
    OBVIOUS
  <2>2. (IF 1 <= 2 THEN (2 - 1) + 1 ELSE 0) = 2
    OBVIOUS
  <2>3. QED
    BY <1>1, <2>1, <2>2, SubSeqProperties
<1>3. SubSeq(s, 1, 2)[1] = s[1] /\ SubSeq(s, 1, 2)[2] = s[2]
  BY <1>2
<1> DEFINE t == SubSeq(s, 1, 2)
<1>4. t \in Seq(S) /\ Len(t) = 2 /\ t[1] = s[1] /\ t[2] = s[2]
  BY <1>2, <1>3
<1>5. <<s[1], s[2]>> \in Seq(S) /\ Len(<<s[1], s[2]>>) = 2
  BY <1>1
<1> HIDE DEF t
<1>6. \A i \in 1..Len(t) : t[i] = <<s[1], s[2]>>[i]
  BY <1>4
<1>7. t = <<s[1], s[2]>>
  BY <1>4, <1>5, <1>6, SeqEqual
<1>8. QED
  BY <1>7 DEF t

LEMMA EndsInBreaks ==
    ASSUME NEW S, NEW b \in Seq(S), NEW x
    PROVE  IsSuffix(<<x, x>>, b) <=>
             Len(b) >= 2 /\ b[Len(b)] = x /\ b[Len(b) - 1] = x
<1> DEFINE n == Len(b)
           two == Reverse(<<x, x>>)
           rev == Reverse(b)
<1>1. n \in Nat
  OBVIOUS
<1>2. two = <<x, x>>
  <2>1. Len(<<x, x>>) = 2
    OBVIOUS
  <2>2. two = [i \in 1..2 |-> <<x, x>>[(2 - i) + 1]]
    BY <2>1 DEF Reverse
  <2>3. \A i \in 1..2 : <<x, x>>[(2 - i) + 1] = <<x, x>>[i]
    OBVIOUS
  <2>4. two = [i \in 1..2 |-> <<x, x>>[i]]
    BY <2>2, <2>3
  <2>5. QED
    BY <2>4
<1>3. rev = [i \in 1..n |-> b[(n - i) + 1]]
  BY DEF Reverse
<1>4. rev \in Seq(S) /\ Len(rev) = n
  <2>1. \A i \in 1..n : (n - i) + 1 \in 1..n
    BY <1>1
  <2>2. \A i \in 1..n : b[(n - i) + 1] \in S
    BY <2>1
  <2>3. rev \in [1..n -> S]
    BY <1>3, <2>2
  <2>4. rev \in Seq(S)
    BY <1>1, <2>3, SeqDef
  <2>5. QED
    BY <1>1, <1>3, <2>4, LenProperties
<1>5. IsSuffix(<<x, x>>, b) <=> 2 <= n /\ SubSeq(two, 1, 2) = SubSeq(rev, 1, 2)
  <2>1. IsSuffix(<<x, x>>, b) <=>
          Len(two) <= Len(rev) /\ SubSeq(two, 1, Len(two)) = SubSeq(rev, 1, Len(two))
    BY DEF IsSuffix, IsPrefix
  <2>2. Len(two) = 2
    BY <1>2
  <2> HIDE DEF two, rev, n
  <2>3. QED
    BY <1>4, <2>1, <2>2
<1> HIDE DEF rev, two
<1>6. SubSeq(two, 1, 2) = <<two[1], two[2]>>
  <2>1. two \in Seq({x}) /\ Len(two) = 2
    BY <1>2
  <2>2. QED
    BY <2>1, FirstTwo
<1>7. ASSUME n >= 2  PROVE rev[1] = b[n] /\ rev[2] = b[n - 1]
  <2>1. 1 \in 1..n /\ 2 \in 1..n /\ (n - 1) + 1 = n /\ (n - 2) + 1 = n - 1
    BY <1>1, <1>7
  <2> HIDE DEF n
  <2>2. rev[1] = b[(n - 1) + 1] /\ rev[2] = b[(n - 2) + 1]
    BY <1>3, <2>1
  <2>3. QED
    BY <2>1, <2>2
<1>8. ASSUME n >= 2  PROVE SubSeq(rev, 1, 2) = <<rev[1], rev[2]>>
  <2> HIDE DEF n
  <2>1. QED
    BY <1>1, <1>4, <1>8, FirstTwo
<1>9. two[1] = x /\ two[2] = x
  BY <1>2
<1>10. ASSUME n >= 2
       PROVE  SubSeq(two, 1, 2) = SubSeq(rev, 1, 2) <=> b[n] = x /\ b[n - 1] = x
  <2>1. <<two[1], two[2]>> = <<rev[1], rev[2]>> <=> two[1] = rev[1] /\ two[2] = rev[2]
    OBVIOUS
  <2> HIDE DEF n
  <2>2. QED
    BY <1>6, <1>7, <1>8, <1>9, <1>10, <2>1
<1>11. QED
  <2> HIDE DEF n
  <2>1. 2 <= n <=> n >= 2
    BY <1>1
  <2>2. IsSuffix(<<x, x>>, b) <=> n >= 2 /\ b[n] = x /\ b[n - 1] = x
    BY <1>5, <1>10, <2>1
  <2>3. QED
    BY <2>2 DEF n

\* The recursive function reads what it says.
ReadBy(h, reader, chunk, n) ==
    /\ h[0] = reader
    /\ \A i \in 1..n : h[i] = Push(h[i - 1], chunk[i])
    /\ Read(reader, chunk) = h[n]

LEMMA Reading ==
    ASSUME NEW reader, NEW chunk, Len(chunk) \in Nat
    PROVE  \E h : ReadBy(h, reader, chunk, Len(chunk))
<1> DEFINE N == Len(chunk)
           Reads(k, f) == f = [i \in 0..k |-> IF i = 0 THEN reader
                                              ELSE Push(f[i - 1], chunk[i])]
           Bad == {k \in 0..N : ~\E f : Reads(k, f)}
<1>1. Bad = {}
  <2>1. SUFFICES ASSUME Bad # {}  PROVE FALSE
    OBVIOUS
  <2>2. Bad \in SUBSET Nat /\ IsFiniteSet(Bad)
    <3>1. IsFiniteSet(0..N) /\ Bad \subseteq 0..N
      BY FS_Interval
    <3>2. IsFiniteSet(Bad)
      BY <3>1, FS_Subset
    <3>3. QED
      BY <3>1, <3>2
  <2>3. PICK k \in Bad : \A y \in Bad : k <= y
    <3> HIDE DEF Bad
    <3>1. QED
      BY <2>1, <2>2, LeastExists
  <2>4. k \in 0..N /\ ~\E f : Reads(k, f)
    OBVIOUS
  <2>5. CASE k = 0
    <3>1. Reads(0, [i \in 0..0 |-> reader])
      OBVIOUS
    <3>2. QED
      BY <2>4, <2>5, <3>1
  <2>6. CASE k # 0
    <3>1. k - 1 \in 0..N /\ k - 1 < k
      BY <2>4, <2>6
    <3>2. k - 1 \notin Bad
      <4>1. ~(k <= k - 1)
        BY <2>4
      <4> HIDE DEF Bad
      <4>2. QED
        BY <2>3, <4>1
    <3>3. PICK f : Reads(k - 1, f)
      BY <3>1, <3>2
    <3> DEFINE g == [i \in 0..k |-> IF i = k THEN Push(f[k - 1], chunk[k]) ELSE f[i]]
    <3>4. ASSUME NEW i \in 0..k
          PROVE  g[i] = IF i = 0 THEN reader ELSE Push(g[i - 1], chunk[i])
      <4>1. CASE i = k
        <5>1. g[k] = Push(f[k - 1], chunk[k]) /\ k - 1 \in 0..k /\ k - 1 # k
          BY <2>4, <2>6
        <5>2. g[k - 1] = f[k - 1]
          BY <5>1
        <5>3. QED
          BY <2>6, <4>1, <5>1, <5>2
      <4>2. CASE i # k
        <5>1. i \in 0..(k - 1) /\ g[i] = f[i]
          BY <2>4, <4>2
        <5>2. f[i] = IF i = 0 THEN reader ELSE Push(f[i - 1], chunk[i])
          BY <3>3, <5>1
        <5>3. i # 0 => i - 1 \in 0..k /\ i - 1 # k
          BY <2>4, <5>1
        <5>4. i # 0 => g[i - 1] = f[i - 1]
          BY <5>3
        <5>5. QED
          BY <5>1, <5>2, <5>4
      <4>3. QED
        BY <4>1, <4>2
    <3>5. Reads(k, g)
      <4>1. DOMAIN g = 0..k
        OBVIOUS
      <4>2. g = [i \in 0..k |-> g[i]]
        OBVIOUS
      <4> HIDE DEF g
      <4>3. QED
        BY <3>4, <4>2
    <3>6. QED
      BY <2>4, <3>5
  <2>7. QED
    BY <2>5, <2>6
<1> DEFINE read == CHOOSE f : Reads(N, f)
<1>2. Reads(N, read)
  <2>1. N \in 0..N
    OBVIOUS
  <2>2. \E f : Reads(N, f)
    BY <1>1, <2>1
  <2> HIDE DEF Reads
  <2>3. QED
    BY <2>2
<1>3. Read(reader, chunk) = read[N]
  BY DEF Read
<1>4. read[0] = reader /\ \A i \in 1..N : read[i] = Push(read[i - 1], chunk[i])
  <2> HIDE DEF read
  <2>1. QED
    BY <1>2
<1>5. QED
  BY <1>3, <1>4 DEF ReadBy

\* What the parser has read after each token of a tape.
Readers(h, tape, n) ==
    h[0] = Fresh /\ \A i \in 1..n : h[i] = Push(h[i - 1], tape[i])

\* Two chunks are read as one.
LEMMA TwoChunks ==
    ASSUME NEW S, NEW tape \in Seq(S), NEW length \in 0..Len(tape), NEW split \in 0..length
    PROVE  \E h : /\ Readers(h, tape, length)
                  /\ Read(Read(Fresh, SubSeq(tape, 1, split)),
                          SubSeq(tape, split + 1, length)) = h[length]
<1> DEFINE first == SubSeq(tape, 1, split)
           rest == SubSeq(tape, split + 1, length)
<1>1. length \in Nat /\ split \in Nat /\ split <= length /\ length <= Len(tape)
  OBVIOUS
<1>2. Len(first) = split /\ \A i \in 1..split : first[i] = tape[i]
  <2>1. \A i \in 1..split : tape[i] \in S
    BY <1>1
  <2>2. /\ Len(first) = IF 1 <= split THEN (split - 1) + 1 ELSE 0
        /\ \A i \in 1..((split - 1) + 1) : first[i] = tape[(1 + i) - 1]
    BY <1>1, <2>1, SubSeqProperties
  <2>3. ASSUME NEW i \in 1..split  PROVE i \in 1..((split - 1) + 1) /\ (1 + i) - 1 = i
    BY <1>1
  <2> HIDE DEF first
  <2>4. Len(first) = split
    BY <1>1, <2>2
  <2>5. ASSUME NEW i \in 1..split  PROVE first[i] = tape[i]
    <3>1. first[i] = tape[(1 + i) - 1]
      BY <2>2, <2>3
    <3>2. QED
      BY <2>3, <3>1
  <2>6. QED
    BY <2>4, <2>5
<1>3. /\ Len(rest) = length - split
      /\ \A i \in 1..(length - split) : rest[i] = tape[split + i]
  <2>1. \A i \in (split + 1)..length : tape[i] \in S
    BY <1>1
  <2>2. /\ Len(rest) = IF split + 1 <= length THEN (length - (split + 1)) + 1 ELSE 0
        /\ \A i \in 1..((length - (split + 1)) + 1) : rest[i] = tape[((split + 1) + i) - 1]
    BY <1>1, <2>1, SubSeqProperties
  <2>3. ASSUME NEW i \in 1..(length - split)
        PROVE  i \in 1..((length - (split + 1)) + 1) /\ ((split + 1) + i) - 1 = split + i
    BY <1>1
  <2> HIDE DEF rest
  <2>4. Len(rest) = length - split
    BY <1>1, <2>2
  <2>5. ASSUME NEW i \in 1..(length - split)  PROVE rest[i] = tape[split + i]
    <3>1. rest[i] = tape[((split + 1) + i) - 1]
      BY <2>2, <2>3
    <3>2. QED
      BY <2>3, <3>1
  <2>6. QED
    BY <2>4, <2>5
<1> HIDE DEF first, rest
<1>4. PICK f : /\ f[0] = Fresh
               /\ \A i \in 1..split : f[i] = Push(f[i - 1], first[i])
               /\ Read(Fresh, first) = f[split]
  <2>1. \E f : ReadBy(f, Fresh, first, Len(first))
    BY <1>1, <1>2, Reading
  <2>2. \E f : ReadBy(f, Fresh, first, split)
    BY <1>2, <2>1
  <2>3. QED
    BY <2>2 DEF ReadBy
<1>5. PICK g : /\ g[0] = f[split]
               /\ \A i \in 1..(length - split) : g[i] = Push(g[i - 1], rest[i])
               /\ Read(f[split], rest) = g[length - split]
  <2>1. Len(rest) \in Nat
    BY <1>1, <1>3
  <2>2. \E g : ReadBy(g, f[split], rest, Len(rest))
    BY <2>1, Reading
  <2>3. \E g : ReadBy(g, f[split], rest, length - split)
    BY <1>3, <2>2
  <2>4. QED
    BY <2>3 DEF ReadBy
<1> DEFINE h == [i \in 0..length |-> IF i <= split THEN f[i] ELSE g[i - split]]
<1>6. h[0] = Fresh /\ h[length] = g[length - split]
  <2>1. 0 \in 0..length /\ 0 <= split /\ length \in 0..length
    BY <1>1
  <2>2. h[0] = Fresh
    BY <1>4, <2>1
  <2>3. CASE length = split
    <3>1. length <= split /\ length - split = 0
      BY <1>1, <2>3
    <3>2. QED
      BY <1>5, <2>1, <2>2, <2>3, <3>1
  <2>4. CASE length # split
    <3>1. ~(length <= split)
      BY <1>1, <2>4
    <3>2. QED
      BY <2>1, <2>2, <3>1
  <2>5. QED
    BY <2>3, <2>4
<1>7. ASSUME NEW i \in 1..length  PROVE h[i] = Push(h[i - 1], tape[i])
  <2>1. i \in 0..length /\ i - 1 \in 0..length
    BY <1>1
  <2>2. CASE i <= split
    <3>1. i \in 1..split /\ i - 1 <= split
      BY <1>1, <2>2
    <3>2. QED
      BY <1>2, <1>4, <2>1, <2>2, <3>1
  <2>3. CASE i = split + 1
    <3>1. ~(i <= split) /\ i - 1 <= split /\ i - 1 = split /\ i - split = 1
          /\ 1 \in 1..(length - split) /\ 1 - 1 = 0 /\ split + 1 = i
      BY <1>1, <2>3
    <3>2. h[i] = g[1] /\ h[i - 1] = f[split]
      BY <2>1, <3>1
    <3>3. g[1] = Push(g[1 - 1], rest[1]) /\ rest[1] = tape[split + 1]
      BY <1>3, <1>5, <3>1
    <3> HIDE DEF h
    <3>4. QED
      BY <1>5, <3>1, <3>2, <3>3
  <2>4. CASE i > split + 1
    <3> DEFINE k == i - split
    <3>1. ~(i <= split) /\ ~(i - 1 <= split) /\ (i - 1) - split = k - 1
          /\ k \in 1..(length - split) /\ split + k = i
      BY <1>1, <2>4
    <3>2. h[i] = g[k] /\ h[i - 1] = g[k - 1]
      BY <2>1, <3>1
    <3> HIDE DEF h, k
    <3>3. g[k] = Push(g[k - 1], rest[k]) /\ rest[k] = tape[split + k]
      BY <1>3, <1>5, <3>1
    <3>4. QED
      BY <3>1, <3>2, <3>3
  <2>5. QED
    BY <1>1, <2>2, <2>3, <2>4
<1> HIDE DEF h
<1>8. Read(Read(Fresh, first), rest) = h[length]
  BY <1>4, <1>5, <1>6
<1>9. Readers(h, tape, length)
  BY <1>6, <1>7 DEF Readers
<1>10. QED
  BY <1>8, <1>9 DEF first, rest

-----------------------------------------------------------------------------

\* A reader that is in the middle of the answer.
Alive(buffer, text) == [buffer |-> buffer, text |-> text, terminal |-> FALSE, failed |-> FALSE]

LEMMA AliveIs ==
    ASSUME NEW b, NEW text, NEW x
    PROVE  /\ Alive(b, text).buffer = b
           /\ Alive(b, text).text = text
           /\ ~Alive(b, text).terminal
           /\ ~Alive(b, text).failed
           /\ [Alive(b, text) EXCEPT !.buffer = x] = Alive(x, text)
           /\ [Alive(b, text) EXCEPT !.text = x] = Alive(b, x)
<1> DEFINE R == [buffer : {b, x}, text : {text, x}, terminal : BOOLEAN, failed : BOOLEAN]
           r == Alive(b, text)
<1>1. /\ Alive(b, text) \in R /\ Alive(x, text) \in R /\ Alive(b, x) \in R
      /\ \A u, v : /\ Alive(u, v).buffer = u /\ Alive(u, v).text = v
                   /\ ~Alive(u, v).terminal /\ ~Alive(u, v).failed
                   /\ Alive(u, v).terminal = r.terminal /\ Alive(u, v).failed = r.failed
  BY DEF Alive
<1>2. ASSUME NEW p \in R, NEW q \in R,
             p.buffer = q.buffer, p.text = q.text, p.terminal = q.terminal,
             p.failed = q.failed
      PROVE  p = q
  BY <1>2
<1> DEFINE e == [r EXCEPT !.buffer = x]
           f == [r EXCEPT !.text = x]
<1>3. /\ e \in R /\ e.buffer = x /\ e.text = r.text
      /\ e.terminal = r.terminal /\ e.failed = r.failed
  <2> HIDE DEF r
  <2>1. QED
    BY <1>1 DEF r
<1>4. /\ f \in R /\ f.buffer = r.buffer /\ f.text = x
      /\ f.terminal = r.terminal /\ f.failed = r.failed
  <2> HIDE DEF r
  <2>1. QED
    BY <1>1 DEF r
<1> HIDE DEF e, f, R
<1>5. e = Alive(x, text)
  <2> DEFINE q == Alive(x, text)
  <2>1. e \in R /\ q \in R /\ e.buffer = q.buffer /\ e.text = q.text
    BY <1>1, <1>3
  <2>2. e.terminal = q.terminal /\ e.failed = q.failed
    <3> HIDE DEF r
    <3>1. QED
      BY <1>1, <1>3
  <2> HIDE DEF q
  <2>3. QED
    BY <1>2, <2>1, <2>2 DEF q
<1>6. f = Alive(b, x)
  <2> DEFINE q == Alive(b, x)
  <2>1. f \in R /\ q \in R /\ f.buffer = q.buffer /\ f.text = q.text
    BY <1>1, <1>4
  <2>2. f.terminal = q.terminal /\ f.failed = q.failed
    <3> HIDE DEF r
    <3>1. QED
      BY <1>1, <1>4
  <2> HIDE DEF q
  <2>3. QED
    BY <1>2, <2>1, <2>2 DEF q
<1>7. QED
  BY <1>1, <1>5, <1>6 DEF e, f

LEMMA PushOn ==
    ASSUME NEW S, NEW b \in Seq(S), NEW token \in S, NEW text,
           ~(Len(b) >= 1 /\ b[Len(b)] = Break /\ token = Break)
    PROVE  Push(Alive(b, text), token) = Alive(Append(b, token), text)
<1> DEFINE B == Append(b, token)
<1>1. B \in Seq(S) /\ Len(B) = Len(b) + 1 /\ B[Len(b) + 1] = token
      /\ \A i \in 1..Len(b) : B[i] = b[i]
  BY AppendProperties
<1>2. Len(b) \in Nat /\ (Len(b) + 1) - 1 = Len(b)
      /\ (Len(b) + 1 >= 2 => Len(b) >= 1 /\ Len(b) \in 1..Len(b))
  OBVIOUS
<1> HIDE DEF B
<1>3. ~IsSuffix(<<Break, Break>>, B)
  <2>1. IsSuffix(<<Break, Break>>, B) =>
          Len(B) >= 2 /\ B[Len(B)] = Break /\ B[Len(B) - 1] = Break
    BY <1>1, EndsInBreaks
  <2>2. QED
    BY <1>1, <1>2, <2>1
<1> DEFINE r == Alive(b, text)
<1>4. r.buffer = b /\ ~r.failed /\ [r EXCEPT !.buffer = B] = Alive(B, text)
  BY AliveIs
<1> HIDE DEF r
<1>5. Push(r, token) = [r EXCEPT !.buffer = B]
  BY <1>3, <1>4 DEF Push, B
<1>6. QED
  BY <1>4, <1>5 DEF B, r

LEMMA PushEnd ==
    ASSUME NEW S, NEW b \in Seq(S), Break \in S, NEW text,
           Len(b) >= 1, b[Len(b)] = Break
    PROVE  Push(Alive(b, text), Break)
             = [ParseFrame(Alive(b, text), Append(b, Break)) EXCEPT !.buffer = <<>>]
<1> DEFINE B == Append(b, Break)
<1>1. B \in Seq(S) /\ Len(B) = Len(b) + 1 /\ B[Len(b) + 1] = Break
      /\ \A i \in 1..Len(b) : B[i] = b[i]
  BY AppendProperties
<1>2. Len(b) \in Nat /\ (Len(b) + 1) - 1 = Len(b)
      /\ Len(b) + 1 >= 2 /\ Len(b) \in 1..Len(b)
  OBVIOUS
<1> HIDE DEF B
<1>3. IsSuffix(<<Break, Break>>, B)
  <2>1. Len(B) >= 2 /\ B[Len(B)] = Break /\ B[Len(B) - 1] = Break
    BY <1>1, <1>2
  <2>2. QED
    BY <1>1, <2>1, EndsInBreaks
<1> DEFINE r == Alive(b, text)
<1>4. r.buffer = b /\ ~r.failed
  BY AliveIs
<1> HIDE DEF r
<1>5. Push(r, Break) = [ParseFrame(r, B) EXCEPT !.buffer = <<>>]
  BY <1>3, <1>4 DEF Push, B
<1>6. QED
  BY <1>5 DEF r, B

\* What an event does to a reader in the middle of the answer.
LEMMA Applied ==
    ASSUME NEW b, NEW text, NEW t
    PROVE  /\ ApplyEvent(Alive(b, text), "stage", t) = Alive(b, text)
           /\ ApplyEvent(Alive(b, text), "text", t) = Alive(b, text \o t)
           /\ LET r == ApplyEvent(Alive(b, text), "error", t) IN r.failed /\ ~r.terminal
           /\ LET r == ApplyEvent(Alive(b, text), "failure", t) IN
              ~r.failed /\ r.terminal /\ r.text = t
           /\ LET r == ApplyEvent(Alive(b, text), "final", t) IN
              ~r.failed /\ r.terminal /\ r.text = text
<1> DEFINE r == Alive(b, text)
<1>1. /\ r.buffer = b /\ r.text = text /\ ~r.terminal /\ ~r.failed
      /\ [r EXCEPT !.text = text \o t] = Alive(b, text \o t)
  <2> DEFINE x == text \o t
  <2> HIDE DEF x
  <2>1. /\ r.buffer = b /\ r.text = text /\ ~r.terminal /\ ~r.failed
        /\ [r EXCEPT !.text = x] = Alive(b, x)
    BY AliveIs
  <2>2. QED
    BY <2>1 DEF x
<1>2. r = [buffer |-> b, text |-> text, terminal |-> FALSE, failed |-> FALSE]
  BY DEF Alive
<1>3. ApplyEvent(r, "stage", t) = r
  <2> HIDE DEF r
  <2>1. QED
    BY DEF ApplyEvent
<1>4. ApplyEvent(r, "text", t) = [r EXCEPT !.text = r.text \o t]
  <2> HIDE DEF r
  <2>1. QED
    BY DEF ApplyEvent
<1>5. LET p == ApplyEvent(r, "error", t) IN p.failed /\ ~p.terminal
  <2> HIDE DEF r
  <2>1. ApplyEvent(r, "error", t) = [r EXCEPT !.failed = TRUE]
    BY DEF ApplyEvent, Failed
  <2>2. QED
    BY <1>2, <2>1
<1>6. LET p == ApplyEvent(r, "failure", t) IN ~p.failed /\ p.terminal /\ p.text = t
  <2> HIDE DEF r
  <2>1. ApplyEvent(r, "failure", t) = [r EXCEPT !.text = t, !.terminal = TRUE]
    BY DEF ApplyEvent
  <2>2. QED
    BY <1>2, <2>1
<1>7. LET p == ApplyEvent(r, "final", t) IN ~p.failed /\ p.terminal /\ p.text = text
  <2> HIDE DEF r
  <2>1. ApplyEvent(r, "final", t) = [r EXCEPT !.terminal = TRUE]
    BY DEF ApplyEvent
  <2>2. QED
    BY <1>2, <2>1
<1>8. QED
  BY <1>1, <1>3, <1>4, <1>5, <1>6, <1>7

LEMMA Appended2 ==
    ASSUME NEW S, NEW e \in S, NEW o \in S
    PROVE  /\ <<e>> \in Seq(S) /\ Len(<<e>>) = 1 /\ <<e>>[1] = e
           /\ Append(<<e>>, o) = <<e, o>>
<1> DEFINE b == <<e>>
           t == <<e, o>>
<1>1. b \in Seq(S) /\ Len(b) = 1 /\ b[1] = e
  OBVIOUS
<1>2. t \in Seq(S) /\ Len(t) = 2 /\ t[1] = e /\ t[2] = o
  OBVIOUS
<1> DEFINE q == Append(b, o)
<1>3. q \in Seq(S) /\ Len(q) = 2 /\ q[2] = o /\ \A i \in 1..1 : q[i] = b[i]
  <2> HIDE DEF b
  <2>1. b \in Seq(S)
    BY <1>1
  <2>2. q \in Seq(S) /\ Len(q) = Len(b) + 1 /\ q[Len(b) + 1] = o
        /\ \A i \in 1..Len(b) : q[i] = b[i]
    BY <2>1, AppendProperties
  <2> HIDE DEF q
  <2>3. QED
    BY <1>1, <2>2
<1> HIDE DEF b, t, q
<1>4. \A i \in 1..Len(q) : q[i] = t[i]
  BY <1>1, <1>2, <1>3
<1>5. q = t
  BY <1>2, <1>3, <1>4, SeqEqual
<1>6. QED
  BY <1>1, <1>5 DEF b, q, t

LEMMA Appended3 ==
    ASSUME NEW S, NEW e \in S, NEW o \in S, NEW c \in S
    PROVE  /\ <<e, o>> \in Seq(S) /\ Len(<<e, o>>) = 2 /\ <<e, o>>[2] = o
           /\ Append(<<e, o>>, c) = <<e, o, c>>
<1> DEFINE b == <<e, o>>
           t == <<e, o, c>>
<1>1. b \in Seq(S) /\ Len(b) = 2 /\ b[1] = e /\ b[2] = o
  OBVIOUS
<1>2. t \in Seq(S) /\ Len(t) = 3 /\ t[1] = e /\ t[2] = o /\ t[3] = c
  OBVIOUS
<1> DEFINE q == Append(b, c)
<1>3. q \in Seq(S) /\ Len(q) = 3 /\ q[3] = c /\ \A i \in 1..2 : q[i] = b[i]
  <2> HIDE DEF b
  <2>1. b \in Seq(S)
    BY <1>1
  <2>2. q \in Seq(S) /\ Len(q) = Len(b) + 1 /\ q[Len(b) + 1] = c
        /\ \A i \in 1..Len(b) : q[i] = b[i]
    BY <2>1, AppendProperties
  <2> HIDE DEF q
  <2>3. QED
    BY <1>1, <2>2
<1> HIDE DEF b, t, q
<1>4. \A i \in 1..Len(q) : q[i] = t[i]
  BY <1>1, <1>2, <1>3
<1>5. q = t
  BY <1>2, <1>3, <1>4, SeqEqual
<1>6. QED
  BY <1>1, <1>5 DEF b, q, t

LEMMA Appended4 ==
    ASSUME NEW S, NEW e \in S, NEW o \in S, NEW c \in S, NEW d \in S
    PROVE  /\ <<e, o, c>> \in Seq(S) /\ Len(<<e, o, c>>) = 3 /\ <<e, o, c>>[3] = c
           /\ Append(<<e, o, c>>, d) = <<e, o, c, d>>
<1> DEFINE b == <<e, o, c>>
           t == <<e, o, c, d>>
<1>1. b \in Seq(S) /\ Len(b) = 3 /\ b[1] = e /\ b[2] = o /\ b[3] = c
  OBVIOUS
<1>2. t \in Seq(S) /\ Len(t) = 4 /\ t[1] = e /\ t[2] = o /\ t[3] = c /\ t[4] = d
  OBVIOUS
<1> DEFINE q == Append(b, d)
<1>3. q \in Seq(S) /\ Len(q) = 4 /\ q[4] = d /\ \A i \in 1..3 : q[i] = b[i]
  <2> HIDE DEF b
  <2>1. b \in Seq(S)
    BY <1>1
  <2>2. q \in Seq(S) /\ Len(q) = Len(b) + 1 /\ q[Len(b) + 1] = d
        /\ \A i \in 1..Len(b) : q[i] = b[i]
    BY <2>1, AppendProperties
  <2> HIDE DEF q
  <2>3. QED
    BY <1>1, <2>2
<1> HIDE DEF b, t, q
<1>4. \A i \in 1..Len(q) : q[i] = t[i]
  BY <1>1, <1>2, <1>3
<1>5. q = t
  BY <1>2, <1>3, <1>4, SeqEqual
<1>6. QED
  BY <1>1, <1>5 DEF b, q, t

LEMMA Appended5 ==
    ASSUME NEW S, NEW e \in S, NEW o \in S, NEW c \in S, NEW d \in S, NEW f \in S
    PROVE  /\ <<e, o, c, d>> \in Seq(S) /\ Len(<<e, o, c, d>>) = 4 /\ <<e, o, c, d>>[4] = d
           /\ Append(<<e, o, c, d>>, f) = <<e, o, c, d, f>>
<1> DEFINE b == <<e, o, c, d>>
           t == <<e, o, c, d, f>>
<1>1. b \in Seq(S) /\ Len(b) = 4 /\ b[1] = e /\ b[2] = o /\ b[3] = c /\ b[4] = d
  OBVIOUS
<1>2. t \in Seq(S) /\ Len(t) = 5 /\ t[1] = e /\ t[2] = o /\ t[3] = c /\ t[4] = d /\ t[5] = f
  OBVIOUS
<1> DEFINE q == Append(b, f)
<1>3. q \in Seq(S) /\ Len(q) = 5 /\ q[5] = f /\ \A i \in 1..4 : q[i] = b[i]
  <2> HIDE DEF b
  <2>1. b \in Seq(S)
    BY <1>1
  <2>2. q \in Seq(S) /\ Len(q) = Len(b) + 1 /\ q[Len(b) + 1] = f
        /\ \A i \in 1..Len(b) : q[i] = b[i]
    BY <2>1, AppendProperties
  <2> HIDE DEF q
  <2>3. QED
    BY <1>1, <2>2
<1> HIDE DEF b, t, q
<1>4. \A i \in 1..Len(q) : q[i] = t[i]
  BY <1>1, <1>2, <1>3
<1>5. q = t
  BY <1>2, <1>3, <1>4, SeqEqual
<1>6. QED
  BY <1>1, <1>5 DEF b, q, t

\* The parser after each token of a frame.
LEMMA FramePushed ==
    ASSUME NEW frame, NEW text
    PROVE  LET s == Serialized(frame) IN
           /\ Push(Alive(<<>>, text), s[1]) = Alive(<<s[1]>>, text)
           /\ Push(Alive(<<s[1]>>, text), s[2]) = Alive(<<s[1], s[2]>>, text)
           /\ Push(Alive(<<s[1], s[2]>>, text), s[3]) = Alive(<<s[1], s[2], s[3]>>, text)
           /\ Push(Alive(<<s[1], s[2], s[3]>>, text), s[4])
                = Alive(<<s[1], s[2], s[3], s[4]>>, text)
           /\ Push(Alive(<<s[1], s[2], s[3], s[4]>>, text), s[5])
                = [ParseFrame(Alive(<<s[1], s[2], s[3], s[4]>>, text),
                              <<s[1], s[2], s[3], s[4], s[5]>>) EXCEPT !.buffer = <<>>]
<1> DEFINE e == [part |-> "event", frame |-> frame]
           o == [part |-> "open", frame |-> frame]
           c == [part |-> "close", frame |-> frame]
           S == {e, o, c, Break}
<1>1. Serialized(frame) = <<e, o, c, Break, Break>>
  BY DEF Serialized
<1>2. e # Break /\ o # Break /\ c # Break
  <2>1. e.part = "event" /\ o.part = "open" /\ c.part = "close" /\ Break.part = "break"
    BY DEF Break
  <2> HIDE DEF e, o, c
  <2>2. QED
    BY <2>1
<1>3. e \in S /\ o \in S /\ c \in S /\ Break \in S
  OBVIOUS
<1> HIDE DEF e, o, c, S
<1>4. Push(Alive(<<>>, text), e) = Alive(<<e>>, text)
  <2> DEFINE b == <<>>
  <2>1. b \in Seq(S) /\ Append(b, e) = <<e>> /\ ~(Len(b) >= 1)
    <3>1. <<>> \in Seq(S) /\ Append(<<>>, e) = <<e>>
      OBVIOUS
    <3>2. ~(Len(<<>>) >= 1)
      OBVIOUS
    <3>3. QED
      BY <3>1, <3>2
  <2> HIDE DEF b
  <2>2. Push(Alive(b, text), e) = Alive(Append(b, e), text)
    BY <1>3, <2>1, PushOn
  <2>3. QED
    BY <2>1, <2>2 DEF b
<1>5. Push(Alive(<<e>>, text), o) = Alive(<<e, o>>, text)
  <2> DEFINE b == <<e>>
  <2>1. b \in Seq(S) /\ Append(b, o) = <<e, o>> /\ b[Len(b)] = e
    BY <1>3, Appended2
  <2> HIDE DEF b
  <2>2. Push(Alive(b, text), o) = Alive(Append(b, o), text)
    BY <1>2, <1>3, <2>1, PushOn
  <2>3. QED
    BY <2>1, <2>2 DEF b
<1>6. Push(Alive(<<e, o>>, text), c) = Alive(<<e, o, c>>, text)
  <2> DEFINE b == <<e, o>>
  <2>1. b \in Seq(S) /\ Append(b, c) = <<e, o, c>> /\ b[Len(b)] = o
    BY <1>3, Appended3
  <2> HIDE DEF b
  <2>2. Push(Alive(b, text), c) = Alive(Append(b, c), text)
    BY <1>2, <1>3, <2>1, PushOn
  <2>3. QED
    BY <2>1, <2>2 DEF b
<1>7. Push(Alive(<<e, o, c>>, text), Break) = Alive(<<e, o, c, Break>>, text)
  <2> DEFINE b == <<e, o, c>>
  <2>1. b \in Seq(S) /\ Append(b, Break) = <<e, o, c, Break>> /\ b[Len(b)] = c
    BY <1>3, Appended4
  <2> HIDE DEF b
  <2>2. Push(Alive(b, text), Break) = Alive(Append(b, Break), text)
    BY <1>2, <1>3, <2>1, PushOn
  <2>3. QED
    BY <2>1, <2>2 DEF b
<1>8. Push(Alive(<<e, o, c, Break>>, text), Break)
        = [ParseFrame(Alive(<<e, o, c, Break>>, text), <<e, o, c, Break, Break>>)
             EXCEPT !.buffer = <<>>]
  <2> DEFINE b == <<e, o, c, Break>>
  <2>1. b \in Seq(S) /\ Append(b, Break) = <<e, o, c, Break, Break>>
        /\ Len(b) >= 1 /\ b[Len(b)] = Break
    BY <1>3, Appended5
  <2> HIDE DEF b
  <2>2. Push(Alive(b, text), Break)
          = [ParseFrame(Alive(b, text), Append(b, Break)) EXCEPT !.buffer = <<>>]
    BY <1>3, <2>1, PushEnd
  <2>3. QED
    BY <2>1, <2>2 DEF b
<1> DEFINE s == Serialized(frame)
<1>9. s[1] = e /\ s[2] = o /\ s[3] = c /\ s[4] = Break /\ s[5] = Break
  BY <1>1
<1> HIDE DEF s
<1>10. QED
  BY <1>4, <1>5, <1>6, <1>7, <1>8, <1>9 DEF s

\* What is parsed of the first tokens of a frame.
LEMMA FrameParsed ==
    ASSUME NEW frame, NEW r
    PROVE  LET s == Serialized(frame) IN
           /\ ParseFrame(r, <<>>) = r
           /\ ParseFrame(r, <<s[1]>>) = r
           /\ ParseFrame(r, <<s[1], s[2]>>) = Failed(r)
           /\ ParseFrame(r, <<s[1], s[2], s[3]>>) = ApplyEvent(r, frame.event, frame.text)
           /\ ParseFrame(r, <<s[1], s[2], s[3], s[4]>>)
                = ApplyEvent(r, frame.event, frame.text)
           /\ ParseFrame(r, <<s[1], s[2], s[3], s[4], s[5]>>)
                = ApplyEvent(r, frame.event, frame.text)
<1> DEFINE s == Serialized(frame)
<1>1. /\ s[1].part = "event" /\ s[2].part = "open" /\ s[3].part = "close"
      /\ s[4].part = "break" /\ s[5].part = "break"
      /\ s[1].frame = frame /\ s[2].frame = frame
  BY DEF Serialized, Break
<1> HIDE DEF s
<1>2. ParseFrame(r, <<>>) = r
  <2>1. ~\E i \in DOMAIN <<>> : <<>>[i].part = "open"
    OBVIOUS
  <2>2. QED
    BY <2>1 DEF ParseFrame
<1>3. ParseFrame(r, <<s[1]>>) = r
  <2> DEFINE f == <<s[1]>>
  <2>1. DOMAIN f = 1..1 /\ f[1] = s[1]
    OBVIOUS
  <2> HIDE DEF f
  <2>2. ~\E i \in DOMAIN f : f[i].part = "open"
    BY <1>1, <2>1
  <2>3. ParseFrame(r, f) = r
    BY <2>2 DEF ParseFrame
  <2>4. QED
    BY <2>3 DEF f
<1>4. ParseFrame(r, <<s[1], s[2]>>) = Failed(r)
  <2> DEFINE f == <<s[1], s[2]>>
  <2>1. DOMAIN f = 1..2 /\ f[1] = s[1] /\ f[2] = s[2]
    OBVIOUS
  <2> HIDE DEF f
  <2>2. /\ \E i \in DOMAIN f : f[i].part = "open"
        /\ ~\E i \in DOMAIN f : f[i].part = "close"
    BY <1>1, <2>1
  <2>3. ParseFrame(r, f) = Failed(r)
    BY <2>2 DEF ParseFrame
  <2>4. QED
    BY <2>3 DEF f
<1>5. ASSUME NEW f, {1, 2, 3} \subseteq DOMAIN f,
             f[1] = s[1], f[2] = s[2], f[3] = s[3]
      PROVE  ParseFrame(r, f) = ApplyEvent(r, frame.event, frame.text)
  <2>1. /\ \E i \in DOMAIN f : f[i].part = "open"
        /\ \E i \in DOMAIN f : f[i].part = "close"
        /\ f[1].frame = frame /\ f[2].frame = frame
    BY <1>1, <1>5
  <2>2. ParseFrame(r, f) = ApplyEvent(r, f[1].frame.event, f[2].frame.text)
    BY <2>1 DEF ParseFrame
  <2>3. QED
    BY <2>1, <2>2
<1>6. ParseFrame(r, <<s[1], s[2], s[3]>>) = ApplyEvent(r, frame.event, frame.text)
  <2> DEFINE f == <<s[1], s[2], s[3]>>
  <2>1. {1, 2, 3} \subseteq DOMAIN f /\ f[1] = s[1] /\ f[2] = s[2] /\ f[3] = s[3]
    OBVIOUS
  <2> HIDE DEF f
  <2>2. ParseFrame(r, f) = ApplyEvent(r, frame.event, frame.text)
    BY <1>5, <2>1
  <2>3. QED
    BY <2>2 DEF f
<1>7. ParseFrame(r, <<s[1], s[2], s[3], s[4]>>) = ApplyEvent(r, frame.event, frame.text)
  <2> DEFINE f == <<s[1], s[2], s[3], s[4]>>
  <2>1. {1, 2, 3} \subseteq DOMAIN f /\ f[1] = s[1] /\ f[2] = s[2] /\ f[3] = s[3]
    OBVIOUS
  <2> HIDE DEF f
  <2>2. ParseFrame(r, f) = ApplyEvent(r, frame.event, frame.text)
    BY <1>5, <2>1
  <2>3. QED
    BY <2>2 DEF f
<1>8. ParseFrame(r, <<s[1], s[2], s[3], s[4], s[5]>>) = ApplyEvent(r, frame.event, frame.text)
  <2> DEFINE f == <<s[1], s[2], s[3], s[4], s[5]>>
  <2>1. {1, 2, 3} \subseteq DOMAIN f /\ f[1] = s[1] /\ f[2] = s[2] /\ f[3] = s[3]
    OBVIOUS
  <2> HIDE DEF f
  <2>2. ParseFrame(r, f) = ApplyEvent(r, frame.event, frame.text)
    BY <1>5, <2>1
  <2>3. QED
    BY <2>2 DEF f
<1>9. QED
  BY <1>2, <1>3, <1>4, <1>6, <1>7, <1>8 DEF s

Events == {"stage", "text", "error", "failure", "final"}

\* The stream was cut before the frame was there, or just before its end.
CutIn(r, frame, text) ==
    \/ Finish(r).failed
    \/ frame.event = "failure" /\ Finish(r).text = frame.text
    \/ frame.event = "final" /\ Finish(r).text = text

\* The frame was read.
Beyond(r, frame, text) ==
    /\ frame.event = "stage" => r = Alive(<<>>, text)
    /\ frame.event = "text" => r = Alive(<<>>, text \o frame.text)
    /\ frame.event = "error" => Finish(r).failed
    /\ frame.event = "failure" => ~Finish(r).failed /\ Finish(r).text = frame.text
    /\ frame.event = "final" => ~Finish(r).failed /\ Finish(r).text = text

\* The stream was cut after a token of the frame.
LEMMA FrameCut ==
    ASSUME NEW frame, frame.event \in Events, NEW text
    PROVE  LET s == Serialized(frame) IN
           /\ CutIn(Alive(<<>>, text), frame, text)
           /\ CutIn(Alive(<<s[1]>>, text), frame, text)
           /\ CutIn(Alive(<<s[1], s[2]>>, text), frame, text)
           /\ CutIn(Alive(<<s[1], s[2], s[3]>>, text), frame, text)
           /\ CutIn(Alive(<<s[1], s[2], s[3], s[4]>>, text), frame, text)
<1> DEFINE s == Serialized(frame)
<1>1. ASSUME NEW b  PROVE Failed(Alive(b, text)).failed /\ ~Failed(Alive(b, text)).terminal
  BY DEF Alive, Failed
<1>2. ASSUME NEW b, ParseFrame(Alive(b, text), b) = Alive(b, text)
      PROVE  CutIn(Alive(b, text), frame, text)
  <2> DEFINE r == Alive(b, text)
  <2>1. r.buffer = b /\ ~r.terminal
    BY AliveIs
  <2>2. Failed(r).failed
    BY <1>1
  <2>3. ParseFrame(r, b) = r
    BY <1>2
  <2> HIDE DEF r
  <2>4. Finish(r) = Failed(r)
    BY <2>1, <2>3 DEF Finish
  <2>5. CutIn(r, frame, text)
    BY <2>2, <2>4 DEF CutIn
  <2>6. QED
    BY <2>5 DEF r
<1>3. ASSUME NEW b, ParseFrame(Alive(b, text), b) = Failed(Alive(b, text))
      PROVE  CutIn(Alive(b, text), frame, text)
  <2> DEFINE r == Alive(b, text)
             q == Failed(r)
  <2>1. r.buffer = b
    BY AliveIs
  <2>2. q.failed /\ ~q.terminal
    BY <1>1
  <2>3. ParseFrame(r, b) = q
    BY <1>3
  <2>4. Failed(q).failed
    BY DEF Failed, Alive
  <2> HIDE DEF r, q
  <2>5. Finish(r) = Failed(q)
    BY <2>1, <2>2, <2>3 DEF Finish
  <2>6. CutIn(r, frame, text)
    BY <2>4, <2>5 DEF CutIn
  <2>7. QED
    BY <2>6 DEF r
<1>4. ASSUME NEW b,
             ParseFrame(Alive(b, text), b)
               = ApplyEvent(Alive(b, text), frame.event, frame.text)
      PROVE  CutIn(Alive(b, text), frame, text)
  <2> DEFINE r == Alive(b, text)
             q == ParseFrame(r, b)
  <2>1. r.buffer = b
    BY AliveIs
  <2> USE DEF Events
  <2>2. CASE frame.event \in {"stage", "text"}
    <3>1. PICK t : q = Alive(b, t)
      BY <1>4, <2>2, Applied
    <3>2. ~q.terminal /\ Failed(q).failed
      BY <3>1, AliveIs DEF Failed, Alive
    <3> HIDE DEF r, q
    <3>3. Finish(r) = Failed(q)
      BY <2>1, <3>2 DEF Finish, q
    <3>4. CutIn(r, frame, text)
      BY <3>2, <3>3 DEF CutIn
    <3>5. QED
      BY <3>4 DEF r
  <2>3. CASE frame.event = "error"
    <3>1. q = [r EXCEPT !.failed = TRUE]
      <4> HIDE DEF r
      <4>1. QED
        BY <1>4, <2>3 DEF ApplyEvent, Failed, r
    <3>2. ~q.terminal /\ Failed(q).failed
      BY <3>1 DEF Alive, Failed
    <3> HIDE DEF r, q
    <3>3. Finish(r) = Failed(q)
      BY <2>1, <3>2 DEF Finish, q
    <3>4. CutIn(r, frame, text)
      BY <3>2, <3>3 DEF CutIn
    <3>5. QED
      BY <3>4 DEF r
  <2>4. CASE frame.event = "failure"
    <3>1. q.terminal /\ q.text = frame.text
      BY <1>4, <2>4, Applied
    <3> HIDE DEF r, q
    <3>2. Finish(r) = q
      BY <2>1, <3>1 DEF Finish, q
    <3>3. CutIn(r, frame, text)
      BY <2>4, <3>1, <3>2 DEF CutIn
    <3>4. QED
      BY <3>3 DEF r
  <2>5. CASE frame.event = "final"
    <3>1. q.terminal /\ q.text = text
      BY <1>4, <2>5, Applied
    <3> HIDE DEF r, q
    <3>2. Finish(r) = q
      BY <2>1, <3>1 DEF Finish, q
    <3>3. CutIn(r, frame, text)
      BY <2>5, <3>1, <3>2 DEF CutIn
    <3>4. QED
      BY <3>3 DEF r
  <2>6. QED
    BY <2>2, <2>3, <2>4, <2>5
<1>5. QED
  BY <1>2, <1>3, <1>4, FrameParsed

\* The last token of a frame was read.
LEMMA FrameBeyond ==
    ASSUME NEW frame, frame.event \in Events, NEW text
    PROVE  LET s == Serialized(frame) IN
           Beyond(Push(Alive(<<s[1], s[2], s[3], s[4]>>, text), s[5]), frame, text)
<1> DEFINE s == Serialized(frame)
           r == Alive(<<s[1], s[2], s[3], s[4]>>, text)
           q == ApplyEvent(r, frame.event, frame.text)
           p == Push(r, s[5])
<1>1. p = [q EXCEPT !.buffer = <<>>]
  <2> DEFINE b == <<s[1], s[2], s[3], s[4], s[5]>>
  <2>1. p = [ParseFrame(r, b) EXCEPT !.buffer = <<>>]
    BY FramePushed
  <2>2. ParseFrame(r, b) = q
    <3> DEFINE x == r
    <3> HIDE DEF x
    <3>1. ParseFrame(x, b) = ApplyEvent(x, frame.event, frame.text)
      BY FrameParsed
    <3>2. QED
      BY <3>1 DEF x
  <2> HIDE DEF p, q, r, b
  <2>3. QED
    BY <2>1, <2>2
<1>2. ASSUME NEW x  PROVE ParseFrame(x, <<>>) = x
  BY FrameParsed
<1>3. CASE frame.event \in {"stage", "text"}
  <2>1. ASSUME NEW t, q = Alive(<<s[1], s[2], s[3], s[4]>>, t)  PROVE p = Alive(<<>>, t)
    <3> DEFINE b == <<s[1], s[2], s[3], s[4]>>
    <3>1. [Alive(b, t) EXCEPT !.buffer = <<>>] = Alive(<<>>, t)
      BY AliveIs
    <3> HIDE DEF p, q, b
    <3>2. QED
      BY <1>1, <2>1, <3>1 DEF b
  <2>2. frame.event = "stage" => q = Alive(<<s[1], s[2], s[3], s[4]>>, text)
    BY Applied
  <2>3. frame.event = "text" => q = Alive(<<s[1], s[2], s[3], s[4]>>, text \o frame.text)
    BY Applied
  <2> HIDE DEF q, p, r, s
  <2>4. frame.event = "stage" => p = Alive(<<>>, text)
    BY <2>1, <2>2
  <2>5. frame.event = "text" => p = Alive(<<>>, text \o frame.text)
    BY <2>1, <2>3
  <2>6. Beyond(p, frame, text)
    BY <1>3, <2>4, <2>5 DEF Beyond
  <2>7. QED
    BY <2>6 DEF p, r, s
<1>4. CASE frame.event = "error"
  <2>1. q = [r EXCEPT !.failed = TRUE]
    <3> HIDE DEF r
    <3>1. QED
      BY <1>4 DEF ApplyEvent, Failed
  <2>2. p.buffer = <<>> /\ p.failed /\ ~p.terminal /\ Failed(p).failed
    BY <1>1, <2>1 DEF Alive, Failed
  <2> HIDE DEF p, q
  <2>3. Finish(p) = Failed(p)
    BY <1>2, <2>2 DEF Finish
  <2>4. Beyond(p, frame, text)
    BY <1>4, <2>2, <2>3 DEF Beyond
  <2>5. QED
    BY <2>4 DEF p
<1>5. CASE frame.event \in {"failure", "final"}
  <2>1. /\ ~q.failed /\ q.terminal
        /\ frame.event = "failure" => q.text = frame.text
        /\ frame.event = "final" => q.text = text
    <3>1. frame.event = "failure" => ~q.failed /\ q.terminal /\ q.text = frame.text
      BY Applied
    <3>2. frame.event = "final" => ~q.failed /\ q.terminal /\ q.text = text
      BY Applied
    <3> HIDE DEF q
    <3>3. QED
      BY <1>5, <3>1, <3>2
  <2>2. "buffer" \in DOMAIN q /\ q = [q EXCEPT !.failed = q.failed]
    <3>1. q = IF frame.event = "failure" THEN [r EXCEPT !.text = frame.text, !.terminal = TRUE]
                                         ELSE [r EXCEPT !.terminal = TRUE]
      <4> HIDE DEF r
      <4>1. QED
        BY <1>5 DEF ApplyEvent
    <3>2. QED
      BY <3>1 DEF Alive
  <2> HIDE DEF q, p
  <2>3. p.buffer = <<>> /\ p.failed = q.failed /\ p.terminal = q.terminal /\ p.text = q.text
    BY <1>1, <2>2
  <2> HIDE DEF p
  <2>4. Finish(p) = p
    BY <1>2, <2>1, <2>3 DEF Finish
  <2>5. Beyond(p, frame, text)
    BY <1>5, <2>1, <2>3, <2>4 DEF Beyond
  <2>6. QED
    BY <2>5 DEF p
<1>6. QED
  BY <1>3, <1>4, <1>5 DEF Events

\* One frame of a tape.
LEMMA FrameRead ==
    ASSUME NEW h, NEW tape, NEW n \in Nat, Readers(h, tape, n), NEW a \in 0..n,
           NEW frame, frame.event \in Events,
           \A i \in 1..5 : tape[a + i] = Serialized(frame)[i],
           NEW text, h[a] = Alive(<<>>, text)
    PROVE  /\ n < a + 5 => CutIn(h[n], frame, text)
           /\ n >= a + 5 => Beyond(h[a + 5], frame, text)
<1> DEFINE s == Serialized(frame)
<1>1. ASSUME NEW i \in 1..5, a + i <= n  PROVE h[a + i] = Push(h[a + (i - 1)], s[i])
  <2>1. a + i \in 1..n /\ (a + i) - 1 = a + (i - 1)
    BY <1>1
  <2>2. h[a + i] = Push(h[(a + i) - 1], tape[a + i])
    BY <2>1 DEF Readers
  <2>3. QED
    BY <2>1, <2>2
<1>2. a \in Nat /\ a <= n /\ 1 - 1 = 0 /\ 2 - 1 = 1 /\ 3 - 1 = 2 /\ 4 - 1 = 3 /\ 5 - 1 = 4
      /\ a + 0 = a
  OBVIOUS
<1> DEFINE r0 == Alive(<<>>, text)
           r1 == Alive(<<s[1]>>, text)
           r2 == Alive(<<s[1], s[2]>>, text)
           r3 == Alive(<<s[1], s[2], s[3]>>, text)
           r4 == Alive(<<s[1], s[2], s[3], s[4]>>, text)
<1>3. /\ Push(r0, s[1]) = r1 /\ Push(r1, s[2]) = r2 /\ Push(r2, s[3]) = r3 /\ Push(r3, s[4]) = r4
  BY FramePushed
<1>4. /\ CutIn(r0, frame, text) /\ CutIn(r1, frame, text) /\ CutIn(r2, frame, text)
      /\ CutIn(r3, frame, text) /\ CutIn(r4, frame, text)
  BY FrameCut
<1>5. Beyond(Push(r4, s[5]), frame, text)
  BY FrameBeyond
<1>6. h[a] = r0
  OBVIOUS
<1> HIDE DEF s, r0, r1, r2, r3, r4
<1>7. a + 1 <= n => h[a + 1] = r1
  BY <1>1, <1>2, <1>3, <1>6
<1>8. a + 2 <= n => h[a + 2] = r2
  <2>1. a + 2 <= n => a + 1 <= n
    BY <1>2
  <2>2. QED
    BY <1>1, <1>2, <1>3, <1>7, <2>1
<1>9. a + 3 <= n => h[a + 3] = r3
  <2>1. a + 3 <= n => a + 2 <= n
    BY <1>2
  <2>2. QED
    BY <1>1, <1>2, <1>3, <1>8, <2>1
<1>10. a + 4 <= n => h[a + 4] = r4
  <2>1. a + 4 <= n => a + 3 <= n
    BY <1>2
  <2>2. QED
    BY <1>1, <1>2, <1>3, <1>9, <2>1
<1>11. ASSUME n < a + 5  PROVE CutIn(h[n], frame, text)
  <2>1. n = a \/ n = a + 1 \/ n = a + 2 \/ n = a + 3 \/ n = a + 4
    BY <1>2, <1>11
  <2>2. \A k \in {n} : k <= n
    BY <1>2
  <2>3. QED
    BY <1>4, <1>6, <1>7, <1>8, <1>9, <1>10, <2>1, <2>2
<1>12. ASSUME n >= a + 5  PROVE Beyond(h[a + 5], frame, text)
  <2>1. a + 4 <= n /\ a + 5 <= n /\ 5 \in 1..5
    BY <1>2, <1>12
  <2>2. h[a + 5] = Push(h[a + 4], s[5])
    BY <1>1, <1>2, <2>1
  <2>3. QED
    BY <1>5, <1>10, <2>1, <2>2
<1>13. QED
  BY <1>11, <1>12

-----------------------------------------------------------------------------
(* The wires a turn can leave *)

Tokens(X) == [part : {"event", "open", "close", "break"},
              frame : [event : Events \cup {""}, text : X]]

LEMMA FrameTyped ==
    ASSUME NEW X, <<>> \in X, NEW event \in Events, NEW text \in X
    PROVE  /\ Serialized(Frame(event, text)) \in Seq(Tokens(X))
           /\ Len(Serialized(Frame(event, text))) = 5
           /\ Frame(event, text).event = event /\ Frame(event, text).text = text
<1> DEFINE frame == Frame(event, text)
           F == [event : Events \cup {""}, text : X]
<1>1. frame \in F /\ Frame("", <<>>) \in F
  BY DEF Frame, Events
<1>2. frame.event = event /\ frame.text = text
  BY DEF Frame
<1> HIDE DEF frame, F
<1> DEFINE T == [part : {"event", "open", "close", "break"}, frame : F]
           e == [part |-> "event", frame |-> frame]
           o == [part |-> "open", frame |-> frame]
           c == [part |-> "close", frame |-> frame]
<1>3. Serialized(frame) \in Seq(T) /\ Len(Serialized(frame)) = 5
  <2>1. e \in T /\ o \in T /\ c \in T /\ Break \in T
    BY <1>1 DEF Break
  <2>2. Serialized(frame) = <<e, o, c, Break, Break>>
    BY DEF Serialized
  <2> HIDE DEF e, o, c, T
  <2>3. QED
    BY <2>1, <2>2
<1>4. QED
  BY <1>2, <1>3 DEF Tokens, F, frame

\* A frame somewhere in a tape.
Within(S, begin, frame, end) ==
    LET tape == begin \o (Serialized(frame) \o end) IN
    /\ tape \in Seq(S) /\ Len(tape) = Len(begin) + 5 + Len(end)
    /\ \A i \in 1..5 : tape[Len(begin) + i] = Serialized(frame)[i]
    /\ begin \o Serialized(frame) \in Seq(S)
    /\ Len(begin \o Serialized(frame)) = Len(begin) + 5
    /\ tape = (begin \o Serialized(frame)) \o end

LEMMA FrameWithin ==
    ASSUME NEW S, NEW begin \in Seq(S), NEW end \in Seq(S),
           NEW frame, Serialized(frame) \in Seq(S), Len(Serialized(frame)) = 5
    PROVE  Within(S, begin, frame, end)
<1> DEFINE s == Serialized(frame)
           rest == s \o end
           tape == begin \o rest
<1> HIDE DEF s
<1>1. s \in Seq(S) /\ Len(s) = 5 /\ Len(begin) \in Nat /\ Len(end) \in Nat
  BY DEF s
<1>2. rest \in Seq(S) /\ Len(rest) = 5 + Len(end) /\ \A i \in 1..5 : rest[i] = s[i]
  <2>1. /\ rest \in Seq(S) /\ Len(rest) = Len(s) + Len(end)
        /\ \A i \in 1..(Len(s) + Len(end)) :
             rest[i] = IF i <= Len(s) THEN s[i] ELSE end[i - Len(s)]
    <3>1. s \in Seq(S)
      BY <1>1
    <3>2. QED
      BY <3>1, ConcatProperties
  <2>2. ASSUME NEW i \in 1..5  PROVE i \in 1..(Len(s) + Len(end)) /\ i <= Len(s)
    BY <1>1
  <2> HIDE DEF rest
  <2>3. ASSUME NEW i \in 1..5  PROVE rest[i] = s[i]
    BY <2>1, <2>2
  <2>4. QED
    BY <1>1, <2>1, <2>3
<1> HIDE DEF rest
<1>3. /\ tape \in Seq(S) /\ Len(tape) = Len(begin) + Len(rest)
      /\ \A i \in 1..(Len(begin) + Len(rest)) :
           tape[i] = IF i <= Len(begin) THEN begin[i] ELSE rest[i - Len(begin)]
  <2>1. rest \in Seq(S)
    BY <1>2
  <2>2. QED
    BY <2>1, ConcatProperties
<1> HIDE DEF tape
<1>4. ASSUME NEW i \in 1..5  PROVE tape[Len(begin) + i] = s[i]
  <2> DEFINE k == Len(begin) + i
  <2>1. k \in 1..(Len(begin) + Len(rest)) /\ ~(k <= Len(begin)) /\ k - Len(begin) = i
    BY <1>1, <1>2
  <2> HIDE DEF k
  <2>2. tape[k] = rest[k - Len(begin)]
    BY <1>3, <2>1
  <2>3. QED
    BY <1>2, <2>1, <2>2 DEF k
<1>5. begin \o s \in Seq(S) /\ Len(begin \o s) = Len(begin) + 5
  <2>1. s \in Seq(S)
    BY <1>1
  <2>2. begin \o s \in Seq(S) /\ Len(begin \o s) = Len(begin) + Len(s)
    BY <2>1, ConcatProperties
  <2>3. QED
    BY <1>1, <2>2
<1>6. tape = (begin \o s) \o end
  <2>1. s \in Seq(S)
    BY <1>1
  <2>2. (begin \o s) \o end = begin \o (s \o end)
    BY <2>1, ConcatAssociative
  <2>3. QED
    BY <2>2 DEF tape, rest
<1>7. Len(tape) = Len(begin) + 5 + Len(end)
  BY <1>1, <1>2, <1>3
<1>8. QED
  BY <1>3, <1>4, <1>5, <1>6, <1>7 DEF Within, s, rest, tape

\* The beginning of a wire: nothing, or a stage.
LEMMA BeginRead ==
    ASSUME NEW X, <<>> \in X, NEW begin \in {<<>>, StageFrame}, NEW end \in Seq(Tokens(X)),
           NEW h, NEW n \in 0..Len(begin \o end), Readers(h, begin \o end, n)
    PROVE  /\ begin \in Seq(Tokens(X)) /\ Len(begin) \in Nat
           /\ n < Len(begin) => Finish(h[n]).failed
           /\ n >= Len(begin) => h[Len(begin)] = Alive(<<>>, <<>>)
           /\ Finish(Alive(<<>>, <<>>)).failed
<1> DEFINE S == Tokens(X)
           frame == Frame("stage", <<>>)
<1>1. /\ Serialized(frame) \in Seq(S) /\ Len(Serialized(frame)) = 5
      /\ frame.event = "stage" /\ "stage" \in Events
  BY FrameTyped DEF Events
<1>2. StageFrame = Serialized(frame)
  BY DEF StageFrame
<1>3. h[0] = Alive(<<>>, <<>>)
  BY DEF Readers, Fresh, Alive
<1>4. ASSUME NEW r, CutIn(r, frame, <<>>)  PROVE Finish(r).failed
  BY <1>1, <1>4 DEF CutIn
<1>5. Finish(Alive(<<>>, <<>>)).failed
  <2>1. CutIn(Alive(<<>>, <<>>), frame, <<>>)
    BY <1>1, FrameCut
  <2>2. QED
    BY <1>4, <2>1
<1> HIDE DEF S, frame
<1>6. CASE begin = <<>>
  <2>1. begin \in Seq(S) /\ Len(begin) = 0 /\ ~(n < 0)
    BY <1>6
  <2>2. QED
    BY <1>3, <1>5, <2>1 DEF S
<1>7. CASE begin = StageFrame
  <2> DEFINE tape == begin \o end
  <2>1. begin \in Seq(S) /\ Len(begin) = 5
    BY <1>1, <1>2, <1>7
  <2>2. end \in Seq(S)
    BY DEF S
  <2>3. Len(tape) = 5 + Len(end) /\ Len(end) \in Nat
        /\ \A i \in 1..(5 + Len(end)) : tape[i] = IF i <= 5 THEN begin[i] ELSE end[i - 5]
    <3>1. /\ Len(tape) = Len(begin) + Len(end)
          /\ \A i \in 1..(Len(begin) + Len(end)) :
               tape[i] = IF i <= Len(begin) THEN begin[i] ELSE end[i - Len(begin)]
      BY <2>1, <2>2, ConcatProperties
    <3>2. QED
      BY <2>1, <2>2, <3>1
  <2>4. Readers(h, tape, n)
    OBVIOUS
  <2> HIDE DEF tape
  <2>5. ASSUME NEW i \in 1..5  PROVE tape[0 + i] = Serialized(frame)[i]
    <3>1. i \in 1..(5 + Len(end)) /\ i <= 5 /\ 0 + i = i
      BY <2>3
    <3>2. QED
      BY <1>2, <1>7, <2>3, <3>1
  <2>6. n \in Nat /\ 0 \in 0..n /\ 0 + 5 = 5
    BY <2>3 DEF tape
  <2>7. n < 5 => CutIn(h[n], frame, <<>>)
    <3>1. n < 0 + 5 => CutIn(h[n], frame, <<>>)
      BY <1>1, <1>3, <2>4, <2>5, <2>6, FrameRead
    <3>2. QED
      BY <2>6, <3>1
  <2>8. n >= 5 => Beyond(h[5], frame, <<>>)
    <3>1. n >= 0 + 5 => Beyond(h[0 + 5], frame, <<>>)
      BY <1>1, <1>3, <2>4, <2>5, <2>6, FrameRead
    <3>2. QED
      BY <2>6, <3>1
  <2>9. n >= 5 => h[5] = Alive(<<>>, <<>>)
    BY <1>1, <2>8 DEF Beyond
  <2>10. QED
    BY <1>4, <1>5, <2>1, <2>7, <2>9 DEF S
<1>8. QED
  BY <1>6, <1>7

\* The next frame of a wire.
ReadOn(X, frame, begin, end, tape, h, n, text) ==
    /\ n < Len(begin) + 5 => CutIn(h[n], frame, text)
    /\ n >= Len(begin) + 5 => Beyond(h[Len(begin) + 5], frame, text)
    /\ begin \o Serialized(frame) \in Seq(Tokens(X))
    /\ Len(begin \o Serialized(frame)) = Len(begin) + 5
    /\ tape = (begin \o Serialized(frame)) \o end
    /\ Len(tape) = Len(begin) + 5 + Len(end)

LEMMA NextRead ==
    ASSUME NEW X, <<>> \in X, NEW event \in Events, NEW given \in X,
           NEW begin \in Seq(Tokens(X)), NEW end \in Seq(Tokens(X)),
           NEW tape, tape = begin \o (Serialized(Frame(event, given)) \o end),
           NEW h, NEW n \in 0..Len(tape), Readers(h, tape, n),
           n >= Len(begin),
           NEW text, h[Len(begin)] = Alive(<<>>, text)
    PROVE  ReadOn(X, Frame(event, given), begin, end, tape, h, n, text)
<1> DEFINE S == Tokens(X)
           frame == Frame(event, given)
           a == Len(begin)
<1>1. /\ Serialized(frame) \in Seq(S) /\ Len(Serialized(frame)) = 5
      /\ frame.event \in Events
  BY FrameTyped
<1>2. begin \in Seq(S) /\ end \in Seq(S) /\ tape = begin \o (Serialized(frame) \o end)
  OBVIOUS
<1> HIDE DEF S, frame
<1>3. /\ Len(tape) = Len(begin) + 5 + Len(end)
      /\ \A i \in 1..5 : tape[Len(begin) + i] = Serialized(frame)[i]
      /\ begin \o Serialized(frame) \in Seq(S)
      /\ Len(begin \o Serialized(frame)) = Len(begin) + 5
      /\ tape = (begin \o Serialized(frame)) \o end
  <2>1. begin \in Seq(S)
    BY <1>2
  <2>2. end \in Seq(S)
    BY <1>2
  <2>3. Serialized(frame) \in Seq(S)
    BY <1>1
  <2>4. Len(Serialized(frame)) = 5
    BY <1>1
  <2>5. Within(S, begin, frame, end)
    BY <2>1, <2>2, <2>3, <2>4, FrameWithin
  <2>6. QED
    BY <1>2, <2>5 DEF Within
<1>4. a \in 0..n /\ n \in Nat
  BY <1>2, <1>3
<1> HIDE DEF a
<1>5. /\ n < a + 5 => CutIn(h[n], frame, text)
      /\ n >= a + 5 => Beyond(h[a + 5], frame, text)
  <2>1. h[a] = Alive(<<>>, text)
    BY DEF a
  <2>2. \A i \in 1..5 : tape[a + i] = Serialized(frame)[i]
    BY <1>3 DEF a
  <2>3. QED
    BY <1>1, <1>2, <1>4, <2>1, <2>2, FrameRead
<1>6. QED
  BY <1>3, <1>5 DEF ReadOn, S, frame, a

\* All of a wire was read, or the tokens before a cut.
ReadsTo(reader, tape) ==
    \E h : \E n \in 0..Len(tape) : Readers(h, tape, n) /\ reader = Finish(h[n])

\* A wire without an answer is read as none.
LEMMA NoAnswer ==
    ASSUME NEW begin \in {<<>>, StageFrame}, NEW tape \in {begin, begin \o ErrorFrame},
           NEW reader, ReadsTo(reader, tape)
    PROVE  reader.failed
<1> DEFINE X == {<<>>}
           S == Tokens(X)
           frame == Frame("error", <<>>)
<1>1. <<>> \in X /\ "error" \in Events /\ "error" # "stage"
  BY DEF Events
<1>2. ErrorFrame = Serialized(frame) /\ frame.event = "error"
  BY DEF ErrorFrame, Frame
<1>3. Serialized(frame) \in Seq(S) /\ <<>> \in Seq(S) /\ Len(<<>>) = 0
  <2>1. Serialized(frame) \in Seq(S)
    <3> HIDE DEF X
    <3>1. QED
      BY <1>1, FrameTyped
  <2>2. QED
    BY <2>1
<1>4. begin \in Seq(S)
  <2>1. StageFrame \in Seq(S)
    BY <1>1, FrameTyped DEF StageFrame, Events
  <2>2. QED
    BY <1>3, <2>1
<1>5. PICK h : \E n \in 0..Len(tape) : Readers(h, tape, n) /\ reader = Finish(h[n])
  BY DEF ReadsTo
<1>6. PICK n \in 0..Len(tape) : Readers(h, tape, n) /\ reader = Finish(h[n])
  BY <1>5
<1> HIDE DEF X, S, frame
<1>7. CASE tape = begin
  <2>1. begin \o <<>> = begin
    BY <1>4, ConcatEmptySeq
  <2>2. n \in 0..Len(begin \o <<>>) /\ Readers(h, begin \o <<>>, n)
    BY <1>6, <1>7, <2>1
  <2>3. /\ Len(begin) \in Nat
        /\ n < Len(begin) => Finish(h[n]).failed
        /\ n >= Len(begin) => h[Len(begin)] = Alive(<<>>, <<>>)
        /\ Finish(Alive(<<>>, <<>>)).failed
    BY <1>1, <1>3, <2>2, BeginRead DEF S
  <2>4. n < Len(begin) \/ n = Len(begin)
    BY <1>7, <2>3
  <2>5. QED
    BY <1>6, <2>3, <2>4
<1>8. CASE tape = begin \o ErrorFrame
  <2> DEFINE end == Serialized(frame)
  <2>1. /\ Len(begin) \in Nat
        /\ n < Len(begin) => Finish(h[n]).failed
        /\ n >= Len(begin) => h[Len(begin)] = Alive(<<>>, <<>>)
    <3>1. n \in 0..Len(begin \o end) /\ Readers(h, begin \o end, n)
      BY <1>2, <1>6, <1>8
    <3>2. end \in Seq(Tokens(X))
      BY <1>3 DEF S
    <3> HIDE DEF end
    <3>3. QED
      BY <1>1, <3>1, <3>2, BeginRead
  <2>2. CASE n < Len(begin)
    BY <1>6, <2>1, <2>2
  <2>3. CASE n >= Len(begin)
    <3>1. end \o <<>> = end
      BY <1>3, ConcatEmptySeq
    <3>2. n \in Nat /\ n <= Len(begin \o end) /\ Readers(h, begin \o end, n)
      BY <1>2, <1>6, <1>8
    <3>3. ReadOn(X, frame, begin, <<>>, tape, h, n, <<>>)
      <4>1. h[Len(begin)] = Alive(<<>>, <<>>)
        BY <2>1, <2>3
      <4>2. begin \in Seq(Tokens(X)) /\ <<>> \in Seq(Tokens(X))
        BY <1>3, <1>4 DEF S
      <4>3. tape = begin \o (Serialized(frame) \o <<>>)
        BY <1>2, <1>8, <3>1
      <4>4. Readers(h, tape, n)
        BY <1>6
      <4> DEFINE event == "error"
                 none == <<>>
      <4>5. event \in Events /\ none \in X /\ frame = Frame(event, none)
        BY <1>1 DEF frame
      <4> HIDE DEF event
      <4>6. QED
        BY <1>1, <2>3, <4>1, <4>2, <4>3, <4>4, <4>5, NextRead
    <3>4. n < Len(begin) + 5 \/ n = Len(begin) + 5
      BY <1>3, <2>1, <3>2, <3>3 DEF ReadOn
    <3>5. CASE n < Len(begin) + 5
      BY <1>2, <1>6, <3>3, <3>5 DEF CutIn, ReadOn
    <3>6. CASE n = Len(begin) + 5
      <4>1. Beyond(h[n], frame, <<>>)
        BY <2>1, <3>3, <3>6 DEF ReadOn
      <4>2. QED
        BY <1>2, <1>6, <4>1 DEF Beyond
    <3>7. QED
      BY <3>4, <3>5, <3>6
  <2>4. QED
    BY <1>6, <2>1, <2>2, <2>3
<1>9. QED
  BY <1>7, <1>8

\* A turn's answer: text, and whether it may be read as no answer.
Answered(reader, text, n, tape) ==
    /\ reader.failed \/ reader.text = text
    /\ n = Len(tape) => ~reader.failed

\* The frames of a reply streamed in two fragments, one after the other.
LEMMA FragmentFrames ==
    ASSUME NEW k
    PROVE  TurnFrames(Reply(k), "success", TRUE)
             = Serialized(Frame("text", <<Reply(k)[1]>>))
               \o (Serialized(Frame("text", <<Reply(k)[2]>>)) \o Serialized(Frame("final", <<>>)))
<1> DEFINE R1 == <<Reply(k)[1]>>
           R2 == <<Reply(k)[2]>>
           X == {<<>>, R1, R2}
           S == Tokens(X)
           first == Serialized(Frame("text", R1))
           second == Serialized(Frame("text", R2))
           end == Serialized(Frame("final", <<>>))
<1>1. TurnFrames(Reply(k), "success", TRUE) = (first \o second) \o end
  BY DEF TurnFrames, TextFrames
<1>2. <<>> \in X /\ R1 \in X /\ R2 \in X /\ "text" \in Events /\ "final" \in Events
  BY DEF Events
<1> HIDE DEF R1, R2, X
<1>3. first \in Seq(S) /\ second \in Seq(S) /\ end \in Seq(S)
  BY <1>2, FrameTyped
<1> HIDE DEF first, second, end, S
<1>4. (first \o second) \o end = first \o (second \o end)
  BY <1>3, ConcatAssociative
<1>5. QED
  BY <1>1, <1>4 DEF first, second, end, R1, R2

\* A wire that ends with the reply's frames is read as that reply, or as none if
\* it was cut.
LEMMA TurnAnswered ==
    ASSUME NEW begin \in {<<>>, StageFrame}, NEW k,
           NEW outcome \in {"success", "controlled_failure"}, NEW fragmented \in BOOLEAN,
           NEW tape, tape = begin \o TurnFrames(Reply(k), outcome, fragmented),
           NEW h, NEW n \in 0..Len(tape), Readers(h, tape, n)
    PROVE  Answered(Finish(h[n]), Reply(k), n, tape)
<1> DEFINE R == Reply(k)
           R1 == <<R[1]>>
           R2 == <<R[2]>>
           X == {<<>>, R, R1, R2}
           final == Frame("final", <<>>)
<1>1. R1 \o R2 = R /\ <<>> \o R = R /\ <<>> \o R1 = R1
  <2> DEFINE a == <<k, 1>>
             b == <<k, 2>>
             T == {a, b}
  <2>1. R = <<a, b>> /\ R1 = <<a>> /\ R2 = <<b>>
    BY DEF Reply
  <2> HIDE DEF a, b, R, R1, R2
  <2>2. R \in Seq(T) /\ Len(R) = 2 /\ R[1] = a /\ R[2] = b
    BY <2>1
  <2>3. R1 \in Seq(T) /\ Len(R1) = 1 /\ R1[1] = a
    BY <2>1
  <2>4. R2 \in Seq(T) /\ Len(R2) = 1 /\ R2[1] = b
    BY <2>1
  <2>5. <<>> \o R = R
    BY <2>2, ConcatEmptySeq
  <2>6. <<>> \o R1 = R1
    BY <2>3, ConcatEmptySeq
  <2> DEFINE q == R1 \o R2
  <2>7. /\ q \in Seq(T) /\ Len(q) = Len(R1) + Len(R2)
        /\ \A i \in 1..(Len(R1) + Len(R2)) :
             q[i] = IF i <= Len(R1) THEN R1[i] ELSE R2[i - Len(R1)]
    <3>1. R1 \in Seq(T)
      BY <2>3
    <3>2. R2 \in Seq(T)
      BY <2>4
    <3>3. QED
      BY <3>1, <3>2, ConcatProperties
  <2> HIDE DEF q, T
  <2>8. Len(q) = 2 /\ q[1] = a /\ q[2] = b
    BY <2>3, <2>4, <2>7
  <2>9. \A i \in 1..Len(q) : q[i] = R[i]
    BY <2>2, <2>8
  <2>10. q = R
    BY <2>2, <2>7, <2>8, <2>9, SeqEqual
  <2>11. QED
    BY <2>5, <2>6, <2>10 DEF q
<1>2. <<>> \in X /\ R \in X /\ R1 \in X /\ R2 \in X
  OBVIOUS
<1> HIDE DEF R, R1, R2, X
<1> SUFFICES Answered(Finish(h[n]), R, n, tape)
  BY DEF R
<1>3. /\ Serialized(final) \in Seq(Tokens(X)) /\ final.event = "final"
      /\ "final" \in Events /\ "text" \in Events /\ "failure" \in Events
      /\ "text" # "failure" /\ "text" # "final"
  BY <1>2, FrameTyped DEF Events
<1>4. ASSUME NEW text \in X
      PROVE  /\ Serialized(Frame("text", text)) \in Seq(Tokens(X))
             /\ Serialized(Frame("failure", text)) \in Seq(Tokens(X))
             /\ Frame("text", text).event = "text" /\ Frame("text", text).text = text
             /\ Frame("failure", text).event = "failure" /\ Frame("failure", text).text = text
  BY <1>2, <1>3, FrameTyped
<1>5. <<>> \in Seq(Tokens(X)) /\ Len(<<>>) = 0
  OBVIOUS
\* before the first frame
<1>6. ASSUME NEW end \in Seq(Tokens(X)), tape = begin \o end
      PROVE  /\ begin \in Seq(Tokens(X)) /\ Len(begin) \in Nat
             /\ n < Len(begin) => Answered(Finish(h[n]), R, n, tape)
             /\ n >= Len(begin) => h[Len(begin)] = Alive(<<>>, <<>>)
  <2>1. n \in 0..Len(begin \o end) /\ Readers(h, begin \o end, n)
    BY <1>6
  <2>2. /\ begin \in Seq(Tokens(X)) /\ Len(begin) \in Nat
        /\ n < Len(begin) => Finish(h[n]).failed
        /\ n >= Len(begin) => h[Len(begin)] = Alive(<<>>, <<>>)
    BY <1>2, <2>1, BeginRead
  <2>3. Len(tape) >= Len(begin)
    <3>1. Len(begin \o end) = Len(begin) + Len(end)
      BY <2>2, ConcatProperties
    <3>2. QED
      BY <1>6, <2>2, <3>1
  <2>4. n < Len(begin) => n # Len(tape)
    BY <2>2, <2>3
  <2>5. QED
    BY <2>2, <2>4 DEF Answered
\* from the last frame on
<1>7. ASSUME NEW b \in Seq(Tokens(X)), n >= Len(b), h[Len(b)] = Alive(<<>>, R),
             tape = b \o Serialized(final)
      PROVE  Answered(Finish(h[n]), R, n, tape)
  <2>1. tape = b \o (Serialized(final) \o <<>>)
    <3>1. Serialized(final) \o <<>> = Serialized(final)
      BY <1>3, ConcatEmptySeq
    <3>2. QED
      BY <1>7, <3>1
  <2>2. ReadOn(X, final, b, <<>>, tape, h, n, R)
    <3> DEFINE event == "final"
               none == <<>>
    <3>1. event \in Events /\ none \in X /\ final = Frame(event, none)
      BY <1>2, <1>3
    <3>2. n >= Len(b) /\ h[Len(b)] = Alive(<<>>, R)
      BY <1>7
    <3> HIDE DEF event, final
    <3>3. QED
      BY <1>2, <1>5, <2>1, <3>1, <3>2, NextRead
  <2>3. Len(tape) = Len(b) + 5
    BY <1>5, <2>2 DEF ReadOn
  <2>4. CASE n < Len(b) + 5
    <3>1. CutIn(Finish(h[n]), final, R) \/ CutIn(h[n], final, R)
      BY <2>2, <2>4 DEF ReadOn
    <3>2. CutIn(h[n], final, R)
      BY <2>2, <2>4 DEF ReadOn
    <3>3. n # Len(tape)
      BY <2>3, <2>4
    <3>4. QED
      BY <1>3, <3>2, <3>3 DEF CutIn, Answered
  <2>5. CASE n = Len(b) + 5
    <3>1. Beyond(h[n], final, R)
      BY <2>2, <2>5 DEF ReadOn
    <3>2. QED
      BY <1>3, <3>1 DEF Beyond, Answered
  <2>6. QED
    BY <2>3, <2>4, <2>5
<1>8. CASE outcome = "controlled_failure"
  <2> DEFINE end == Serialized(Frame("failure", R))
  <2>1. tape = begin \o end /\ end \in Seq(Tokens(X)) /\ end \o <<>> = end
    <3>1. end \in Seq(Tokens(X))
      BY <1>2, <1>4
    <3>2. end \o <<>> = end
      BY <3>1, ConcatEmptySeq
    <3>3. QED
      BY <1>8, <3>1, <3>2 DEF TurnFrames, R
  <2>2. CASE n < Len(begin)
    BY <1>6, <2>1, <2>2
  <2>3. CASE n >= Len(begin)
    <3>1. ReadOn(X, Frame("failure", R), begin, <<>>, tape, h, n, <<>>)
      <4> DEFINE event == "failure"
      <4>1. begin \in Seq(Tokens(X)) /\ h[Len(begin)] = Alive(<<>>, <<>>)
        BY <1>6, <2>1, <2>3
      <4>2. event \in Events /\ tape = begin \o (Serialized(Frame(event, R)) \o <<>>)
        BY <1>3, <2>1
      <4> HIDE DEF event
      <4>3. ReadOn(X, Frame(event, R), begin, <<>>, tape, h, n, <<>>)
        BY <1>2, <1>5, <2>3, <4>1, <4>2, NextRead
      <4>4. QED
        BY <4>3 DEF event
    <3>2. Len(tape) = Len(begin) + 5 /\ Len(begin) \in Nat
      BY <1>6, <1>5, <2>1, <3>1 DEF ReadOn
    <3>3. Frame("failure", R).event = "failure" /\ Frame("failure", R).text = R
      BY <1>2, <1>4
    <3>4. CASE n < Len(begin) + 5
      <4>1. CutIn(h[n], Frame("failure", R), <<>>) /\ n # Len(tape)
        BY <3>1, <3>2, <3>4 DEF ReadOn
      <4>2. QED
        BY <3>3, <4>1 DEF CutIn, Answered
    <3>5. CASE n = Len(begin) + 5
      <4>1. Beyond(h[n], Frame("failure", R), <<>>)
        BY <3>1, <3>2, <3>5 DEF ReadOn
      <4>2. QED
        BY <3>3, <4>1 DEF Beyond, Answered
    <3>6. QED
      BY <3>2, <3>4, <3>5
  <2>4. QED
    BY <1>6, <2>1, <2>2, <2>3
\* a frame of text, and what follows it
<1>9. ASSUME NEW b \in Seq(Tokens(X)), NEW text, NEW t \in X, NEW end \in Seq(Tokens(X)),
               n >= Len(b), h[Len(b)] = Alive(<<>>, text),
               tape = b \o (Serialized(Frame("text", t)) \o end)
         PROVE  LET c == b \o Serialized(Frame("text", t)) IN
                /\ n < Len(c) => Answered(Finish(h[n]), R, n, tape)
                /\ n >= Len(c) => h[Len(c)] = Alive(<<>>, text \o t)
                /\ c \in Seq(Tokens(X)) /\ tape = c \o end /\ Len(c) \in Nat
  <2> DEFINE frame == Frame("text", t)
             c == b \o Serialized(frame)
  <2>1. frame.event = "text" /\ frame.text = t
    BY <1>4
  <2>2. ReadOn(X, frame, b, end, tape, h, n, text)
    <3> DEFINE event == "text"
    <3>1. event \in Events /\ tape = b \o (Serialized(Frame(event, t)) \o end)
      BY <1>3, <1>9
    <3>2. n >= Len(b) /\ h[Len(b)] = Alive(<<>>, text)
      BY <1>9
    <3> HIDE DEF event
    <3>3. ReadOn(X, Frame(event, t), b, end, tape, h, n, text)
      BY <1>2, <3>1, <3>2, NextRead
    <3>4. QED
      BY <3>3 DEF event
  <2>3. /\ c \in Seq(Tokens(X)) /\ Len(c) = Len(b) + 5 /\ tape = c \o end
        /\ Len(tape) = Len(b) + 5 + Len(end)
    BY <2>2 DEF ReadOn
  <2>4. Len(b) \in Nat /\ Len(end) \in Nat
    OBVIOUS
  <2> HIDE DEF frame, c
  <2>5. ASSUME n < Len(c)  PROVE Answered(Finish(h[n]), R, n, tape)
    <3>1. CutIn(h[n], frame, text) /\ n # Len(tape)
      BY <2>2, <2>3, <2>4, <2>5 DEF ReadOn
    <3>2. QED
      BY <1>3, <2>1, <3>1 DEF CutIn, Answered
  <2>6. ASSUME n >= Len(c)  PROVE h[Len(c)] = Alive(<<>>, text \o t)
    <3>1. Beyond(h[Len(c)], frame, text)
      BY <2>2, <2>3, <2>6 DEF ReadOn
    <3>2. QED
      BY <2>1, <3>1 DEF Beyond
  <2>7. QED
    BY <2>3, <2>4, <2>5, <2>6 DEF c, frame
<1>10. CASE outcome = "success" /\ ~fragmented
  <2> DEFINE end == Serialized(final)
             first == Serialized(Frame("text", R))
             b == begin \o first
  <2>1. tape = begin \o (first \o end)
    BY <1>10 DEF TurnFrames, TextFrames, R
  <2>2. first \in Seq(Tokens(X)) /\ end \in Seq(Tokens(X)) /\ first \o end \in Seq(Tokens(X))
    <3>1. first \in Seq(Tokens(X)) /\ end \in Seq(Tokens(X))
      BY <1>2, <1>3, <1>4
    <3> HIDE DEF first, end
    <3>2. QED
      BY <3>1, ConcatProperties
  <2>3. CASE n < Len(begin)
    BY <1>6, <2>1, <2>2, <2>3
  <2>4. CASE n >= Len(begin)
    <3>1. begin \in Seq(Tokens(X)) /\ h[Len(begin)] = Alive(<<>>, <<>>)
      BY <1>6, <2>1, <2>2, <2>4
    <3>2. /\ n < Len(b) => Answered(Finish(h[n]), R, n, tape)
          /\ n >= Len(b) => h[Len(b)] = Alive(<<>>, <<>> \o R)
          /\ b \in Seq(Tokens(X)) /\ tape = b \o end /\ Len(b) \in Nat
      BY <1>9, <1>2, <2>1, <2>2, <2>4, <3>1
    <3> HIDE DEF b
    <3>3. n >= Len(b) => Answered(Finish(h[n]), R, n, tape)
      BY <1>1, <1>7, <3>2
    <3>4. QED
      BY <3>2, <3>3
  <2>5. QED
    BY <1>6, <2>1, <2>2, <2>3, <2>4
<1>11. CASE outcome = "success" /\ fragmented
  <2> DEFINE end == Serialized(final)
             first == Serialized(Frame("text", R1))
             second == Serialized(Frame("text", R2))
             b == begin \o first
             c == b \o second
  <2>1. /\ first \in Seq(Tokens(X)) /\ second \in Seq(Tokens(X)) /\ end \in Seq(Tokens(X))
        /\ second \o end \in Seq(Tokens(X)) /\ first \o (second \o end) \in Seq(Tokens(X))
    <3>1. first \in Seq(Tokens(X)) /\ second \in Seq(Tokens(X)) /\ end \in Seq(Tokens(X))
      BY <1>2, <1>3, <1>4
    <3> HIDE DEF first, second, end
    <3>2. second \o end \in Seq(Tokens(X))
      BY <3>1, ConcatProperties
    <3>3. QED
      BY <3>1, <3>2, ConcatProperties
  <2>2. tape = begin \o (first \o (second \o end))
    <3>1. TurnFrames(Reply(k), outcome, fragmented) = first \o (second \o end)
      <4>1. outcome = "success" /\ fragmented = TRUE
        BY <1>11
      <4>2. QED
        BY <4>1, FragmentFrames DEF R, R1, R2
    <3> HIDE DEF first, second, end
    <3>2. QED
      BY <3>1
  <2>3. CASE n < Len(begin)
    BY <1>6, <2>1, <2>2, <2>3
  <2>4. CASE n >= Len(begin)
    <3>1. begin \in Seq(Tokens(X)) /\ h[Len(begin)] = Alive(<<>>, <<>>)
      BY <1>6, <2>1, <2>2, <2>4
    <3>2. /\ n < Len(b) => Answered(Finish(h[n]), R, n, tape)
          /\ n >= Len(b) => h[Len(b)] = Alive(<<>>, <<>> \o R1)
          /\ b \in Seq(Tokens(X)) /\ tape = b \o (second \o end) /\ Len(b) \in Nat
      BY <1>9, <1>2, <2>1, <2>2, <2>4, <3>1
    <3> HIDE DEF b
    <3>3. ASSUME n >= Len(b)
          PROVE  /\ n < Len(c) => Answered(Finish(h[n]), R, n, tape)
                 /\ n >= Len(c) => h[Len(c)] = Alive(<<>>, R1 \o R2)
                 /\ c \in Seq(Tokens(X)) /\ tape = c \o end /\ Len(c) \in Nat
      <4>1. b \in Seq(Tokens(X)) /\ h[Len(b)] = Alive(<<>>, R1) /\ tape = b \o (second \o end)
        BY <1>1, <3>2, <3>3
      <4>2. end \in Seq(Tokens(X))
        BY <2>1
      <4> HIDE DEF end
      <4>3. QED
        BY <1>9, <1>2, <3>3, <4>1, <4>2
    <3> HIDE DEF c
    <3>4. n >= Len(b) /\ n >= Len(c) => Answered(Finish(h[n]), R, n, tape)
      BY <1>1, <1>7, <3>3
    <3>5. QED
      BY <3>2, <3>3, <3>4
  <2>5. QED
    BY <1>6, <2>1, <2>2, <2>3, <2>4
<1>12. QED
  BY <1>8, <1>10, <1>11

-----------------------------------------------------------------------------
(* What the page reads of a wire *)

Received(tape, length, split) ==
    Finish(Read(Read(Fresh, SubSeq(tape, 1, split)), SubSeq(tape, split + 1, length)))

LEMMA NothingReceived ==
    ASSUME NEW begin \in {<<>>, StageFrame}, NEW tape \in {begin, begin \o ErrorFrame},
           NEW length \in 0..Len(tape), NEW split \in 0..length
    PROVE  Received(tape, length, split).failed
<1> DEFINE X == {<<>>}
<1>1. begin \in Seq(Tokens(X)) /\ ErrorFrame \in Seq(Tokens(X))
  <2>1. <<>> \in X /\ "stage" \in Events /\ "error" \in Events
    BY DEF Events
  <2> HIDE DEF X
  <2>2. StageFrame \in Seq(Tokens(X)) /\ ErrorFrame \in Seq(Tokens(X))
    <3>1. ASSUME NEW event \in Events  PROVE Serialized(Frame(event, <<>>)) \in Seq(Tokens(X))
      BY <2>1, FrameTyped
    <3>2. QED
      BY <2>1, <3>1 DEF StageFrame, ErrorFrame
  <2>3. <<>> \in Seq(Tokens(X))
    OBVIOUS
  <2>4. begin = <<>> \/ begin = StageFrame
    OBVIOUS
  <2>5. QED
    BY <2>2, <2>3, <2>4
<1> HIDE DEF X
<1>2. tape \in Seq(Tokens(X))
  <2>1. begin \o ErrorFrame \in Seq(Tokens(X))
    BY <1>1, ConcatProperties
  <2>2. QED
    BY <1>1, <2>1
<1>3. PICK h : /\ Readers(h, tape, length)
               /\ Read(Read(Fresh, SubSeq(tape, 1, split)),
                       SubSeq(tape, split + 1, length)) = h[length]
  BY <1>2, TwoChunks
<1>4. ReadsTo(Received(tape, length, split), tape)
  BY <1>3 DEF ReadsTo, Received
<1>5. QED
  BY <1>4, NoAnswer

LEMMA TurnReceived ==
    ASSUME NEW begin \in {<<>>, StageFrame}, NEW k,
           NEW outcome \in {"success", "controlled_failure"}, NEW fragmented \in BOOLEAN,
           NEW tape, tape = begin \o TurnFrames(Reply(k), outcome, fragmented),
           NEW length \in 0..Len(tape), NEW split \in 0..length
    PROVE  Answered(Received(tape, length, split), Reply(k), length, tape)
<1> DEFINE R == Reply(k)
           X == {<<>>, R, <<R[1]>>, <<R[2]>>}
           S == Tokens(X)
<1>1. <<>> \in X /\ R \in X /\ <<R[1]>> \in X /\ <<R[2]>> \in X
      /\ "stage" \in Events /\ "text" \in Events /\ "failure" \in Events /\ "final" \in Events
  BY DEF Events
<1> HIDE DEF X
<1>2. /\ <<>> \in Seq(S) /\ Serialized(Frame("stage", <<>>)) \in Seq(S)
      /\ Serialized(Frame("text", R)) \in Seq(S)
      /\ Serialized(Frame("text", <<R[1]>>)) \in Seq(S)
      /\ Serialized(Frame("text", <<R[2]>>)) \in Seq(S)
      /\ Serialized(Frame("failure", R)) \in Seq(S)
      /\ Serialized(Frame("final", <<>>)) \in Seq(S)
  BY <1>1, FrameTyped
<1> HIDE DEF S
<1>3. begin \in Seq(S)
  BY <1>2 DEF StageFrame
<1>4. TextFrames(R, fragmented) \in Seq(S)
  <2>1. TextFrames(R, fragmented)
          = IF fragmented THEN Serialized(Frame("text", <<R[1]>>))
                                 \o Serialized(Frame("text", <<R[2]>>))
            ELSE Serialized(Frame("text", R))
    BY DEF TextFrames
  <2>2. Serialized(Frame("text", <<R[1]>>)) \o Serialized(Frame("text", <<R[2]>>)) \in Seq(S)
    BY <1>2, ConcatProperties
  <2>3. QED
    BY <1>2, <2>1, <2>2
<1>5. TurnFrames(R, outcome, fragmented) \in Seq(S)
  <2>1. TurnFrames(R, outcome, fragmented)
          = IF outcome = "controlled_failure" THEN Serialized(Frame("failure", R))
            ELSE TextFrames(R, fragmented) \o Serialized(Frame("final", <<>>))
    BY DEF TurnFrames
  <2>2. TextFrames(R, fragmented) \o Serialized(Frame("final", <<>>)) \in Seq(S)
    BY <1>2, <1>4, ConcatProperties
  <2>3. QED
    BY <1>2, <2>1, <2>2
<1>6. tape \in Seq(S)
  <2> DEFINE end == TurnFrames(R, outcome, fragmented)
  <2>1. end \in Seq(S) /\ tape = begin \o end
    BY <1>5
  <2> HIDE DEF end, R
  <2>2. QED
    BY <1>3, <2>1, ConcatProperties
<1>7. PICK h : /\ Readers(h, tape, length)
               /\ Read(Read(Fresh, SubSeq(tape, 1, split)),
                       SubSeq(tape, split + 1, length)) = h[length]
  BY <1>6, TwoChunks
<1>8. Answered(Finish(h[length]), Reply(k), length, tape)
  BY <1>7, TurnAnswered
<1>9. QED
  BY <1>7, <1>8 DEF Received

-----------------------------------------------------------------------------
(* The stream of the page's turn *)

\* The turn whose stream the page reads is the one it asked for.
StreamsPage ==
    \A t \in tasks : Streams(t) =>
        t.kind = "turn" /\ t.session = session /\ t.message = op.message /\ ~closed

\* Any other turn of its session is doubted.
TurnsDoubted ==
    \A t \in tasks : t.kind = "turn" /\ t.session = session => doubt \/ Streams(t)

StreamInv ==
    /\ op.pc # "turn" => wire = <<>> /\ ~closed
    /\ op.pc = "turn" /\ ~closed => wire \in {<<>>, StageFrame}
    /\ StreamsPage
    /\ TurnsDoubted

LEMMA StreamKept ==
    ASSUME StreamInv, tasks' \subseteq tasks, UNCHANGED <<op, wire, closed, session>>,
           doubt => doubt'
    PROVE  StreamInv'
BY DEF StreamInv, StreamsPage, TurnsDoubted, Streams

\* Where the page reads no stream, its session's turns are doubted.
LEMMA StreamElsewhere ==
    ASSUME op'.pc # "turn", wire' = <<>>, ~closed',
           \A t \in tasks' : t.kind = "turn" /\ t.session = session' => doubt'
    PROVE  StreamInv'
BY DEF StreamInv, StreamsPage, TurnsDoubted, Streams

LEMMA StreamNone ==
    ASSUME StreamInv, op.pc # "turn", NEW t \in tasks, t.kind = "turn", t.session = session
    PROVE  doubt
BY DEF StreamInv, TurnsDoubted, Streams

\* The page asks for a turn.
LEMMA StreamJoins ==
    ASSUME StreamInv, op.pc # "turn", UNCHANGED <<wire, closed, session, doubt>>,
           NEW new, NEW rest \in SUBSET tasks, tasks' = rest \cup {new},
           new.kind = "turn", new.session = session,
           op'.pc = "turn", op'.n = new.n, op'.message = new.message,
           \A u \in rest : u.n # new.n
    PROVE  StreamInv'
<1>1. wire' = <<>> /\ ~closed'
  BY DEF StreamInv
<1>2. ASSUME NEW u \in tasks'
      PROVE  /\ Streams(u)' => u = new
             /\ u.kind = "turn" /\ u.session = session' => doubt' \/ Streams(u)'
  <2>1. CASE u = new
    BY <2>1 DEF Streams
  <2>2. CASE u \in rest
    BY <2>2, StreamNone DEF Streams
  <2>3. QED
    BY <2>1, <2>2
<1>3. StreamsPage'
  BY <1>1, <1>2 DEF StreamsPage
<1>4. TurnsDoubted'
  BY <1>2 DEF TurnsDoubted
<1>5. QED
  BY <1>1, <1>3, <1>4 DEF StreamInv

\* A task ends, with the stream if it is the page's.
LEMMA StreamEnds ==
    ASSUME TypeInv, StreamInv, NEW t \in tasks, EndTask(t),
           UNCHANGED <<session, doubt>>, op'.pc = op.pc, op'.n = op.n, op'.message = op.message,
           ~Streams(t) => wire' = wire
    PROVE  StreamInv'
<1>1. tasks' = tasks \ {t} /\ (closed' <=> closed \/ Streams(t))
  BY DEF EndTask
<1>2. \A u : Streams(u)' <=> Streams(u)
  BY DEF Streams
<1>3. \A u \in tasks' : Streams(u) => ~Streams(t)
  BY <1>1 DEF TypeInv, TaskTypes, Streams
<1>4. StreamsPage'
  BY <1>1, <1>2, <1>3 DEF StreamInv, StreamsPage
<1>5. TurnsDoubted'
  BY <1>1, <1>2 DEF StreamInv, TurnsDoubted
<1>6. /\ op'.pc # "turn" => wire' = <<>> /\ ~closed'
      /\ op'.pc = "turn" /\ ~closed' => wire' \in {<<>>, StageFrame}
  BY <1>1 DEF StreamInv, Streams
<1>7. QED
  BY <1>4, <1>5, <1>6 DEF StreamInv

\* How the page takes the end of a stream.
LEMMA StreamOver ==
    ASSUME TypeInv, StreamInv,
           Timeout \/ \E length, split \in 0..Len(wire) : EndOfStream(length, split)
    PROVE  /\ op.pc = "turn" /\ op' = Idle /\ wire' = <<>> /\ ~closed'
           /\ UNCHANGED <<server, tasks, session>>
           /\ \/ transcript' = transcript /\ doubt'
              \/ closed /\ \E length \in 0..Len(wire), split \in 0..Len(wire) :
                    /\ split <= length
                    /\ LET reader == Received(wire, length, split) IN
                       IF reader.failed
                       THEN transcript' = transcript /\ doubt' = (doubt \/ length < Len(wire))
                       ELSE /\ transcript' = transcript \o
                                 <<Player(op.message), Assistant(reader.text)>>
                            /\ doubt' = (doubt \/ ~op.saved)
<1>1. CASE Timeout
  BY <1>1 DEF Timeout, GiveUp, EndTurn
<1>2. ASSUME NEW length \in 0..Len(wire), NEW split \in 0..Len(wire),
             EndOfStream(length, split)
      PROVE  /\ op.pc = "turn" /\ op' = Idle /\ wire' = <<>> /\ ~closed'
             /\ UNCHANGED <<server, tasks, session>>
             /\ \/ transcript' = transcript /\ doubt'
                \/ /\ closed /\ split <= length
                   /\ LET reader == Received(wire, length, split) IN
                      IF reader.failed
                      THEN transcript' = transcript /\ doubt' = (doubt \/ length < Len(wire))
                      ELSE /\ transcript' = transcript \o
                                <<Player(op.message), Assistant(reader.text)>>
                           /\ doubt' = (doubt \/ ~op.saved)
  <2> DEFINE reader == Received(wire, length, split)
  <2>1. /\ op.pc = "turn" /\ split <= length /\ EndTurn
        /\ IF reader.failed THEN GiveUp(~closed \/ length < Len(wire))
           ELSE ApplyTurn(reader.text)
    BY <1>2 DEF EndOfStream, Received
  <2>2. ~closed => reader.failed
    <3>1. ~closed => wire \in {<<>>, StageFrame}
      BY <2>1 DEF StreamInv
    <3>2. split \in 0..length
      BY <2>1
    <3>3. QED
      BY <3>1, <3>2, NothingReceived
  <2> HIDE DEF reader
  <2>3. CASE closed
    <3>1. CASE reader.failed
      BY <2>1, <2>3, <3>1 DEF GiveUp, EndTurn, reader
    <3>2. CASE ~reader.failed
      BY <2>1, <2>3, <3>2 DEF ApplyTurn, EndTurn, reader
    <3>3. QED
      BY <3>1, <3>2
  <2>4. CASE ~closed
    BY <2>1, <2>2, <2>4 DEF GiveUp, EndTurn
  <2>5. QED
    BY <2>3, <2>4
<1>3. QED
  BY <1>1, <1>2

LEMMA StreamStep ==
    ASSUME TypeInv, StreamInv, [Next]_vars
    PROVE  StreamInv'
<1>1. CASE ClickRefresh \/ ClickAdd \/ \E fact \in 1..bound.facts : ClickDelete(fact)
  <2>1. UNCHANGED <<tasks, page, op, stream, doubt>>
    BY <1>1 DEF ClickRefresh, ClickAdd, ClickDelete
  <2>2. QED
    BY <2>1, StreamKept DEF page, stream
<1>2. ASSUME NEW c \in Slots, Serve(c) \/ Answer(c) \/ CallFails(c)
      PROVE  StreamInv'
  <2>1. /\ UNCHANGED <<tasks, session, stream, doubt>>
        /\ op' = op \/ (op.pc = "panels" /\ op' = Idle)
    BY <1>2 DEF Serve, Answer, CallFails, Settled, page
  <2>2. CASE op' = op
    BY <2>1, <2>2, StreamKept DEF stream
  <2>3. CASE op.pc = "panels" /\ op' = Idle
    <3>1. op'.pc # "turn" /\ wire' = <<>> /\ ~closed'
      BY <2>1, <2>3 DEF Idle, StreamInv, stream
    <3>2. QED
      BY <2>1, <2>3, <3>1, StreamNone, StreamElsewhere
  <2>4. QED
    BY <2>1, <2>2, <2>3
<1>3. CASE CreateAnswered
  <2>1. /\ tasks' = tasks /\ session' = born + 1 /\ born \in Nat
        /\ op.pc = "create" /\ op' = [op EXCEPT !.pc = "panels"] /\ UNCHANGED stream
    BY <1>3, SessionThere DEF CreateAnswered, TypeInv
  <2>2. \A t \in tasks : t.session <= born /\ t.session \in Nat
    BY TaskSessions DEF TypeInv, TaskTypes
  <2>3. \A t \in tasks : t.session # born + 1
    BY <2>1, <2>2
  <2>4. op'.pc = "panels"
    BY <2>1 DEF TypeInv, OpTypes, Op
  <2>5. wire' = <<>> /\ ~closed'
    BY <2>1 DEF StreamInv, stream
  <2>6. QED
    BY <2>1, <2>3, <2>4, <2>5, StreamElsewhere
<1>4. CASE GetAnswered \/ DetailsAnswered
  <2>1. /\ op.pc \in {"get", "details"} /\ tasks' = tasks /\ UNCHANGED stream
        /\ \/ op' = [op EXCEPT !.pc = "details"]
           \/ op' = [op EXCEPT !.pc = "panels"]
        /\ doubt' \/ (session' = session /\ doubt' = \E t \in tasks : t.session = session)
    BY <1>4 DEF GetAnswered, DetailsAnswered
  <2>2. op'.pc \in {"details", "panels"}
    BY <2>1 DEF TypeInv, OpTypes, Op
  <2>3. wire' = <<>> /\ ~closed'
    BY <2>1 DEF StreamInv, stream
  <2>4. QED
    BY <2>1, <2>2, <2>3, StreamElsewhere
<1>5. CASE RequestFails \/ Create \/ \E s \in 1..born : Resume(s)
  <2>1. UNCHANGED <<tasks, page, stream, doubt>> /\ op.pc # "turn" /\ op'.pc # "turn"
    <3>1. CASE RequestFails
      BY <3>1 DEF RequestFails, Idle
    <3>2. CASE Create \/ \E s \in 1..born : Resume(s)
      BY <3>2 DEF Create, Resume, Start, Busy, Idle
    <3>3. QED
      BY <1>5, <3>1, <3>2
  <2>2. wire' = <<>> /\ ~closed'
    BY <2>1 DEF StreamInv, stream
  <2>3. QED
    BY <2>1, <2>2, StreamNone, StreamElsewhere DEF page
<1>6. CASE \E s \in 1..born : Curate(s)
  <2>1. UNCHANGED <<tasks, page, op, stream, doubt>>
    BY <1>6 DEF Curate
  <2>2. QED
    BY <2>1, StreamKept DEF page, stream
<1>7. CASE Send
  <2> DEFINE new == NewTask("turn", asked + 1, asked + 1)
  <2>1. /\ tasks' = tasks \cup {new} /\ UNCHANGED <<page, stream, doubt>> /\ op.pc = "idle"
        /\ op' = [Idle EXCEPT !.pc = "turn", !.message = asked + 1, !.n = asked + 1,
                              !.again = FALSE]
    BY <1>7 DEF Send, RunTurn, Busy
  <2>2. new.kind = "turn" /\ new.session = session /\ new.n = asked + 1
        /\ new.message = asked + 1
    BY DEF NewTask
  <2>3. op'.pc = "turn" /\ op'.n = asked + 1 /\ op'.message = asked + 1
    BY <2>1 DEF Idle
  <2>4. \A u \in tasks : u.n # asked + 1
    <3>1. \A u \in tasks : u.n \in Nat /\ u.n <= asked
      BY BoundTypes DEF TypeInv, TaskTypes, Task, Turns, ServerTypes
    <3>2. asked \in Nat
      BY BoundTypes DEF TypeInv, OpTypes, ServerTypes
    <3>3. QED
      BY <3>1, <3>2
  <2> HIDE DEF new
  <2>5. QED
    BY <2>1, <2>2, <2>3, <2>4, StreamJoins DEF page, stream
<1>8. CASE Reroll
  <2> DEFINE message == transcript[LastPlayer].text[1]
             new == NewTask("delete", asked + 1, message)
  <2>1. /\ tasks' = tasks \cup {new}
        /\ UNCHANGED <<page, stream, doubt>> /\ op.pc = "idle"
        /\ op' = [Idle EXCEPT !.pc = "reroll", !.message = message, !.n = asked + 1]
    BY <1>8 DEF Reroll, Busy
  <2>2. new.kind = "delete"
    BY DEF NewTask
  <2> HIDE DEF message, new
  <2>3. op'.pc = "reroll"
    BY <2>1 DEF Idle
  <2>4. wire' = <<>> /\ ~closed'
    BY <2>1 DEF StreamInv, stream
  <2>5. QED
    BY <2>1, <2>2, <2>3, <2>4, StreamNone, StreamElsewhere DEF page
<1>9. CASE RerollFails
  <2>1. op.pc = "reroll" /\ op'.pc # "turn" /\ doubt' /\ UNCHANGED <<tasks, stream>>
    BY <1>9 DEF RerollFails, Idle
  <2>2. wire' = <<>> /\ ~closed'
    BY <2>1 DEF StreamInv, stream
  <2>3. QED
    BY <2>1, <2>2, StreamElsewhere
<1>10. CASE Reload
  <2>1. /\ tasks' = tasks /\ session' = 0 /\ wire' = <<>> /\ ~closed' /\ op'.pc # "turn"
    BY <1>10 DEF Reload, Idle
  <2>2. \A t \in tasks : t.session # 0
    BY TaskSessions
  <2>3. QED
    BY <2>1, <2>2, StreamElsewhere
<1>11. ASSUME NEW t \in tasks, RerollAnswered(t)  PROVE StreamInv'
  <2> DEFINE new == NewTask("turn", op.n, op.message)
  <2>1. /\ tasks' = (tasks \ {t}) \cup {new} /\ op.pc = "reroll" /\ op.n = t.n
        /\ UNCHANGED <<wire, closed, session, doubt>>
        /\ op' = [Idle EXCEPT !.pc = "turn", !.message = op.message, !.n = op.n, !.again = TRUE]
    BY <1>11 DEF RerollAnswered, Rerolls, RunTurn, stream
  <2>2. new.kind = "turn" /\ new.session = session /\ new.n = op.n /\ new.message = op.message
    BY DEF NewTask
  <2>3. op'.pc = "turn" /\ op'.n = op.n /\ op'.message = op.message
    BY <2>1 DEF Idle
  <2>4. \A u \in tasks \ {t} : u.n # op.n
    BY <2>1 DEF TypeInv, TaskTypes
  <2> DEFINE rest == tasks \ {t}
  <2>5. rest \in SUBSET tasks /\ tasks' = rest \cup {new} /\ op.pc # "turn"
    BY <2>1
  <2>6. /\ new.n = op'.n /\ new.message = op'.message
        /\ \A u \in rest : u.n # new.n
    BY <2>2, <2>3, <2>4
  <2> HIDE DEF new, rest
  <2>7. QED
    BY <2>1, <2>2, <2>3, <2>5, <2>6, StreamJoins
<1>12. ASSUME NEW t \in tasks, LateDelete(t) \/ DeleteRefused(t)  PROVE StreamInv'
  <2>1. /\ tasks' \subseteq tasks /\ session' = session /\ UNCHANGED stream
        /\ UNCHANGED <<op, doubt>> \/ (op.pc = "reroll" /\ op'.pc # "turn" /\ doubt')
    BY <1>12 DEF LateDelete, DeleteRefused, page, Rerolls, Idle
  <2>2. CASE UNCHANGED <<op, doubt>>
    BY <2>1, <2>2, StreamKept DEF stream
  <2>3. CASE op.pc = "reroll" /\ op'.pc # "turn" /\ doubt'
    <3>1. wire' = <<>> /\ ~closed'
      BY <2>1, <2>3 DEF StreamInv, stream
    <3>2. QED
      BY <2>3, <3>1, StreamElsewhere
  <2>4. QED
    BY <2>1, <2>2, <2>3
<1>13. ASSUME NEW t \in tasks, EnterStage(t)  PROVE StreamInv'
  <2>1. <<>> \o StageFrame = StageFrame
    <3>1. StageFrame \in Seq(Tokens({<<>>}))
      BY FrameTyped DEF StageFrame, Events
    <3>2. QED
      BY <3>1, ConcatEmptySeq
  <2>2. /\ Streams(t) /\ wire' = StageFrame
        /\ UNCHANGED <<tasks, page, op, closed, doubt>>
    BY <1>13, <2>1 DEF EnterStage, Emit
  <2>3. QED
    BY <2>2 DEF StreamInv, StreamsPage, TurnsDoubted, Streams, page
<1>14. ASSUME NEW t \in tasks, TurnRaises(t) \/ CancelTurn(t)  PROVE StreamInv'
  <2>1. /\ EndTask(t) /\ UNCHANGED <<page, op, doubt>> /\ (~Streams(t) => wire' = wire)
    BY <1>14 DEF TurnRaises, CancelTurn, Emit
  <2>2. QED
    BY <2>1, StreamEnds DEF page
<1>15. ASSUME NEW t \in tasks, NEW outcome, NEW fragmented, NEW saved \in BOOLEAN,
              StoreTurn(t, outcome, fragmented, saved)
       PROVE  StreamInv'
  <2>1. op'.pc = op.pc /\ op'.n = op.n /\ op'.message = op.message
    <3>1. op' = op \/ op' = [op EXCEPT !.saved = saved]
      BY <1>15 DEF StoreTurn
    <3>2. QED
      BY <3>1, OpSaved DEF TypeInv, OpTypes, Op
  <2>2. /\ EndTask(t) /\ UNCHANGED <<page, doubt>> /\ (~Streams(t) => wire' = wire)
    BY <1>15 DEF StoreTurn, Emit
  <2>3. QED
    BY <2>1, <2>2, StreamEnds DEF page
<1>16. CASE Timeout \/ \E length, split \in 0..Len(wire) : EndOfStream(length, split)
  <2>1. /\ op.pc = "turn" /\ op' = Idle /\ wire' = <<>> /\ ~closed'
        /\ tasks' = tasks /\ session' = session
        /\ doubt' \/ (closed /\ (doubt => doubt'))
    BY <1>16, StreamOver
  <2>2. ASSUME NEW t \in tasks, t.kind = "turn", t.session = session  PROVE doubt'
    <3>1. doubt \/ Streams(t)
      BY <2>2 DEF StreamInv, TurnsDoubted
    <3>2. Streams(t) => ~closed
      BY DEF StreamInv, StreamsPage
    <3>3. QED
      BY <2>1, <3>1, <3>2
  <2>3. op'.pc # "turn"
    BY <2>1 DEF Idle
  <2>4. QED
    BY <2>1, <2>2, <2>3, StreamElsewhere
<1>17. CASE UNCHANGED vars
  BY <1>17, StreamKept DEF vars, page, stream
<1>18. Turning \subseteq tasks
  BY DEF Turning
<1>19. QED
  BY <1>1, <1>2, <1>3, <1>4, <1>5, <1>6, <1>7, <1>8, <1>9, <1>10, <1>11, <1>12, <1>13,
     <1>14, <1>15, <1>16, <1>17, <1>18 DEF Next

-----------------------------------------------------------------------------
(* The transcript of a session's turns *)

LEMMA OwnEqual ==
    ASSUME NEW s, NEW t, s \in Seq(ToSet(s)), t \in Seq(ToSet(t)), Len(s) = Len(t),
           \A i \in 1..Len(s) : s[i] = t[i]
    PROVE  s = t
<1> DEFINE S == ToSet(s) \cup ToSet(t)
<1>1. s \in Seq(S) /\ t \in Seq(S)
  OBVIOUS
<1> HIDE DEF S
<1>2. QED
  BY <1>1, SeqEqual

LEMMA FullTranscriptIs ==
    ASSUME bound \in Bounds, NEW turns \in Seq(Turn)
    PROVE  /\ FullTranscript(turns) \in Seq(ToSet(FullTranscript(turns)))
           /\ Len(FullTranscript(turns)) = 2 * Len(turns)
           /\ \A i \in 1..2 * Len(turns) :
                FullTranscript(turns)[i] =
                   IF i % 2 = 1 THEN Player(turns[(i + 1) \div 2].message)
                   ELSE Assistant(Reply(turns[i \div 2].reply))
<1>1. FullTranscript(turns) \in Seq(ToSet(FullTranscript(turns)))
      /\ Len(FullTranscript(turns)) = 2 * Len(turns)
  BY DialogueOfTurns DEF Dialogue
<1>2. FullTranscript(turns)
        = [i \in 1..2 * Len(turns) |->
             IF i % 2 = 1 THEN Player(turns[(i + 1) \div 2].message)
             ELSE Assistant(Reply(turns[i \div 2].reply))]
  BY DEF FullTranscript
<1>3. QED
  BY <1>1, <1>2

LEMMA Halves ==
    ASSUME NEW n \in Nat, NEW i \in 1..2 * n
    PROVE  /\ i % 2 = 1 => (i + 1) \div 2 \in 1..n
           /\ i % 2 # 1 => i \div 2 \in 1..n
OBVIOUS

LEMMA LastHalves ==
    ASSUME NEW n \in Nat
    PROVE  /\ (2 * n + 1) % 2 = 1 /\ ((2 * n + 1) + 1) \div 2 = n + 1
           /\ (2 * n + 2) % 2 # 1 /\ (2 * n + 2) \div 2 = n + 1
           /\ ~(2 * n + 1 <= 2 * n) /\ (2 * n + 1) - 2 * n = 1
           /\ ~(2 * n + 2 <= 2 * n) /\ (2 * n + 2) - 2 * n = 2
OBVIOUS

LEMMA TranscriptOfNone ==
    ASSUME bound \in Bounds
    PROVE  FullTranscript(<<>>) = <<>>
<1>1. <<>> \in Seq(Turn) /\ Len(<<>>) = 0
  OBVIOUS
<1> DEFINE full == FullTranscript(<<>>)
<1>2. full \in Seq(ToSet(full)) /\ Len(full) = 2 * Len(<<>>)
  BY <1>1, FullTranscriptIs
<1> HIDE DEF full
<1>3. Len(full) = 0
  BY <1>2
<1>4. full = <<>>
  BY <1>2, <1>3
<1>5. QED
  BY <1>4 DEF full

\* A turn is stored.
LEMMA TranscriptGrows ==
    ASSUME bound \in Bounds, NEW turns \in Seq(Turn), NEW turn \in Turn
    PROVE  FullTranscript(Append(turns, turn)) =
             FullTranscript(turns) \o <<Player(turn.message), Assistant(Reply(turn.reply))>>
<1> DEFINE more == <<Player(turn.message), Assistant(Reply(turn.reply))>>
           new == Append(turns, turn)
           old == FullTranscript(turns)
           full == FullTranscript(new)
           n == Len(turns)
           S == ToSet(old) \cup {Player(turn.message), Assistant(Reply(turn.reply))}
<1>1. /\ new \in Seq(Turn) /\ Len(new) = n + 1 /\ new[n + 1] = turn /\ n \in Nat
      /\ \A i \in 1..n : new[i] = turns[i]
  BY AppendProperties
<1>2. /\ old \in Seq(ToSet(old)) /\ Len(old) = 2 * n
      /\ \A i \in 1..2 * n :
            old[i] = IF i % 2 = 1 THEN Player(turns[(i + 1) \div 2].message)
                     ELSE Assistant(Reply(turns[i \div 2].reply))
  BY FullTranscriptIs
<1> HIDE DEF new
<1>3. /\ full \in Seq(ToSet(full)) /\ Len(full) = 2 * (n + 1)
      /\ \A i \in 1..2 * (n + 1) :
            full[i] = IF i % 2 = 1 THEN Player(new[(i + 1) \div 2].message)
                      ELSE Assistant(Reply(new[i \div 2].reply))
  <2>1. new \in Seq(Turn) /\ Len(new) = n + 1
    BY <1>1
  <2> HIDE DEF n
  <2>2. QED
    BY <2>1, FullTranscriptIs
<1>4. more \in Seq(S) /\ Len(more) = 2 /\ more[1] = Player(turn.message)
      /\ more[2] = Assistant(Reply(turn.reply))
  OBVIOUS
<1>5. old \in Seq(S)
  BY <1>2
<1> DEFINE joined == old \o more
<1>6. /\ joined \in Seq(S) /\ Len(joined) = Len(old) + Len(more)
      /\ \A i \in 1..(Len(old) + Len(more)) :
            joined[i] = IF i <= Len(old) THEN old[i] ELSE more[i - Len(old)]
  <2>1. more \in Seq(S)
    BY <1>4
  <2> HIDE DEF more, old, S
  <2>2. QED
    BY <1>5, <2>1, ConcatProperties
<1> HIDE DEF more, old, full, joined, n, S
<1>7. ASSUME NEW i \in 1..2 * (n + 1)  PROVE full[i] = joined[i]
  <2>1. i \in 1..(Len(old) + Len(more))
    BY <1>1, <1>2, <1>4
  <2>2. CASE i <= 2 * n
    <3>1. i \in 1..2 * n /\ i <= Len(old)
      BY <1>1, <1>2, <2>2
    <3>2. joined[i] = old[i]
      BY <1>6, <2>1, <3>1
    <3>3. i % 2 = 1 => new[(i + 1) \div 2] = turns[(i + 1) \div 2]
      BY <1>1, <3>1, Halves
    <3>4. i % 2 # 1 => new[i \div 2] = turns[i \div 2]
      BY <1>1, <3>1, Halves
    <3>5. QED
      BY <1>2, <1>3, <3>1, <3>2, <3>3, <3>4
  <2>3. CASE i = 2 * n + 1
    <3>1. i % 2 = 1 /\ (i + 1) \div 2 = n + 1 /\ ~(i <= Len(old)) /\ i - Len(old) = 1
      BY <1>1, <1>2, <2>3, LastHalves
    <3>2. joined[i] = more[1]
      BY <1>6, <2>1, <3>1
    <3>3. full[i] = Player(new[n + 1].message)
      BY <1>3, <3>1
    <3>4. QED
      BY <1>1, <1>4, <3>2, <3>3
  <2>4. CASE i = 2 * n + 2
    <3>1. i % 2 # 1 /\ i \div 2 = n + 1 /\ ~(i <= Len(old)) /\ i - Len(old) = 2
      BY <1>1, <1>2, <2>4, LastHalves
    <3>2. joined[i] = more[2]
      BY <1>6, <2>1, <3>1
    <3>3. full[i] = Assistant(Reply(new[n + 1].reply))
      BY <1>3, <3>1
    <3>4. QED
      BY <1>1, <1>4, <3>2, <3>3
  <2>5. QED
    BY <1>1, <2>2, <2>3, <2>4
<1>8. Len(joined) = 2 * (n + 1) /\ joined \in Seq(ToSet(joined))
  BY <1>1, <1>2, <1>4, <1>6, SeqOfOwn
<1>9. full = joined
  BY <1>3, <1>7, <1>8, OwnEqual
<1>10. QED
  BY <1>9 DEF full, joined, old, more, new

\* The last turn is deleted.
LEMMA TranscriptShrinks ==
    ASSUME bound \in Bounds, NEW turns \in Seq(Turn), turns # <<>>
    PROVE  FullTranscript(Front(turns)) =
             SubSeq(FullTranscript(turns), 1, Len(FullTranscript(turns)) - 2)
<1> DEFINE new == Front(turns)
           old == FullTranscript(turns)
           full == FullTranscript(new)
           n == Len(turns) - 1
           S == ToSet(old)
<1>1. Len(turns) \in Nat /\ Len(turns) = n + 1 /\ n \in Nat
  OBVIOUS
<1>2. new \in Seq(Turn) /\ Len(new) = n /\ \A i \in 1..n : new[i] = turns[i]
  <2>1. \A i \in 1..n : turns[i] \in Turn
    BY <1>1
  <2>2. new = SubSeq(turns, 1, n)
    BY DEF Front
  <2>3. /\ SubSeq(turns, 1, n) \in Seq(Turn)
        /\ Len(SubSeq(turns, 1, n)) = IF 1 <= n THEN (n - 1) + 1 ELSE 0
        /\ \A i \in 1..((n - 1) + 1) : SubSeq(turns, 1, n)[i] = turns[(1 + i) - 1]
    BY <1>1, <2>1, SubSeqProperties
  <2>4. ASSUME NEW i \in 1..n  PROVE i \in 1..((n - 1) + 1) /\ (1 + i) - 1 = i
    BY <1>1
  <2> HIDE DEF new, n
  <2>5. ASSUME NEW i \in 1..n  PROVE new[i] = turns[i]
    <3>1. new[i] = turns[(1 + i) - 1]
      BY <2>2, <2>3, <2>4
    <3>2. QED
      BY <2>4, <3>1
  <2>6. Len(new) = n
    BY <1>1, <2>2, <2>3
  <2>7. QED
    BY <2>2, <2>3, <2>5, <2>6
<1> HIDE DEF n, new
<1>3. /\ old \in Seq(S) /\ Len(old) = 2 * (n + 1)
      /\ \A i \in 1..2 * (n + 1) :
            old[i] = IF i % 2 = 1 THEN Player(turns[(i + 1) \div 2].message)
                     ELSE Assistant(Reply(turns[i \div 2].reply))
  BY <1>1, FullTranscriptIs
<1>4. /\ full \in Seq(ToSet(full)) /\ Len(full) = 2 * n
      /\ \A i \in 1..2 * n :
            full[i] = IF i % 2 = 1 THEN Player(new[(i + 1) \div 2].message)
                      ELSE Assistant(Reply(new[i \div 2].reply))
  BY <1>2, FullTranscriptIs
<1> HIDE DEF old, full, S
<1> DEFINE cut == SubSeq(old, 1, Len(old) - 2)
<1>5. /\ cut \in Seq(S) /\ Len(cut) = 2 * n
      /\ \A i \in 1..2 * n : cut[i] = old[i]
  <2>1. Len(old) - 2 = 2 * n
    BY <1>1, <1>3
  <2> DEFINE m == 2 * n
  <2>2. m \in Nat /\ m <= Len(old) /\ Len(old) \in Nat
    BY <1>1, <1>3
  <2> HIDE DEF m
  <2>3. \A i \in 1..m : old[i] \in S
    BY <1>3, <2>2
  <2>4. /\ SubSeq(old, 1, m) \in Seq(S)
        /\ Len(SubSeq(old, 1, m)) = IF 1 <= m THEN (m - 1) + 1 ELSE 0
        /\ \A i \in 1..((m - 1) + 1) : SubSeq(old, 1, m)[i] = old[(1 + i) - 1]
    BY <2>2, <2>3, SubSeqProperties
  <2>5. ASSUME NEW i \in 1..m  PROVE i \in 1..((m - 1) + 1) /\ (1 + i) - 1 = i
    BY <2>2
  <2>6. ASSUME NEW i \in 1..m  PROVE SubSeq(old, 1, m)[i] = old[i]
    <3>1. SubSeq(old, 1, m)[i] = old[(1 + i) - 1]
      BY <2>4, <2>5
    <3>2. QED
      BY <2>5, <3>1
  <2>7. Len(SubSeq(old, 1, m)) = m
    BY <2>2, <2>4
  <2>8. QED
    BY <2>1, <2>4, <2>6, <2>7 DEF m
<1> HIDE DEF cut
<1>6. ASSUME NEW i \in 1..2 * n  PROVE full[i] = cut[i]
  <2>1. i \in 1..2 * (n + 1)
    BY <1>1
  <2>2. i % 2 = 1 => new[(i + 1) \div 2] = turns[(i + 1) \div 2]
    BY <1>1, <1>2, Halves
  <2>3. i % 2 # 1 => new[i \div 2] = turns[i \div 2]
    BY <1>1, <1>2, Halves
  <2>4. QED
    BY <1>3, <1>4, <1>5, <2>1, <2>2, <2>3
<1>7. cut \in Seq(ToSet(cut))
  BY <1>5, SeqOfOwn
<1>8. full = cut
  BY <1>4, <1>5, <1>6, <1>7, OwnEqual
<1>9. QED
  BY <1>8 DEF full, cut, old, new

-----------------------------------------------------------------------------
(* The transcript and the history *)

Stored == FullTranscript(history[session])

\* The turn has ended, and the page has not read all of it yet: either there is no
\* answer and nothing was stored, or the answer is all that the transcript lacks.
Ended ==
    \E begin \in {<<>>, StageFrame} :
        \/ wire \in {begin, begin \o ErrorFrame} /\ transcript = Stored
        \/ \E outcome \in {"success", "controlled_failure"}, fragmented \in BOOLEAN :
            /\ wire = begin \o TurnFrames(Reply(op.n), outcome, fragmented)
            /\ op.saved => Stored = transcript \o
                             <<Player(op.message), Assistant(Reply(op.n))>>

HistoryInv ==
    session # 0 /\ ~doubt =>
        IF op.pc = "turn" /\ closed THEN Ended ELSE transcript = Stored

LEMMA HistorySame ==
    ASSUME HistoryInv, UNCHANGED <<session, transcript, op, wire, closed>>,
           doubt => doubt', session # 0 /\ ~doubt' => history'[session] = history[session]
    PROVE  HistoryInv'
<1> SUFFICES ASSUME session' # 0, ~doubt'
             PROVE  IF op'.pc = "turn" /\ closed' THEN Ended' ELSE transcript' = Stored'
  BY DEF HistoryInv
<1>1. Stored' = Stored
  BY DEF Stored
<1>2. Ended => Ended'
  BY <1>1 DEF Ended
<1>3. QED
  BY <1>1, <1>2 DEF HistoryInv

\* No stream has ended, before or after the step.
LEMMA HistoryOpen ==
    ASSUME HistoryInv, ~closed, ~closed', UNCHANGED <<session, transcript>>,
           doubt => doubt', session # 0 /\ ~doubt' => history'[session] = history[session]
    PROVE  HistoryInv'
BY DEF HistoryInv, Stored

\* A turn ends without being stored.
LEMMA HistoryRaised ==
    ASSUME TypeInv, StreamInv, HistoryInv, NEW t \in tasks, TurnRaises(t) \/ CancelTurn(t)
    PROVE  HistoryInv'
<1>1. /\ EndTask(t) /\ UNCHANGED <<server, page, op, doubt>>
      /\ ~Streams(t) => wire' = wire
      /\ Streams(t) => \E tokens \in {ErrorFrame, <<>>} : wire' = wire \o tokens
  BY DEF TurnRaises, CancelTurn, Emit
<1>2. UNCHANGED <<session, transcript, history, doubt>>
  BY <1>1 DEF server, page
<1>3. CASE ~Streams(t)
  <2>1. closed' = closed
    BY <1>1, <1>3 DEF EndTask, TypeInv, OpTypes
  <2>2. QED
    BY <1>1, <1>2, <1>3, <2>1, HistorySame
<1>4. CASE Streams(t)
  <2>1. op.pc = "turn" /\ ~closed
    BY <1>4 DEF Streams, StreamInv, StreamsPage
  <2>2. wire \in {<<>>, StageFrame}
    BY <2>1 DEF StreamInv
  <2>3. wire \o <<>> = wire
    <3>1. StageFrame \in Seq(Tokens({<<>>})) /\ <<>> \in Seq(Tokens({<<>>}))
      BY FrameTyped DEF StageFrame, Events
    <3>2. wire \in Seq(Tokens({<<>>}))
      BY <2>2, <3>1
    <3>3. QED
      BY <3>2, ConcatEmptySeq
  <2>4. wire' \in {wire, wire \o ErrorFrame}
    BY <1>1, <1>4, <2>3
  <2>5. session # 0 /\ ~doubt => transcript' = Stored'
    BY <1>2, <2>1 DEF HistoryInv, Stored
  <2>6. session # 0 /\ ~doubt => Ended'
    BY <2>2, <2>4, <2>5 DEF Ended
  <2>7. op'.pc = "turn" /\ closed'
    BY <1>1, <1>4, <2>1 DEF EndTask
  <2>8. QED
    BY <1>2, <2>6, <2>7 DEF HistoryInv
<1>5. QED
  BY <1>3, <1>4

\* A turn ends, stored or not.
LEMMA HistoryStored ==
    ASSUME TypeInv, StreamInv, HistoryInv, NEW t \in tasks, t \in Turning,
           NEW outcome \in {"success", "controlled_failure"}, NEW fragmented \in BOOLEAN,
           NEW saved \in BOOLEAN, StoreTurn(t, outcome, fragmented, saved)
    PROVE  HistoryInv'
<1> DEFINE turn == NewTurn(t)
<1>1. /\ EndTask(t) /\ UNCHANGED <<session, transcript, doubt>>
      /\ wire' = IF Streams(t) THEN wire \o TurnFrames(Reply(t.n), outcome, fragmented)
                 ELSE wire
      /\ op' = IF Streams(t) THEN [op EXCEPT !.saved = saved] ELSE op
      /\ history' = IF saved THEN [history EXCEPT ![t.session] = Append(@, turn)]
                    ELSE history
  BY DEF StoreTurn, Emit, page
<1>2. /\ t.session \in Sessions /\ t.message \in Turns /\ t.n \in Turns /\ t.kind = "turn"
      /\ history \in [Sessions -> Seq(Turn)] /\ bound \in Bounds /\ op \in Op
  BY TaskSessions DEF TypeInv, TaskTypes, Task, ServerTypes, OpTypes, Turning
<1>3. CASE ~Streams(t)
  <2>1. closed' = closed /\ op' = op /\ wire' = wire
    BY <1>1, <1>3 DEF EndTask, TypeInv, OpTypes
  <2>2. t.session = session => doubt
    BY <1>2, <1>3 DEF StreamInv, TurnsDoubted
  <2>3. session # 0 /\ ~doubt' => history'[session] = history[session]
    BY <1>1, <1>2, <2>2
  <2>4. QED
    BY <1>1, <2>1, <2>3, HistorySame
<1>4. CASE Streams(t)
  <2>1. /\ op.pc = "turn" /\ ~closed /\ op.n = t.n /\ t.session = session
        /\ t.message = op.message
    BY <1>4 DEF Streams, StreamInv, StreamsPage
  <2>2. wire \in {<<>>, StageFrame}
    BY <2>1 DEF StreamInv
  <2>3. /\ op'.pc = "turn" /\ op'.n = op.n /\ op'.message = op.message /\ op'.saved = saved
    BY <1>1, <1>2, <1>4, <2>1, OpSaved DEF Op
  <2>4. ASSUME saved, session # 0, ~doubt
        PROVE  Stored' = transcript' \o <<Player(op'.message), Assistant(Reply(op'.n))>>
    <3>1. transcript = FullTranscript(history[session])
      BY <2>1, <2>4 DEF HistoryInv, Stored
    <3>2. history'[session] = Append(history[session], turn)
      BY <1>1, <1>2, <2>1, <2>4
    <3>3. turn \in Turn /\ turn.message = op'.message /\ turn.reply = op'.n
      <4>1. kept[t.session] \subseteq Turns
        BY <1>2 DEF TypeInv, ServerTypes
      <4>2. QED
        BY <1>2, <2>1, <2>3, <4>1 DEF NewTurn, Turn
    <3>4. history[session] \in Seq(Turn)
      BY <1>2, <2>1
    <3> HIDE DEF turn
    <3>5. FullTranscript(Append(history[session], turn))
            = FullTranscript(history[session])
                \o <<Player(turn.message), Assistant(Reply(turn.reply))>>
      BY <1>2, <3>3, <3>4, TranscriptGrows
    <3>6. Stored' = FullTranscript(history'[session])
      BY <1>1 DEF Stored
    <3>7. QED
      BY <1>1, <3>1, <3>2, <3>3, <3>5, <3>6
  <2>5. wire' = wire \o TurnFrames(Reply(op'.n), outcome, fragmented)
    BY <1>1, <1>4, <2>1, <2>3
  <2>6. session # 0 /\ ~doubt => Ended'
    BY <2>2, <2>3, <2>4, <2>5 DEF Ended
  <2>7. op'.pc = "turn" /\ closed'
    BY <1>1, <1>4, <2>3 DEF EndTask
  <2>8. QED
    BY <1>1, <2>6, <2>7 DEF HistoryInv
<1>5. QED
  BY <1>3, <1>4

\* The page reads the turn's stream to its end, or to where it is cut.
LEMMA HistoryRead ==
    ASSUME TypeInv, StreamInv, HistoryInv,
           Timeout \/ \E length, split \in 0..Len(wire) : EndOfStream(length, split)
    PROVE  HistoryInv'
<1>1. /\ op.pc = "turn" /\ op'.pc # "turn" /\ UNCHANGED <<history, session>>
      /\ \/ doubt'
         \/ closed /\ \E length \in 0..Len(wire), split \in 0..Len(wire) :
              /\ split <= length
              /\ LET reader == Received(wire, length, split) IN
                 IF reader.failed
                 THEN transcript' = transcript /\ doubt' = (doubt \/ length < Len(wire))
                 ELSE /\ transcript' = transcript \o
                           <<Player(op.message), Assistant(reader.text)>>
                      /\ doubt' = (doubt \/ ~op.saved)
  <2>1. op.pc = "turn" /\ op' = Idle /\ UNCHANGED <<server, session>>
    BY StreamOver
  <2>2. op'.pc # "turn"
    BY <2>1 DEF Idle
  <2>3. UNCHANGED <<history, session>>
    BY <2>1 DEF server
  <2>4. \/ doubt'
        \/ closed /\ \E length \in 0..Len(wire), split \in 0..Len(wire) :
             /\ split <= length
             /\ LET reader == Received(wire, length, split) IN
                IF reader.failed
                THEN transcript' = transcript /\ doubt' = (doubt \/ length < Len(wire))
                ELSE /\ transcript' = transcript \o
                          <<Player(op.message), Assistant(reader.text)>>
                     /\ doubt' = (doubt \/ ~op.saved)
    BY StreamOver
  <2>5. QED
    BY <2>1, <2>2, <2>3, <2>4
<1> SUFFICES ASSUME session # 0, ~doubt'  PROVE transcript' = Stored
  BY <1>1 DEF HistoryInv, Stored
<1>2. PICK length \in 0..Len(wire), split \in 0..Len(wire) :
          /\ closed /\ split <= length
          /\ LET reader == Received(wire, length, split) IN
             IF reader.failed
             THEN transcript' = transcript /\ doubt' = (doubt \/ length < Len(wire))
             ELSE /\ transcript' = transcript \o
                       <<Player(op.message), Assistant(reader.text)>>
                  /\ doubt' = (doubt \/ ~op.saved)
  BY <1>1
<1> DEFINE reader == Received(wire, length, split)
<1>3. split \in 0..length
  BY <1>2
<1>4. Ended
  BY <1>1, <1>2 DEF HistoryInv
<1>5. PICK begin \in {<<>>, StageFrame} :
        \/ wire \in {begin, begin \o ErrorFrame} /\ transcript = Stored
        \/ \E outcome \in {"success", "controlled_failure"}, fragmented \in BOOLEAN :
            /\ wire = begin \o TurnFrames(Reply(op.n), outcome, fragmented)
            /\ op.saved => Stored = transcript \o
                             <<Player(op.message), Assistant(Reply(op.n))>>
  BY <1>4 DEF Ended
<1>6. CASE wire \in {begin, begin \o ErrorFrame} /\ transcript = Stored
  <2>1. reader.failed
    BY <1>3, <1>6, NothingReceived
  <2>2. QED
    BY <1>2, <1>6, <2>1
<1>7. ASSUME NEW outcome \in {"success", "controlled_failure"}, NEW fragmented \in BOOLEAN,
             wire = begin \o TurnFrames(Reply(op.n), outcome, fragmented),
             op.saved => Stored = transcript \o
                           <<Player(op.message), Assistant(Reply(op.n))>>
      PROVE  transcript' = Stored
  <2>1. Answered(reader, Reply(op.n), length, wire)
    BY <1>3, <1>7, TurnReceived
  <2> HIDE DEF reader
  <2>2. CASE reader.failed
    <3>1. length < Len(wire)
      <4>1. length # Len(wire)
        BY <2>1, <2>2 DEF Answered
      <4>2. length \in Nat /\ length <= Len(wire)
        BY <1>2
      <4>3. Len(wire) \in Nat
        BY <4>2, <1>2
      <4>4. QED
        BY <4>1, <4>2, <4>3
    <3>2. doubt'
      BY <1>2, <2>2, <3>1 DEF reader
    <3>3. QED
      BY <3>2
  <2>3. CASE ~reader.failed
    <3>1. reader.text = Reply(op.n)
      BY <2>1, <2>3 DEF Answered
    <3>2. transcript' = transcript \o <<Player(op.message), Assistant(Reply(op.n))>> /\ op.saved
      BY <1>2, <2>3, <3>1 DEF reader
    <3>3. QED
      BY <1>7, <3>2
  <2>4. QED
    BY <2>2, <2>3
<1>8. QED
  BY <1>5, <1>6, <1>7

LEMMA HistoryStep ==
    ASSUME TypeInv, StreamInv, DeletesDoubted, HistoryInv, [Next]_vars
    PROVE  HistoryInv'
<1>1. CASE \/ ClickRefresh \/ ClickAdd \/ UNCHANGED vars
           \/ \E fact \in 1..bound.facts : ClickDelete(fact)
           \/ \E s \in 1..born : Curate(s)
  <2>1. UNCHANGED <<session, transcript, op, wire, closed, doubt, history>>
    <3>1. CASE ClickRefresh \/ ClickAdd \/ \E fact \in 1..bound.facts : ClickDelete(fact)
      BY <3>1 DEF ClickRefresh, ClickAdd, ClickDelete, page, stream, server
    <3>2. CASE UNCHANGED vars
      BY <3>2 DEF vars, page, stream, server
    <3>3. CASE \E s \in 1..born : Curate(s)
      BY <3>3 DEF Curate, page, stream
    <3>4. QED
      BY <1>1, <3>1, <3>2, <3>3
  <2>2. QED
    BY <2>1, HistorySame
<1>2. ASSUME NEW c \in Slots, Serve(c) \/ Answer(c) \/ CallFails(c)
      PROVE  HistoryInv'
  <2>1. /\ UNCHANGED <<session, transcript, wire, closed, doubt, history>>
        /\ op' = op \/ op.pc = "panels"
    BY <1>2 DEF Serve, Answer, CallFails, Settled, page, stream, server
  <2>2. CASE op' = op
    BY <2>1, <2>2, HistorySame
  <2>3. CASE op.pc = "panels"
    <3>1. ~closed
      BY <2>3 DEF StreamInv
    <3>2. QED
      BY <2>1, <3>1, HistoryOpen
  <2>4. QED
    BY <2>1, <2>2, <2>3
<1>3. CASE CreateAnswered
  <2>1. /\ op.pc = "create" /\ session' = born + 1 /\ transcript' = <<>>
        /\ history' = history /\ closed' = closed
    BY <1>3 DEF CreateAnswered, stream
  <2>2. ~closed'
    BY <2>1 DEF StreamInv
  <2>3. history[born + 1] = <<>>
    <3>1. born + 1 \in Sessions /\ born + 1 > born
      BY <2>1, BoundTypes DEF TypeInv, ServerTypes, OpTypes, Sessions
    <3>2. QED
      BY <3>1 DEF TypeInv, ServerTypes
  <2>4. Stored' = FullTranscript(<<>>)
    BY <2>1, <2>3 DEF Stored
  <2>5. FullTranscript(<<>>) = <<>>
    BY TranscriptOfNone DEF TypeInv, ServerTypes
  <2>6. QED
    BY <2>1, <2>2, <2>4, <2>5 DEF HistoryInv
<1>4. CASE GetAnswered \/ RerollFails
  BY <1>4 DEF GetAnswered, RerollFails, HistoryInv
<1>5. CASE DetailsAnswered
  <2>1. /\ op.pc = "details" /\ transcript' = FullTranscript(history[session])
        /\ UNCHANGED <<history, session, closed>>
    BY <1>5 DEF DetailsAnswered, SessionTurnDetails, server, stream
  <2>2. ~closed'
    BY <2>1 DEF StreamInv
  <2>3. transcript' = Stored'
    BY <2>1 DEF Stored
  <2>4. QED
    BY <2>2, <2>3 DEF HistoryInv
<1>6. CASE RequestFails \/ Create \/ (\E s \in 1..born : Resume(s)) \/ Send \/ Reroll
  <2>1. /\ op.pc # "turn"
        /\ UNCHANGED <<session, transcript, wire, closed, doubt, history>>
    <3>1. CASE RequestFails
      BY <3>1 DEF RequestFails, page, stream
    <3>2. CASE Create \/ \E s \in 1..born : Resume(s)
      BY <3>2 DEF Create, Resume, Start, Busy, page, stream, server
    <3>3. CASE Send
      BY <3>3 DEF Send, RunTurn, Busy, page, stream, server
    <3>4. CASE Reroll
      BY <3>4 DEF Reroll, Busy, page, stream, server
    <3>5. QED
      BY <1>6, <3>1, <3>2, <3>3, <3>4
  <2>2. ~closed
    BY <2>1 DEF StreamInv
  <2>3. QED
    BY <2>1, <2>2, HistoryOpen
<1>7. CASE Reload
  BY <1>7 DEF Reload, HistoryInv
<1>8. ASSUME NEW t \in tasks, RerollAnswered(t)  PROVE HistoryInv'
  <2>1. /\ op.pc = "reroll" /\ transcript' = Slice /\ UNCHANGED <<session, closed, doubt>>
        /\ history[session] # <<>>
        /\ history' = [history EXCEPT ![session] = Front(@)]
    BY <1>8 DEF RerollAnswered, Rerolls, RunTurn, DeleteLastTurn, stream
  <2>2. ~closed'
    BY <2>1 DEF StreamInv
  <2>3. ASSUME session # 0, ~doubt  PROVE transcript' = Stored'
    <3>1. session \in Sessions /\ history \in [Sessions -> Seq(Turn)] /\ bound \in Bounds
      BY <2>3, SessionThere DEF TypeInv, ServerTypes
    <3>2. transcript = FullTranscript(history[session])
      BY <2>1, <2>3 DEF HistoryInv, Stored
    <3>3. history'[session] = Front(history[session]) /\ history[session] \in Seq(Turn)
      BY <2>1, <3>1
    <3>4. FullTranscript(Front(history[session]))
            = SubSeq(FullTranscript(history[session]), 1,
                     Len(FullTranscript(history[session])) - 2)
      BY <2>1, <3>1, <3>3, TranscriptShrinks
    <3>5. Stored' = FullTranscript(Front(history[session]))
      BY <2>1, <3>3 DEF Stored
    <3>6. QED
      BY <2>1, <3>2, <3>4, <3>5 DEF Slice
  <2>4. QED
    BY <2>1, <2>2, <2>3 DEF HistoryInv
<1>9. ASSUME NEW t \in tasks, LateDelete(t)  PROVE HistoryInv'
  <2>1. /\ UNCHANGED <<session, transcript, op, wire, closed, doubt>>
        /\ t.kind = "delete" /\ ~Rerolls(t)
        /\ history' = [history EXCEPT ![t.session] = Front(@)]
    BY <1>9 DEF LateDelete, DeleteLastTurn, page, stream
  <2>2. session # 0 /\ ~doubt' => history'[session] = history[session]
    <3>1. t.session = session => doubt
      BY <2>1 DEF DeletesDoubted
    <3>2. session # 0 => session \in Sessions
      BY SessionThere DEF TypeInv
    <3>3. history \in [Sessions -> Seq(Turn)]
      BY DEF TypeInv, ServerTypes
    <3>4. QED
      BY <2>1, <3>1, <3>2, <3>3
  <2>3. QED
    BY <2>1, <2>2, HistorySame
<1>10. ASSUME NEW t \in tasks, DeleteRefused(t)  PROVE HistoryInv'
  <2>1. /\ UNCHANGED <<session, transcript, wire, closed, history>>
        /\ doubt' \/ UNCHANGED <<op, doubt>>
    BY <1>10 DEF DeleteRefused, page, stream, server
  <2>2. CASE doubt'
    BY <2>2 DEF HistoryInv
  <2>3. CASE UNCHANGED <<op, doubt>>
    BY <2>1, <2>3, HistorySame
  <2>4. QED
    BY <2>1, <2>2, <2>3
<1>11. ASSUME NEW t \in tasks, EnterStage(t)  PROVE HistoryInv'
  <2>1. Streams(t) /\ UNCHANGED <<session, transcript, closed, doubt, history>>
    BY <1>11 DEF EnterStage, page, server
  <2>2. ~closed
    BY <2>1 DEF StreamInv, StreamsPage
  <2>3. QED
    BY <2>1, <2>2, HistoryOpen
<1>12. ASSUME NEW t \in tasks, TurnRaises(t) \/ CancelTurn(t)  PROVE HistoryInv'
  BY <1>12, HistoryRaised
<1>13. ASSUME NEW t \in Turning, NEW outcome \in {"success", "controlled_failure"},
              NEW fragmented \in BOOLEAN, NEW saved \in BOOLEAN,
              StoreTurn(t, outcome, fragmented, saved)
       PROVE  HistoryInv'
  <2>1. t \in tasks
    BY DEF Turning
  <2>2. QED
    BY <1>13, <2>1, HistoryStored
<1>14. CASE Timeout \/ \E length, split \in 0..Len(wire) : EndOfStream(length, split)
  BY <1>14, HistoryRead
<1>15. Turning \subseteq tasks
  BY DEF Turning
<1>16. QED
  BY <1>1, <1>2, <1>3, <1>4, <1>5, <1>6, <1>7, <1>8, <1>9, <1>10, <1>11, <1>12, <1>13,
     <1>14, <1>15 DEF Next

ViewInv == StreamInv /\ DeletesDoubted /\ HistoryInv

\* An idle page shows its session's stored turns, message for message and reply
\* for reply, in order, unless a turn or a delete ended without the client being
\* told how: whatever was sent and rerolled, wherever the chunks of the turns'
\* streams were split, and wherever the streams were cut.
THEOREM TranscriptAgrees == Spec => []TranscriptIsHistory
<1>1. Init => TypeInv /\ ViewInv
  <2>1. ASSUME Init  PROVE ViewInv
    <3>1. /\ tasks = {} /\ op = Idle /\ wire = <<>> /\ ~closed /\ session = 0
      BY <2>1 DEF Init
    <3>2. op.pc # "turn"
      BY <3>1 DEF Idle
    <3>3. StreamInv
      BY <3>1, <3>2 DEF StreamInv, StreamsPage, TurnsDoubted
    <3>4. QED
      BY <3>1, <3>3 DEF ViewInv, DeletesDoubted, HistoryInv
  <2>2. QED
    BY <2>1, InitTypes
<1>2. TypeInv /\ ViewInv /\ [Next]_vars => TypeInv' /\ ViewInv'
  BY StepTypes, StreamStep, DoubtStep, HistoryStep DEF ViewInv
<1>3. ViewInv => TranscriptIsHistory
  BY DEF ViewInv, HistoryInv, TranscriptIsHistory, Stored, Busy
<1>4. QED
  BY <1>1, <1>2, <1>3, PTL DEF Spec
=============================================================================
