---------------------------- MODULE MCLoreIngest ----------------------------
(* LoreIngest with a long document and a short one. *)
EXTENDS LoreIngest, TLC

CONSTANTS d1, d2, c1, c2, c3

LongAndShort == d1 :> {c1, c2} @@ d2 :> {c3}
OneChunk == d1 :> {c1}

Symmetry == Permutations({c1, c2}) \cup Permutations(Models)
                \cup Permutations(Ingests)
=============================================================================
