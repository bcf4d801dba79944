------------------------------ MODULE MCTurnApi ------------------------------
EXTENDS TurnApiInv, TLC

\* requests, and rerolls, are interchangeable; personas and scenes are not:
\* the initial ones are named
Interchangeable == Permutations(Requests) \cup Permutations(Rerolls)
=============================================================================
