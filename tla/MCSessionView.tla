--------------------------- MODULE MCSessionView ---------------------------
(* SessionView with turns beside resting panels, with panels beside one turn *)
(* at most, and with panels alone, three calls at once.                      *)
EXTENDS SessionView

Bound(s, t, f, c, l) == [sessions |-> s, turns |-> t, facts |-> f, calls |-> c, late |-> l]

MCBounds ==
    {Bound(2, 2, 0, 2, 1), Bound(1, 3, 0, 2, 0), Bound(1, 2, 0, 3, 1), Bound(1, 0, 2, 3, 0)}
=============================================================================
