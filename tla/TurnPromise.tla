---------------------------- MODULE TurnPromise ----------------------------
(***************************************************************************)
(* What run_turn promises about its answer, whatever the models do: only a *)
(* text that has been approved is served, a controlled failure is given    *)
(* only when nothing was approved, and the answer, once given, stands.     *)
(***************************************************************************)
CONSTANT Texts

VARIABLES
    approved,   \* texts that review has let through
    answer      \* "pending", a text, "refused" (controlled failure) or "aborted"

promiseVars == <<approved, answer>>

Init ==
    /\ approved = {}
    /\ answer = "pending"

Review(approvals) ==
    /\ approvals # {}
    /\ approved' = approved \cup approvals
    /\ UNCHANGED answer

Serve(t, approvals) ==
    /\ approved' = approved \cup approvals
    /\ t \in approved'
    /\ answer' = t

Refuse ==
    /\ approved = {}
    /\ answer' = "refused"
    /\ UNCHANGED approved

Abort ==
    /\ answer' = "aborted"
    /\ UNCHANGED approved

Next ==
    /\ answer = "pending"
    /\ \/ \E approvals \in SUBSET Texts :
            Review(approvals) \/ \E t \in Texts : Serve(t, approvals)
       \/ Refuse
       \/ Abort

Spec == Init /\ [][Next]_promiseVars
=============================================================================
