---------------------------- MODULE TurnPipeline ----------------------------
(***************************************************************************)
(* The model calls of one turn: the draft, its critique, at most one       *)
(* repair and the re-check of the repair, with every retry and every way   *)
(* out of TurnOrchestrator.run_turn.  This is what TurnApi leaves as a     *)
(* choice in PersistTurn, ProviderError and Disconnect.                    *)
(*                                                                         *)
(* An action is one answer of a model (or its failure) and everything the  *)
(* code does up to the next request it sends.                              *)
(***************************************************************************)
EXTENDS Naturals

VARIABLES
    setup,      \* what the turn starts from: gating, provider, risk of the scene
    phase,      \* the stage that awaits a model, or "ended"
    ask,        \* the request in flight: widened budget, second try after an empty one
    flagged,    \* validate_draft has flagged the draft
    verdict,    \* what became of each text in review
    result,     \* the turn's outcome, text, critic status and usage
    calls       \* model calls per stage

vars == <<setup, phase, ask, flagged, verdict, result, calls>>

Texts == {"draft", "repair"}
ActorPhases == {"generating", "repairing"}
CriticPhases == {"critiquing", "rechecking"}
Phases == ActorPhases \cup CriticPhases

Providers == {"local", "cloud"}

\* retrieval.confidence is None, below or above the threshold; scene_complexity
\* is at the threshold or below
Setup == [gating : {"always", "auto"}, provider : Providers,
          confidence : {"none", "low", "good"}, complex : BOOLEAN]

Verdicts == {"unseen", "gated", "accepted", "rejected", "failed"}

Statuses == {"skipped", "accepted", "rejected", "repaired"}

Result == [outcome : {"none", "success", "controlled_failure", "failed"},
           text : Texts \cup {"none", "failure_text"},
           status : Statuses, usage : Texts \cup {"none"}]

NoResult == [outcome |-> "none", text |-> "none", status |-> "skipped", usage |-> "none"]

FirstAsk == [wide |-> FALSE, again |-> FALSE]

TypeOK ==
    /\ setup \in Setup
    /\ phase \in Phases \cup {"ended"}
    /\ ask \in [wide : BOOLEAN, again : BOOLEAN]
    /\ flagged \in BOOLEAN
    /\ verdict \in [Texts -> Verdicts]
    /\ result \in Result
    /\ calls \in [Phases -> Nat]

-----------------------------------------------------------------------------
(* Requests *)

\* the stage sends one more request
Send(task) == calls' = [calls EXCEPT ![task] = @ + 1]

\* a stage sends its first request
Enter(task) ==
    /\ phase' = task
    /\ ask' = FirstAsk
    /\ Send(task)

End(outcome, text, status, usage) ==
    /\ phase' = "ended"
    /\ result' = [outcome |-> outcome, text |-> text, status |-> status, usage |-> usage]
    /\ UNCHANGED <<ask, calls>>

Init ==
    /\ setup \in Setup
    /\ phase = "generating"
    /\ ask = FirstAsk
    /\ flagged = FALSE
    /\ verdict = [t \in Texts |-> "unseen"]
    /\ result = NoResult
    /\ calls = [p \in Phases |-> IF p = "generating" THEN 1 ELSE 0]

-----------------------------------------------------------------------------
(* Review *)

\* _is_risky_turn
IsRisky(flags, confidence, complex, provider) ==
    flags \/ confidence # "good" \/ complex \/ provider = "cloud"

\* Variant: the first critique is not told the flags
DraftRiskyUnflagged(flags) ==
    IsRisky(FALSE, setup.confidence, setup.complex, setup.provider)

\* the first critique is told the flags and what retrieval and routing found
DraftRisky(flags) == IsRisky(flags, setup.confidence, setup.complex, setup.provider)

\* the re-check is told nothing of them, so its confidence is None
RepairRisky == IsRisky(FALSE, "none", FALSE, setup.provider)

Gated(risky) == setup.gating = "auto" /\ ~risky

LetThrough(v) == v \in {"gated", "accepted"}

\* Variant: the verdict itself is stored
StatusIsVerdict(v) == v

BaseStatus(v) == IF v = "gated" THEN "skipped" ELSE "accepted"

\* the validator alone asked for the repair
ValidatorForced(v, flags) == flags /\ LetThrough(v)

\* resolve(), once the draft's review is known
Resolve(v, flags) ==
    /\ verdict' = [verdict EXCEPT !["draft"] = v]
    /\ \/ /\ v = "failed"
          /\ End("controlled_failure", "failure_text", "rejected", "draft")
       \/ /\ LetThrough(v) /\ ~ValidatorForced(v, flags)
          /\ End("success", "draft", BaseStatus(v), "draft")
       \/ /\ v = "rejected" \/ ValidatorForced(v, flags)
          /\ Enter("repairing")
          /\ UNCHANGED result

\* Variant: the repair's usage is kept with the draft
AbandonRepairKeepUsage(usage) ==
    IF ValidatorForced(verdict["draft"], flagged)
    THEN End("success", "draft", BaseStatus(verdict["draft"]), usage)
    ELSE End("controlled_failure", "failure_text", "rejected", usage)

\* Variant: a failed repair fails the turn, whoever asked for it
AbandonRepairAlways(usage) == End("controlled_failure", "failure_text", "rejected", usage)

\* the repair did not come off: the draft is good enough when only the
\* validator asked for better; otherwise usage names the last whole generation
AbandonRepair(usage) ==
    IF ValidatorForced(verdict["draft"], flagged)
    THEN End("success", "draft", BaseStatus(verdict["draft"]), "draft")
    ELSE End("controlled_failure", "failure_text", "rejected", usage)

-----------------------------------------------------------------------------
(* Answers of the actor: _generate_non_empty inside _generate_complete *)

\* an empty text is asked for once more, within the same budget
RetryEmpty ==
    /\ phase \in ActorPhases
    /\ ~ask.again
    /\ ask' = [ask EXCEPT !.again = TRUE]
    /\ Send(phase)
    /\ UNCHANGED <<setup, phase, flagged, verdict, result>>

\* Variant: the larger budget is not remembered
RetryTruncatedForever ==
    /\ phase \in ActorPhases
    /\ ~ask.wide
    /\ ask' = FirstAsk
    /\ Send(phase)
    /\ UNCHANGED <<setup, phase, flagged, verdict, result>>

\* a truncated text is asked for once more with a larger budget, and that
\* request may be empty once again
RetryTruncated ==
    /\ phase \in ActorPhases
    /\ ~ask.wide
    /\ ask' = [wide |-> TRUE, again |-> FALSE]
    /\ Send(phase)
    /\ UNCHANGED <<setup, phase, flagged, verdict, result>>

\* empty twice running, or truncated within the larger budget
GenerationFails ==
    /\ phase \in ActorPhases
    /\ ask.again \/ ask.wide
    /\ IF phase = "generating"
       THEN End("controlled_failure", "failure_text", "skipped", "none")
       ELSE AbandonRepair("draft")
    /\ UNCHANGED <<setup, flagged, verdict>>

\* a complete draft is validated and sent to the critic, unless that is gated
DraftDone(flags) ==
    /\ phase = "generating"
    /\ flagged' = flags
    /\ IF Gated(DraftRisky(flags))
       THEN Resolve("gated", flags)
       ELSE Enter("critiquing") /\ UNCHANGED <<verdict, result>>
    /\ UNCHANGED setup

\* a complete repair goes back to the critic
RepairDone ==
    /\ phase = "repairing"
    /\ IF Gated(RepairRisky)
       THEN /\ verdict' = [verdict EXCEPT !["repair"] = "gated"]
            /\ End("success", "repair", "repaired", "repair")
       ELSE Enter("rechecking") /\ UNCHANGED <<verdict, result>>
    /\ UNCHANGED <<setup, flagged>>

-----------------------------------------------------------------------------
(* Answers of the critic: generate_with_truncation_retry and evaluate *)

RetryCritic ==
    /\ phase \in CriticPhases
    /\ ~ask.wide
    /\ ask' = [ask EXCEPT !.wide = TRUE]
    /\ Send(phase)
    /\ UNCHANGED <<setup, phase, flagged, verdict, result>>

CriticAnswers == {"accepted", "rejected", "failed"}

\* "failed" is unparsable output and every exception, the provider's included
CritiqueDraft(v) ==
    /\ phase = "critiquing"
    /\ UNCHANGED <<setup, flagged>>
    /\ Resolve(v, flagged)

CritiqueRepair(v) ==
    /\ phase = "rechecking"
    /\ UNCHANGED <<setup, flagged>>
    /\ verdict' = [verdict EXCEPT !["repair"] = v]
    /\ IF v = "accepted"
       THEN End("success", "repair", "repaired", "repair")
       ELSE AbandonRepair("repair")

-----------------------------------------------------------------------------
(* Ways out of run_turn with nothing stored *)

\* a provider's exception is caught around the critic only
ProviderFails ==
    /\ phase \in ActorPhases
    /\ End("failed", "none", "skipped", "none")
    /\ UNCHANGED <<setup, flagged, verdict>>

\* the client of a stream goes away and the turn is cancelled at its await
ClientLeaves ==
    /\ phase # "ended"
    /\ End("failed", "none", "skipped", "none")
    /\ UNCHANGED <<setup, flagged, verdict>>

Next ==
    \/ RetryEmpty \/ RetryTruncated \/ GenerationFails
    \/ \E flags \in BOOLEAN : DraftDone(flags)
    \/ RepairDone
    \/ RetryCritic
    \/ \E v \in CriticAnswers : CritiqueDraft(v) \/ CritiqueRepair(v)
    \/ ProviderFails \/ ClientLeaves

Spec == Init /\ [][Next]_vars

-----------------------------------------------------------------------------
(* Properties *)

Served(t) == result.outcome = "success" /\ result.text = t

\* A text no critic has accepted reaches the player in one case only: it is the
\* original draft of a turn whose gate is open, that is auto gating on the local
\* provider with a good retrieval, a simple scene and a draft without flags.
\* The repair and the draft that comes back after a failed repair are never
\* such texts, although the re-check is given no flags, confidence or complexity
\* (repair.py:128, critique.py:112)
UncheckedOnlyWhenHarmless ==
    \A t \in Texts : Served(t) /\ verdict[t] # "accepted" =>
        /\ t = "draft" /\ verdict["draft"] = "gated" /\ ~flagged
        /\ setup.gating = "auto" /\ setup.provider = "local"
        /\ setup.confidence = "good" /\ ~setup.complex

\* The critic status and the usage stored with the turn describe the text stored
\* with it, whichever of the eight ways out of the review it took: accepted and
\* skipped speak of the draft, repaired of a repair the re-check accepted, and a
\* controlled failure is rejected exactly when there was a draft to review
\* (repair.py:192-284, turn_orchestrator.py:364, docs/12_api_contract.md:397)
AnswerTellsTruth ==
    /\ result.outcome = "success" =>
         /\ result.usage = result.text
         /\ result.status = "accepted" => Served("draft") /\ verdict["draft"] = "accepted"
         /\ result.status = "skipped" => Served("draft") /\ verdict["draft"] = "gated"
         /\ result.status = "repaired" => Served("repair") /\ verdict["repair"] = "accepted"
         /\ result.status # "rejected"
    /\ result.outcome = "controlled_failure" =>
         /\ result.status = "rejected" <=> verdict["draft"] # "unseen"
         /\ result.text = "failure_text"

\* One turn asks the actor at most four times for a text (two tries, each within
\* the first and the larger budget), the critic at most twice for a verdict, and
\* each of them for at most two texts: the retries nest but never multiply
\* beyond that (generation.py:179-213, provider.py:81, "This flow is finite",
\* docs/04_agent_workflows.md:42)
CallsBounded ==
    /\ \A p \in ActorPhases : calls[p] <= 4
    /\ \A p \in CriticPhases : calls[p] <= 2

Approved == {t \in Texts : LetThrough(verdict[t])}

Answer ==
    CASE result.outcome = "none" -> "pending"
      [] result.outcome = "success" -> result.text
      [] result.outcome = "controlled_failure" -> "refused"
      [] result.outcome = "failed" -> "aborted"

Promise == INSTANCE TurnPromise WITH approved <- Approved, answer <- Answer

\* The turn keeps the promise of TurnPromise: whatever the models answer and in
\* whatever retry they answer it, only a text let through by the review is
\* served, nothing let through is withheld by a controlled failure (the
\* validator's forced repair falls back to the draft, repair.py:244), and there
\* is one answer
KeepsPromise == Promise!Spec

\* What docs/04_agent_workflows.md:143-146 says: any critic exception, in the
\* re-critique after a repair too, fails the turn closed as a controlled failure
\* with status rejected.  The code serves the original draft, status accepted,
\* when the repair was forced by the validator (repair.py:244)
FailsClosed ==
    (\E t \in Texts : verdict[t] = "failed") /\ phase = "ended" =>
        result.outcome = "controlled_failure" /\ result.status = "rejected"
=============================================================================
