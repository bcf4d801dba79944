------------------------- MODULE TurnPipelineProofs -------------------------
(***************************************************************************)
(* One turn keeps its promise, whatever the models answer: PipelineInv     *)
(* says what the review has established when a stage is entered, and the   *)
(* refinement of TurnPromise and the bound on model calls follow.          *)
(***************************************************************************)
EXTENDS TurnPipeline, TLAPS

\* a turn has its answer when, and only when, it has ended
AnswersAtEnd == (result = NoResult /\ phase \in Phases) \/ (result.outcome # "none" /\ phase = "ended")

\* no text is reviewed before its stage, and a repair is under way only for a
\* draft that was rejected or that the validator flagged
ReviewedInOrder ==
    /\ phase \in {"generating", "critiquing"} => verdict["draft"] = "unseen"
    /\ phase # "ended" => verdict["repair"] = "unseen"
    /\ phase \in {"repairing", "rechecking"} =>
         verdict["draft"] = "rejected" \/ ValidatorForced(verdict["draft"], flagged)

\* what an open gate is worth, and that the repair's gate is never open
GateIsHarmless ==
    /\ verdict["repair"] # "gated"
    /\ verdict["draft"] = "gated" =>
         /\ ~flagged
         /\ setup.gating = "auto" /\ setup.provider = "local"
         /\ setup.confidence = "good" /\ ~setup.complex

\* the requests sent so far, by what is in flight
Budget ==
    IF phase \in ActorPhases
    THEN (IF ask.wide THEN 3 ELSE 1) + (IF ask.again THEN 1 ELSE 0)
    ELSE IF ask.wide THEN 2 ELSE 1

CallsWithinBudget ==
    /\ phase # "ended" => calls[phase] <= Budget
    /\ phase = "generating" => calls["critiquing"] = 0
    /\ phase \in {"generating", "critiquing"} => calls["repairing"] = 0
    /\ phase # "ended" /\ phase # "rechecking" => calls["rechecking"] = 0

PipelineInv ==
    /\ TypeOK
    /\ AnswersAtEnd
    /\ ReviewedInOrder
    /\ GateIsHarmless
    /\ CallsWithinBudget
    /\ CallsBounded
    /\ AnswerTellsTruth
    /\ UncheckedOnlyWhenHarmless

-----------------------------------------------------------------------------
(* Types *)

LEMMA SendTypes ==
    ASSUME calls \in [Phases -> Nat], NEW task \in Phases, Send(task)
    PROVE  /\ calls' \in [Phases -> Nat]
           /\ calls'[task] = calls[task] + 1
           /\ \A p \in Phases \ {task} : calls'[p] = calls[p]
  BY DEF Send

LEMMA ResultTyped ==
    ASSUME NEW outcome \in {"success", "controlled_failure", "failed"},
           NEW text \in Texts \cup {"none", "failure_text"},
           NEW status \in Statuses, NEW usage \in Texts \cup {"none"},
           End(outcome, text, status, usage)
    PROVE  /\ result' \in Result /\ phase' = "ended" /\ UNCHANGED <<ask, calls>>
           /\ result'.outcome = outcome /\ result'.text = text
           /\ result'.status = status /\ result'.usage = usage
  BY DEF End, Result

LEMMA RepairAlwaysRisky == RepairRisky
  BY DEF RepairRisky, IsRisky

LEMMA InitPipeline == Init => PipelineInv
  <1> SUFFICES ASSUME Init
               PROVE  PipelineInv
    OBVIOUS
  <1>1. TypeOK
    BY DEF Init, TypeOK, NoResult, Result, FirstAsk, Texts, Verdicts, Statuses, Phases,
           ActorPhases, CriticPhases
  <1>2. AnswersAtEnd /\ ReviewedInOrder /\ GateIsHarmless
    BY DEF Init, AnswersAtEnd, ReviewedInOrder, GateIsHarmless, Phases, ActorPhases, Texts
  <1>3. CallsWithinBudget /\ CallsBounded
    BY DEF Init, CallsWithinBudget, CallsBounded, Budget, FirstAsk, Phases, ActorPhases,
           CriticPhases
  <1>4. AnswerTellsTruth /\ UncheckedOnlyWhenHarmless
    BY DEF Init, AnswerTellsTruth, UncheckedOnlyWhenHarmless, NoResult, Served
  <1> QED
    BY <1>1, <1>2, <1>3, <1>4 DEF PipelineInv

-----------------------------------------------------------------------------
(* Steps that send another request *)

\* a retry: one request more, within a budget that has grown by as much
LEMMA RetryStep ==
    ASSUME PipelineInv, phase \in Phases, Send(phase),
           ask' \in [wide : BOOLEAN, again : BOOLEAN], Budget' > Budget,
           UNCHANGED <<setup, phase, flagged, verdict, result>>
    PROVE  PipelineInv'
  <1> USE DEF PipelineInv
  <1>1. TypeOK'
    BY SendTypes DEF TypeOK
  <1>2. /\ calls[phase] \in Nat /\ calls'[phase] = calls[phase] + 1
        /\ \A p \in Phases \ {phase} : calls'[p] = calls[p]
    BY SendTypes DEF TypeOK
  <1>3. Budget \in 1..4 /\ Budget' \in 1..4
        /\ (phase \in CriticPhases => Budget' <= 2)
    BY DEF Budget, ActorPhases, CriticPhases
  <1>4. calls'[phase] <= Budget'
    BY <1>2, <1>3 DEF CallsWithinBudget, Phases, ActorPhases, CriticPhases
  <1>5. CallsWithinBudget'
    BY <1>2, <1>4 DEF CallsWithinBudget, Phases, ActorPhases, CriticPhases
  <1>6. CallsBounded'
    BY <1>2, <1>3, <1>4 DEF CallsBounded, Phases, ActorPhases, CriticPhases, TypeOK
  <1>7. AnswersAtEnd' /\ ReviewedInOrder' /\ GateIsHarmless'
    BY DEF AnswersAtEnd, ReviewedInOrder, GateIsHarmless, ValidatorForced, LetThrough
  <1>8. AnswerTellsTruth' /\ UncheckedOnlyWhenHarmless'
    BY DEF AnswerTellsTruth, UncheckedOnlyWhenHarmless, Served
  <1> QED
    BY <1>1, <1>5, <1>6, <1>7, <1>8

\* entering the next stage: its first request, within the smallest budget
LEMMA EnterStep ==
    ASSUME PipelineInv, NEW task,
           <<phase, task>> \in {<<"generating", "critiquing">>, <<"generating", "repairing">>,
                                <<"critiquing", "repairing">>, <<"repairing", "rechecking">>},
           Enter(task), UNCHANGED <<setup, result>>,
           flagged' \in BOOLEAN, verdict' \in [Texts -> Verdicts],
           ReviewedInOrder', GateIsHarmless'
    PROVE  PipelineInv'
  <1> USE DEF PipelineInv
  <1>1. phase \in Phases /\ task \in Phases /\ phase # task /\ phase' = task
        /\ ask' = FirstAsk /\ Send(task)
    BY DEF Enter, Phases, ActorPhases, CriticPhases
  <1>2. /\ calls' \in [Phases -> Nat] /\ calls'[task] = calls[task] + 1
        /\ \A p \in Phases \ {task} : calls'[p] = calls[p]
    BY <1>1, SendTypes DEF TypeOK
  <1>3. calls[task] = 0
    BY DEF CallsWithinBudget
  <1>4. TypeOK'
    BY <1>1, <1>2 DEF TypeOK, FirstAsk
  <1>5. Budget' = 1
    BY <1>1 DEF Budget, FirstAsk, Phases, ActorPhases, CriticPhases
  <1>6. CallsWithinBudget'
    BY <1>1, <1>2, <1>3, <1>5 DEF CallsWithinBudget, Phases, ActorPhases, CriticPhases
  <1>7. CallsBounded'
    BY <1>2, <1>3 DEF CallsBounded, Phases, ActorPhases, CriticPhases, TypeOK
  <1>8. AnswersAtEnd'
    BY <1>1 DEF AnswersAtEnd, Phases, ActorPhases, CriticPhases
  <1>9. result' = NoResult
    BY <1>1 DEF AnswersAtEnd, Phases, ActorPhases, CriticPhases
  <1>10. AnswerTellsTruth' /\ UncheckedOnlyWhenHarmless'
    BY <1>9 DEF AnswerTellsTruth, UncheckedOnlyWhenHarmless, Served, NoResult
  <1> QED
    BY <1>4, <1>6, <1>7, <1>8, <1>10

-----------------------------------------------------------------------------
(* Steps that answer *)

\* a truthful answer and a harmless gate leave no way to serve an unchecked text
LEMMA EndStep ==
    ASSUME PipelineInv, UNCHANGED setup,
           NEW outcome \in {"success", "controlled_failure", "failed"},
           NEW text \in Texts \cup {"none", "failure_text"},
           NEW status \in Statuses, NEW usage \in Texts \cup {"none"},
           End(outcome, text, status, usage),
           flagged' \in BOOLEAN, verdict' \in [Texts -> Verdicts],
           GateIsHarmless', AnswerTellsTruth'
    PROVE  PipelineInv'
  <1> USE DEF PipelineInv
  <1>1. /\ result' \in Result /\ phase' = "ended" /\ UNCHANGED <<ask, calls>>
        /\ result'.outcome = outcome
    BY ResultTyped
  <1>2. TypeOK'
    BY <1>1 DEF TypeOK
  <1>3. AnswersAtEnd' /\ ReviewedInOrder' /\ CallsWithinBudget' /\ CallsBounded'
    BY <1>1 DEF AnswersAtEnd, ReviewedInOrder, CallsWithinBudget, CallsBounded
  <1>4. UncheckedOnlyWhenHarmless'
    BY <1>1 DEF Result, Statuses, Texts, AnswerTellsTruth, GateIsHarmless,
                UncheckedOnlyWhenHarmless, Served
  <1> QED
    BY <1>2, <1>3, <1>4

\* a turn that fails with nothing stored
LEMMA FailedStep ==
    ASSUME PipelineInv, phase \in Phases, End("failed", "none", "skipped", "none"),
           UNCHANGED <<setup, flagged, verdict>>
    PROVE  PipelineInv'
  <1>1. result'.outcome = "failed"
    BY ResultTyped DEF Statuses
  <1>2. AnswerTellsTruth'
    BY <1>1 DEF AnswerTellsTruth
  <1>3. GateIsHarmless' /\ flagged' \in BOOLEAN /\ verdict' \in [Texts -> Verdicts]
    BY DEF PipelineInv, GateIsHarmless, TypeOK
  <1> QED
    BY <1>2, <1>3, EndStep DEF Statuses

\* resolve(): the draft is served, repaired or refused
LEMMA ResolveStep ==
    ASSUME PipelineInv, phase \in {"generating", "critiquing"}, UNCHANGED setup,
           NEW flags \in BOOLEAN, flagged' = flags,
           NEW v \in {"gated", "accepted", "rejected", "failed"}, Resolve(v, flags),
           v = "gated" => /\ ~flags
                          /\ setup.gating = "auto" /\ setup.provider = "local"
                          /\ setup.confidence = "good" /\ ~setup.complex
    PROVE  PipelineInv'
  <1>1. /\ verdict' \in [Texts -> Verdicts] /\ verdict'["draft"] = v
        /\ verdict'["repair"] = "unseen"
    BY DEF Resolve, PipelineInv, TypeOK, ReviewedInOrder, Texts, Verdicts, Phases
  <1>2. GateIsHarmless'
    BY <1>1 DEF GateIsHarmless
  <1>3. CASE v = "failed" /\ End("controlled_failure", "failure_text", "rejected", "draft")
    <2>1. /\ result'.outcome = "controlled_failure" /\ result'.text = "failure_text"
          /\ result'.status = "rejected"
      BY <1>3, ResultTyped DEF Statuses, Texts
    <2>2. AnswerTellsTruth'
      BY <1>1, <1>3, <2>1 DEF AnswerTellsTruth
    <2> QED
      BY <1>1, <1>2, <1>3, <2>2, EndStep DEF Statuses, Texts
  <1>4. CASE /\ LetThrough(v) /\ ~ValidatorForced(v, flags)
             /\ End("success", "draft", BaseStatus(v), "draft")
    <2>1. BaseStatus(v) \in Statuses
      BY DEF BaseStatus, Statuses
    <2>2. /\ result'.outcome = "success" /\ result'.text = "draft"
          /\ result'.status = BaseStatus(v) /\ result'.usage = "draft"
      BY <1>4, <2>1, ResultTyped DEF Texts
    <2>3. AnswerTellsTruth'
      BY <1>1, <1>4, <2>2 DEF AnswerTellsTruth, Served, LetThrough, BaseStatus
    <2> QED
      BY <1>1, <1>2, <1>4, <2>1, <2>3, EndStep DEF Texts
  <1>5. CASE /\ v = "rejected" \/ ValidatorForced(v, flags)
             /\ Enter("repairing")
             /\ UNCHANGED result
    <2>1. ReviewedInOrder'
      BY <1>1, <1>5 DEF ReviewedInOrder, Enter
    <2> QED
      BY <1>1, <1>2, <1>5, <2>1, EnterStep
  <1> QED
    BY <1>3, <1>4, <1>5 DEF Resolve

\* the draft after a repair that did not come off
LEMMA AbandonStep ==
    ASSUME PipelineInv, phase \in {"repairing", "rechecking"}, UNCHANGED <<setup, flagged>>,
           verdict' \in [Texts -> Verdicts], verdict'["draft"] = verdict["draft"],
           verdict'["repair"] # "gated",
           NEW usage \in Texts, AbandonRepair(usage)
    PROVE  PipelineInv'
  <1>1. GateIsHarmless' /\ flagged' \in BOOLEAN
    BY DEF PipelineInv, GateIsHarmless, TypeOK
  <1>2. CASE ValidatorForced(verdict["draft"], flagged)
    <2> DEFINE status == BaseStatus(verdict["draft"])
    <2>1. status \in Statuses
      BY DEF BaseStatus, Statuses
    <2>2. End("success", "draft", status, "draft")
      BY <1>2 DEF AbandonRepair
    <2>3. /\ result'.outcome = "success" /\ result'.text = "draft"
          /\ result'.status = status /\ result'.usage = "draft"
      BY <2>1, <2>2, ResultTyped DEF Texts
    <2>4. AnswerTellsTruth'
      BY <1>2, <2>3 DEF AnswerTellsTruth, Served, ValidatorForced, LetThrough, BaseStatus
    <2> HIDE DEF status
    <2> QED
      BY <1>1, <2>1, <2>2, <2>4, EndStep DEF Texts
  <1>3. CASE ~ValidatorForced(verdict["draft"], flagged)
    <2>1. End("controlled_failure", "failure_text", "rejected", usage)
      BY <1>3 DEF AbandonRepair
    <2>2. /\ result'.outcome = "controlled_failure" /\ result'.text = "failure_text"
          /\ result'.status = "rejected"
      BY <2>1, ResultTyped DEF Statuses
    <2>3. verdict["draft"] # "unseen"
      BY <1>3 DEF PipelineInv, ReviewedInOrder
    <2>4. AnswerTellsTruth'
      BY <2>2, <2>3 DEF AnswerTellsTruth
    <2> QED
      BY <1>1, <2>1, <2>4, EndStep DEF Statuses
  <1> QED
    BY <1>2, <1>3

-----------------------------------------------------------------------------
(* Every step *)

LEMMA PipelineStep == PipelineInv /\ [Next]_vars => PipelineInv'
  <1> SUFFICES ASSUME PipelineInv, [Next]_vars
               PROVE  PipelineInv'
    OBVIOUS
  <1>1. ASSUME RetryEmpty \/ RetryTruncated \/ RetryCritic
        PROVE  PipelineInv'
    <2>1. /\ phase \in Phases /\ Send(phase)
          /\ UNCHANGED <<setup, phase, flagged, verdict, result>>
      BY <1>1 DEF RetryEmpty, RetryTruncated, RetryCritic, Phases
    <2>2. ask \in [wide : BOOLEAN, again : BOOLEAN]
      BY DEF PipelineInv, TypeOK
    <2>3. ask' \in [wide : BOOLEAN, again : BOOLEAN]
      <3>1. CASE RetryEmpty
        BY <2>2, <3>1 DEF RetryEmpty
      <3>2. CASE RetryTruncated
        BY <3>2 DEF RetryTruncated
      <3>3. CASE RetryCritic
        BY <2>2, <3>3 DEF RetryCritic
      <3> QED
        BY <1>1, <3>1, <3>2, <3>3
    <2>4. Budget' > Budget
      BY <1>1, <2>2 DEF RetryEmpty, RetryTruncated, RetryCritic, Budget, ActorPhases,
                        CriticPhases
    <2> QED
      BY <2>1, <2>3, <2>4, RetryStep
  <1>2. CASE GenerationFails
    <2>1. CASE phase = "generating"
      <3>1. End("controlled_failure", "failure_text", "skipped", "none")
        BY <1>2, <2>1 DEF GenerationFails
      <3>2. /\ result'.outcome = "controlled_failure" /\ result'.text = "failure_text"
            /\ result'.status = "skipped"
        BY <3>1, ResultTyped DEF Statuses
      <3>3. verdict' = verdict /\ verdict["draft"] = "unseen"
        BY <1>2, <2>1 DEF GenerationFails, PipelineInv, ReviewedInOrder
      <3>4. AnswerTellsTruth'
        BY <3>2, <3>3 DEF AnswerTellsTruth
      <3>5. /\ GateIsHarmless' /\ flagged' \in BOOLEAN /\ verdict' \in [Texts -> Verdicts]
            /\ UNCHANGED setup
        BY <1>2 DEF GenerationFails, PipelineInv, GateIsHarmless, TypeOK
      <3> QED
        BY <3>1, <3>4, <3>5, EndStep DEF Statuses
    <2>2. CASE phase = "repairing"
      <3>1. AbandonRepair("draft") /\ UNCHANGED <<setup, flagged, verdict>>
        BY <1>2, <2>2 DEF GenerationFails
      <3>2. verdict \in [Texts -> Verdicts] /\ verdict["repair"] # "gated"
        BY DEF PipelineInv, TypeOK, GateIsHarmless
      <3> QED
        BY <2>2, <3>1, <3>2, AbandonStep DEF Texts
    <2> QED
      BY <1>2, <2>1, <2>2 DEF GenerationFails, ActorPhases
  <1>3. ASSUME NEW flags \in BOOLEAN, DraftDone(flags)
        PROVE  PipelineInv'
    <2>1. phase = "generating" /\ flagged' = flags /\ UNCHANGED setup
      BY <1>3 DEF DraftDone
    <2>2. CASE Gated(DraftRisky(flags))
      <3>1. Resolve("gated", flags)
        BY <1>3, <2>2 DEF DraftDone
      <3>2. /\ ~flags
            /\ setup.gating = "auto" /\ setup.provider = "local"
            /\ setup.confidence = "good" /\ ~setup.complex
        BY <2>2 DEF Gated, DraftRisky, IsRisky, PipelineInv, TypeOK, Setup, Providers
      <3> QED
        BY <2>1, <3>1, <3>2, ResolveStep
    <2>3. CASE ~Gated(DraftRisky(flags))
      <3>1. Enter("critiquing") /\ UNCHANGED <<setup, verdict, result>>
        BY <1>3, <2>3 DEF DraftDone
      <3>2. /\ verdict \in [Texts -> Verdicts] /\ verdict["draft"] = "unseen"
            /\ verdict["repair"] = "unseen"
        BY <2>1 DEF PipelineInv, TypeOK, ReviewedInOrder
      <3>3. GateIsHarmless' /\ ReviewedInOrder'
        BY <3>1, <3>2 DEF GateIsHarmless, ReviewedInOrder, Enter
      <3> QED
        BY <2>1, <3>1, <3>2, <3>3, EnterStep
    <2> QED
      BY <2>2, <2>3
  <1>4. CASE RepairDone
    <2>1. /\ phase = "repairing" /\ ~Gated(RepairRisky)
          /\ Enter("rechecking") /\ UNCHANGED <<setup, flagged, verdict, result>>
      BY <1>4, RepairAlwaysRisky DEF RepairDone, Gated
    <2>2. verdict' \in [Texts -> Verdicts] /\ flagged' \in BOOLEAN /\ GateIsHarmless'
      BY <2>1 DEF PipelineInv, TypeOK, GateIsHarmless
    <2>3. ReviewedInOrder'
      BY <2>1 DEF PipelineInv, ReviewedInOrder, Enter, ValidatorForced, LetThrough
    <2> QED
      BY <2>1, <2>2, <2>3, EnterStep
  <1>5. ASSUME NEW v \in CriticAnswers, CritiqueDraft(v)
        PROVE  PipelineInv'
    <2>1. /\ phase = "critiquing" /\ UNCHANGED <<setup, flagged>>
          /\ Resolve(v, flagged) /\ flagged \in BOOLEAN
      BY <1>5 DEF CritiqueDraft, PipelineInv, TypeOK
    <2>2. v \in {"accepted", "rejected", "failed"}
      BY DEF CriticAnswers
    <2> QED
      BY <2>1, <2>2, ResolveStep
  <1>6. ASSUME NEW v \in CriticAnswers, CritiqueRepair(v)
        PROVE  PipelineInv'
    <2>1. /\ phase = "rechecking" /\ UNCHANGED <<setup, flagged>>
          /\ verdict' = [verdict EXCEPT !["repair"] = v]
      BY <1>6 DEF CritiqueRepair
    <2>2. /\ verdict' \in [Texts -> Verdicts] /\ verdict'["repair"] = v
          /\ verdict'["draft"] = verdict["draft"] /\ v # "gated"
      BY <2>1 DEF CriticAnswers, Verdicts, PipelineInv, TypeOK, Texts
    <2>3. CASE v = "accepted"
      <3>1. End("success", "repair", "repaired", "repair")
        BY <1>6, <2>3 DEF CritiqueRepair
      <3>2. /\ result'.outcome = "success" /\ result'.text = "repair"
            /\ result'.status = "repaired" /\ result'.usage = "repair"
        BY <3>1, ResultTyped DEF Statuses, Texts
      <3>3. AnswerTellsTruth'
        BY <2>2, <2>3, <3>2 DEF AnswerTellsTruth, Served
      <3>4. GateIsHarmless' /\ flagged' \in BOOLEAN
        BY <2>1, <2>2 DEF PipelineInv, GateIsHarmless, TypeOK
      <3> QED
        BY <2>1, <2>2, <3>1, <3>3, <3>4, EndStep DEF Statuses, Texts
    <2>4. CASE v # "accepted"
      <3>1. AbandonRepair("repair")
        BY <1>6, <2>4 DEF CritiqueRepair
      <3> QED
        BY <2>1, <2>2, <3>1, AbandonStep DEF Texts
    <2> QED
      BY <2>3, <2>4
  <1>7. CASE ProviderFails \/ ClientLeaves
    <2>1. phase \in Phases
      BY <1>7 DEF ProviderFails, ClientLeaves, Phases, PipelineInv, TypeOK
    <2> QED
      BY <1>7, <2>1, FailedStep DEF ProviderFails, ClientLeaves
  <1>8. CASE UNCHANGED vars
    BY <1>8 DEF vars, PipelineInv, TypeOK, AnswersAtEnd, ReviewedInOrder, GateIsHarmless,
                CallsWithinBudget, CallsBounded, AnswerTellsTruth, UncheckedOnlyWhenHarmless,
                Budget, Served, ValidatorForced, LetThrough
  <1> QED
    BY <1>1, <1>2, <1>3, <1>4, <1>5, <1>6, <1>7, <1>8 DEF Next

LEMMA PipelineInvariant == Spec => []PipelineInv
  BY InitPipeline, PipelineStep, PTL DEF Spec

-----------------------------------------------------------------------------
(* Refinement of TurnPromise *)

\* no stage has answered yet while a model is awaited
LEMMA PendingWhileAwaiting ==
    ASSUME PipelineInv, phase \in Phases
    PROVE  Answer = "pending"
  BY DEF PipelineInv, AnswersAtEnd, NoResult, Answer, Phases, ActorPhases, CriticPhases

LEMMA AnswerOfEnd ==
    ASSUME NEW outcome \in {"success", "controlled_failure", "failed"},
           NEW text \in Texts \cup {"none", "failure_text"},
           NEW status \in Statuses, NEW usage \in Texts \cup {"none"},
           End(outcome, text, status, usage)
    PROVE  /\ outcome = "success" => Answer' = text
           /\ outcome = "controlled_failure" => Answer' = "refused"
           /\ outcome = "failed" => Answer' = "aborted"
  <1>1. result'.outcome = outcome /\ result'.text = text
    BY ResultTyped
  <1> QED
    BY <1>1 DEF Answer

\* resolve(): review approves the draft and serves it, approves it and asks for
\* a repair, or approves nothing
LEMMA ResolveKeeps ==
    ASSUME PipelineInv, phase \in {"generating", "critiquing"}, NEW flags \in BOOLEAN,
           NEW v \in {"gated", "accepted", "rejected", "failed"}, Resolve(v, flags)
    PROVE  [Promise!Next]_Promise!promiseVars
  <1>1. Answer = "pending"
    BY PendingWhileAwaiting DEF Phases, ActorPhases, CriticPhases
  <1>2. verdict["draft"] = "unseen" /\ verdict["repair"] = "unseen"
    BY DEF PipelineInv, ReviewedInOrder
  <1>3. verdict'["draft"] = v /\ verdict'["repair"] = "unseen"
    BY <1>2 DEF Resolve, PipelineInv, TypeOK, Texts
  <1>4. Approved = {}
    BY <1>2 DEF Approved, LetThrough, Texts
  <1>5. Approved' = IF LetThrough(v) THEN {"draft"} ELSE {}
    BY <1>3 DEF Approved, LetThrough, Texts
  <1>6. CASE v = "failed" /\ End("controlled_failure", "failure_text", "rejected", "draft")
    <2>1. Answer' = "refused"
      BY <1>6, AnswerOfEnd DEF Statuses, Texts
    <2> QED
      BY <1>1, <1>4, <1>5, <1>6, <2>1 DEF LetThrough, Promise!Next, Promise!Refuse
  <1>7. CASE LetThrough(v) /\ End("success", "draft", BaseStatus(v), "draft")
    <2>1. Answer' = "draft"
      BY <1>7, AnswerOfEnd DEF BaseStatus, Statuses, Texts
    <2>2. Promise!Serve("draft", {"draft"})
      BY <1>4, <1>5, <1>7, <2>1 DEF Promise!Serve
    <2> QED
      BY <1>1, <2>2 DEF Promise!Next, Texts
  <1>8. CASE Enter("repairing") /\ UNCHANGED result
    <2>1. Answer' = Answer
      BY <1>8 DEF Answer
    <2>2. CASE LetThrough(v)
      <3>1. Promise!Review({"draft"})
        BY <1>4, <1>5, <2>1, <2>2 DEF Promise!Review
      <3> QED
        BY <1>1, <3>1 DEF Promise!Next, Texts
    <2>3. CASE ~LetThrough(v)
      BY <1>4, <1>5, <2>1, <2>3 DEF Promise!promiseVars
    <2> QED
      BY <2>2, <2>3
  <1> QED
    BY <1>6, <1>7, <1>8 DEF Resolve

\* a repair that did not come off: an approved draft is served, and the turn is
\* refused only when the draft was rejected
LEMMA AbandonKeeps ==
    ASSUME PipelineInv, phase \in {"repairing", "rechecking"},
           verdict'["draft"] = verdict["draft"],
           ~LetThrough(verdict'["repair"]),
           NEW usage \in Texts, AbandonRepair(usage)
    PROVE  [Promise!Next]_Promise!promiseVars
  <1>1. Answer = "pending"
    BY PendingWhileAwaiting DEF Phases, ActorPhases, CriticPhases
  <1>2. verdict["repair"] = "unseen"
    BY DEF PipelineInv, ReviewedInOrder
  <1>3. Approved' = Approved
    BY <1>2 DEF Approved, LetThrough, Texts
  <1>4. CASE ValidatorForced(verdict["draft"], flagged)
    <2>1. Answer' = "draft"
      BY <1>4, AnswerOfEnd DEF AbandonRepair, BaseStatus, Statuses, Texts
    <2>2. "draft" \in Approved
      BY <1>4 DEF ValidatorForced, Approved, Texts
    <2>3. Promise!Serve("draft", {})
      BY <1>3, <2>1, <2>2 DEF Promise!Serve
    <2> QED
      BY <1>1, <2>3 DEF Promise!Next, Texts
  <1>5. CASE ~ValidatorForced(verdict["draft"], flagged)
    <2>1. Answer' = "refused"
      BY <1>5, AnswerOfEnd DEF AbandonRepair, Statuses
    <2>2. verdict["draft"] = "rejected"
      BY <1>5 DEF PipelineInv, ReviewedInOrder
    <2>3. Approved = {}
      BY <1>2, <2>2 DEF Approved, LetThrough, Texts
    <2> QED
      BY <1>1, <1>3, <2>1, <2>3 DEF Promise!Next, Promise!Refuse
  <1> QED
    BY <1>4, <1>5

LEMMA PromiseStep == PipelineInv /\ [Next]_vars => [Promise!Next]_Promise!promiseVars
  <1> SUFFICES ASSUME PipelineInv, [Next]_vars
               PROVE  [Promise!Next]_Promise!promiseVars
    OBVIOUS
  <1>1. ASSUME UNCHANGED <<verdict, result>>
        PROVE  [Promise!Next]_Promise!promiseVars
    BY <1>1 DEF Promise!promiseVars, Approved, Answer, LetThrough
  <1>2. CASE RetryEmpty \/ RetryTruncated \/ RetryCritic \/ UNCHANGED vars
    BY <1>1, <1>2 DEF RetryEmpty, RetryTruncated, RetryCritic, vars
  <1>3. CASE GenerationFails
    <2>1. CASE phase = "generating"
      <3>1. End("controlled_failure", "failure_text", "skipped", "none")
            /\ verdict' = verdict
        BY <1>3, <2>1 DEF GenerationFails
      <3>2. Answer' = "refused" /\ Answer = "pending"
        BY <2>1, <3>1, AnswerOfEnd, PendingWhileAwaiting DEF Statuses, Phases, ActorPhases
      <3>3. Approved = {} /\ Approved' = {}
        BY <2>1, <3>1 DEF PipelineInv, ReviewedInOrder, Approved, LetThrough, Texts
      <3> QED
        BY <3>2, <3>3 DEF Promise!Next, Promise!Refuse
    <2>2. CASE phase = "repairing"
      <3>1. AbandonRepair("draft") /\ verdict' = verdict
        BY <1>3, <2>2 DEF GenerationFails
      <3>2. ~LetThrough(verdict["repair"])
        BY <2>2 DEF PipelineInv, ReviewedInOrder, LetThrough
      <3> QED
        BY <2>2, <3>1, <3>2, AbandonKeeps DEF Texts
    <2> QED
      BY <1>3, <2>1, <2>2 DEF GenerationFails, ActorPhases
  <1>4. ASSUME NEW flags \in BOOLEAN, DraftDone(flags)
        PROVE  [Promise!Next]_Promise!promiseVars
    BY <1>1, <1>4, ResolveKeeps DEF DraftDone
  <1>5. CASE RepairDone
    BY <1>1, <1>5, RepairAlwaysRisky DEF RepairDone, Gated
  <1>6. ASSUME NEW v \in CriticAnswers, CritiqueDraft(v)
        PROVE  [Promise!Next]_Promise!promiseVars
    <2>1. /\ phase = "critiquing" /\ Resolve(v, flagged) /\ flagged \in BOOLEAN
          /\ v \in {"gated", "accepted", "rejected", "failed"}
      BY <1>6 DEF CritiqueDraft, CriticAnswers, PipelineInv, TypeOK
    <2> QED
      BY <2>1, ResolveKeeps
  <1>7. ASSUME NEW v \in CriticAnswers, CritiqueRepair(v)
        PROVE  [Promise!Next]_Promise!promiseVars
    <2>1. /\ phase = "rechecking"
          /\ verdict'["repair"] = v /\ verdict'["draft"] = verdict["draft"]
      BY <1>7 DEF CritiqueRepair, PipelineInv, TypeOK, Texts
    <2>2. CASE v = "accepted"
      <3>1. Answer' = "repair" /\ Answer = "pending"
        BY <1>7, <2>1, <2>2, AnswerOfEnd, PendingWhileAwaiting
           DEF CritiqueRepair, Statuses, Texts, Phases, CriticPhases
      <3>2. verdict["repair"] = "unseen"
        BY <2>1 DEF PipelineInv, ReviewedInOrder
      <3>3. Approved' = Approved \cup {"repair"}
        BY <2>1, <2>2, <3>2 DEF Approved, LetThrough, Texts
      <3>4. Promise!Serve("repair", {"repair"})
        BY <3>1, <3>3 DEF Promise!Serve
      <3> QED
        BY <3>1, <3>4 DEF Promise!Next, Texts
    <2>3. CASE v # "accepted"
      <3>1. AbandonRepair("repair") /\ ~LetThrough(v)
        BY <1>7, <2>3 DEF CritiqueRepair, LetThrough, CriticAnswers
      <3> QED
        BY <2>1, <3>1, AbandonKeeps DEF Texts
    <2> QED
      BY <2>2, <2>3
  <1>8. CASE ProviderFails \/ ClientLeaves
    <2>1. /\ phase \in Phases /\ verdict' = verdict
          /\ End("failed", "none", "skipped", "none")
      BY <1>8 DEF ProviderFails, ClientLeaves, Phases, PipelineInv, TypeOK
    <2>2. Answer = "pending" /\ Answer' = "aborted" /\ Approved' = Approved
      BY <2>1, AnswerOfEnd, PendingWhileAwaiting DEF Approved, LetThrough, Statuses
    <2> QED
      BY <2>2 DEF Promise!Next, Promise!Abort
  <1> QED
    BY <1>2, <1>3, <1>4, <1>5, <1>6, <1>7, <1>8 DEF Next

-----------------------------------------------------------------------------
(* Theorems *)

\* Every reachable state of a turn is typed: in particular no counter of the
\* nested retries and no verdict leaves its range, whichever call fails
\* (turn_orchestrator.py:150-364)
THEOREM TypeCorrect == Spec => []TypeOK
  BY PipelineInvariant, PTL DEF PipelineInv

\* No text that a critic has not accepted is served, except the draft of a turn
\* whose gate is open and harmless, however generation, critique, repair and
\* re-check are retried and fail (repair.py:128, critique.py:112)
THEOREM UncheckedIsHarmless == Spec => []UncheckedOnlyWhenHarmless
  BY PipelineInvariant, PTL DEF PipelineInv

\* The stored critic status and usage are those of the stored text
\* (repair.py:192-284)
THEOREM TruthfulAnswer == Spec => []AnswerTellsTruth
  BY PipelineInvariant, PTL DEF PipelineInv

\* The nested retries never ask a stage for more than its bound: a request in
\* flight has used up exactly its budget (generation.py:179-213, provider.py:81)
THEOREM BoundedCalls == Spec => []CallsBounded
  BY PipelineInvariant, PTL DEF PipelineInv

\* One turn implements TurnPromise: review only adds to what is approved, a text
\* is served only when approved, a turn is refused only when nothing is, and an
\* answer stands (turn_orchestrator.py:150-364)
THEOREM PromiseKept == Spec => KeepsPromise
  <1>1. Init => Promise!Init
    BY DEF Init, Promise!Init, NoResult, LetThrough, Texts, Approved, Answer
  <1>2. PipelineInv /\ [Next]_vars => [Promise!Next]_Promise!promiseVars
    BY PromiseStep
  <1> QED
    BY <1>1, <1>2, PipelineInvariant, PTL DEF Spec, KeepsPromise, Promise!Spec

=============================================================================
