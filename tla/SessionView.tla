---------------------------- MODULE SessionView ----------------------------
(***************************************************************************)
(* The browser's session store over the API: one operation that makes the  *)
(* page busy (create, resume, send, reroll), and the panels' calls, which  *)
(* run beside it and beside each other and whose answers come in any       *)
(* order.  A page has one session until it is reloaded.  Turns and deletes *)
(* run on the server as tasks, which the page may not wait for the end of. *)
(*                                                                         *)
(* Left out: the scene, selections, the catalog and the debug panels, the  *)
(* order of a panel's rows, and what else writes the store (the command    *)
(* line).  A turn's number stands for its message and its reply; a         *)
(* rerolled message keeps its number.                                      *)
(***************************************************************************)
EXTENDS TurnStream, FiniteSets

CONSTANT Bounds  \* bounds: sessions created, turns and rerolls asked for, facts
                 \* added, panel calls in flight, jobs one drain misses; a
                 \* behaviour keeps to one of these

ASSUME SessionViewAssumption ==
    Bounds \subseteq [sessions : Nat, turns : Nat, facts : Nat, calls : Nat \ {0, 1}, late : Nat]

VARIABLES
    bound,       \* of Bounds
    born,        \* sessions 1..born exist
    history,     \* the stored turns of each
    kept,        \* the turns of each it has a memory of
    owed,        \* the turns of each whose memory job has not ended
    canon,       \* the canon facts of each
    added,       \* facts added so far
    tasks,       \* the turns and deletes being run
    session,     \* the page's session, 0 before the first
    transcript,
    memories,    \* the memory panel's list
    facts,       \* the canon panel's list, a bag
    canonError,  \* the canon panel shows an error
    op,          \* the operation that makes the page busy
    wire,        \* what the turn's stream has carried
    closed,      \* the server has ended the stream
    calls,       \* panel calls in flight
    asked,       \* turns asked for
    doubt,       \* observation: the client was not told what became of a turn
    trusted      \* observation: panels whose list no overlap has disturbed

server == <<bound, born, history, kept, owed, canon, added>>
page == <<session, transcript, memories, facts, canonError>>
stream == <<wire, closed>>
vars == <<server, tasks, page, op, stream, calls, asked, doubt, trusted>>

Sessions == 1..bound.sessions
Turns == 1..bound.turns
Slots == 1..bound.calls

Turn == [message : Turns, reply : Turns,
         before : SUBSET Turns]  \* what was kept when it was created
Task == [kind : {"turn", "delete"}, n : Turns, message : Turns, session : Sessions]

Op == [pc : {"idle", "create", "get", "details", "panels", "turn", "reroll"},
       session : 0..bound.sessions,
       message : 0..bound.turns, n : 0..bound.turns,
       again : BOOLEAN,   \* of a reroll
       saved : BOOLEAN]   \* observation: the answer on the wire is in the history
Idle == [pc |-> "idle", session |-> 0, message |-> 0, n |-> 0, again |-> FALSE,
         saved |-> TRUE]

Call ==
    [kind : {"memories", "canon", "add", "delete"},
     fact : 0..bound.facts,       \* the fact to delete
     awaited : BOOLEAN,        \* by a create or a resume
     served : BOOLEAN,
     found : SUBSET Nat,       \* the facts or memories it was served
     alone : BOOLEAN]          \* observation: nothing overlapped it so far
NoCall == [kind |-> "none"]

Entry(role, text) == [role |-> role, text |-> text]
Player(message) == Entry("player", <<message>>)
Assistant(text) == Entry("assistant", text)

TypeOK ==
    /\ bound \in Bounds
    /\ born \in 0..bound.sessions
    /\ \A s \in Sessions :
        /\ \A i \in DOMAIN history[s] : history[s][i] \in Turn
        /\ kept[s] \cup owed[s] \subseteq Turns
        /\ canon[s] \subseteq 1..added
        /\ s > born => history[s] = <<>> /\ canon[s] = {}
    /\ added \in 0..bound.facts
    /\ tasks \subseteq Task
    /\ session \in 0..born
    /\ Len(transcript) % 2 = 0
    /\ memories \subseteq Turns
    /\ IsABag(facts) /\ BagToSet(facts) \subseteq 1..added
    /\ op \in Op /\ op.session \in 0..born
    /\ \A c \in Slots :
        calls[c] = NoCall \/ (calls[c] \in Call /\ session # 0)
    /\ trusted \subseteq {"memories", "canon"}
    /\ asked \in 0..bound.turns /\ {doubt, closed, canonError} \subseteq BOOLEAN

Init ==
    /\ bound \in Bounds
    /\ born = 0 /\ added = 0 /\ asked = 0 /\ session = 0
    /\ history = [s \in Sessions |-> <<>>]
    /\ kept = [s \in Sessions |-> {}] /\ owed = [s \in Sessions |-> {}]
    /\ canon = [s \in Sessions |-> {}]
    /\ tasks = {} /\ memories = {} /\ trusted = {}
    /\ transcript = <<>> /\ facts = EmptyBag /\ wire = <<>>
    /\ op = Idle
    /\ closed = FALSE
    /\ calls = [c \in Slots |-> NoCall]
    /\ doubt = FALSE /\ canonError = FALSE

-----------------------------------------------------------------------------
(* Panel calls in flight *)

InFlight == {c \in Slots : calls[c] # NoCall}
Of(kinds) == {c \in InFlight : calls[c].kind \in kinds}
Awaited == {c \in InFlight : calls[c].awaited}

Lists == {"memories", "canon"}
\* a memory list is disturbed by another one, a canon list by any canon call
Disturbs(kind, other) == (kind = "memories") = (other = "memories")

Issue(inFlight, kind, fact, awaited) ==
    LET slot == CHOOSE c \in Slots :
            inFlight[c] = NoCall /\ \A d \in 1..(c - 1) : inFlight[d] # NoCall
        overlaps == {c \in Slots : inFlight[c] # NoCall /\ Disturbs(kind, inFlight[c].kind)}
    IN [c \in Slots |->
          IF c = slot
          THEN [kind |-> kind, fact |-> fact, awaited |-> awaited, served |-> FALSE,
                found |-> {}, alone |-> overlaps = {}]
          ELSE IF c \in overlaps THEN [inFlight[c] EXCEPT !.alone = FALSE]
          ELSE inFlight[c]]

RefreshMemories(inFlight, awaited) == Issue(inFlight, "memories", 0, awaited)
LoadPanels == Issue(RefreshMemories(calls, TRUE), "canon", 0, TRUE)

\* Bounds: an operation is started with room for the calls it ends with, and a
\* click on a panel leaves that room
RoomToStart == Cardinality(InFlight) + 2 <= bound.calls
RoomForPanel ==
    Cardinality(InFlight) + (IF op.pc \in {"idle", "panels"} THEN 0 ELSE 2) < bound.calls

Busy == op.pc # "idle"

ClickRefresh ==
    /\ session # 0 /\ RoomForPanel
    /\ calls' = RefreshMemories(calls, FALSE)
    /\ UNCHANGED <<server, tasks, page, op, stream, asked, doubt, trusted>>

ClickAdd ==
    /\ session # 0 /\ RoomForPanel
    /\ added + Cardinality({c \in Of({"add"}) : ~calls[c].served}) < bound.facts
    /\ calls' = Issue(calls, "add", 0, FALSE)
    /\ UNCHANGED <<server, tasks, page, op, stream, asked, doubt, trusted>>

ClickDelete(fact) ==
    /\ session # 0 /\ RoomForPanel
    /\ BagIn(fact, facts)
    /\ calls' = Issue(calls, "delete", fact, FALSE)
    /\ UNCHANGED <<server, tasks, page, op, stream, asked, doubt, trusted>>

\* the facts of a session
ListCanonFacts(s) == canon[s]

\* deleting a fact the session does not have is refused, see CallFails
Serve(c) ==
    /\ c \in InFlight /\ ~calls[c].served
    /\ LET call == calls[c]
           served(found) == calls' = [calls EXCEPT ![c].served = TRUE, ![c].found = found]
       IN
       \/ /\ call.kind = "memories"
          /\ served(kept[session])
          /\ UNCHANGED <<canon, added>>
       \/ /\ call.kind = "canon"
          /\ served(ListCanonFacts(session))
          /\ UNCHANGED <<canon, added>>
       \/ /\ call.kind = "add"
          /\ added' = added + 1
          /\ canon' = [canon EXCEPT ![session] = @ \cup {added + 1}]
          /\ served({added + 1})
       \/ /\ call.kind = "delete" /\ call.fact \in canon[session]
          /\ canon' = [canon EXCEPT ![session] = @ \ {call.fact}]
          /\ served({})
          /\ UNCHANGED added
    /\ UNCHANGED <<bound, born, history, kept, owed, tasks, page, op, stream, asked, doubt,
                   trusted>>

\* the busy operation ends when the last call it awaits has
Settled(c) ==
    /\ calls' = [calls EXCEPT ![c] = NoCall]
    /\ op' = IF op.pc = "panels" /\ Awaited = {c} THEN Idle ELSE op

FactsAnswered(call) ==
    CASE call.kind = "canon" -> SetToBag(call.found)
      [] call.kind = "add" -> facts (+) SetToBag(call.found)
      [] call.kind = "delete" -> Restrict(facts, BagToSet(facts) \ {call.fact})

\* answers are applied as they come
Answer(c) ==
    /\ c \in InFlight /\ calls[c].served
    /\ LET call == calls[c] IN
       /\ IF call.kind = "memories"
          THEN memories' = call.found /\ UNCHANGED <<facts, canonError>>
          ELSE facts' = FactsAnswered(call) /\ canonError' = FALSE /\ UNCHANGED memories
       /\ trusted' =
            IF call.kind \notin Lists THEN trusted
            ELSE IF call.alone THEN trusted \cup {call.kind}
            ELSE trusted \ {call.kind}
    /\ Settled(c)
    /\ UNCHANGED <<server, tasks, session, transcript, stream, asked, doubt>>

\* refused, or lost on the way there or back
CallFails(c) ==
    /\ c \in InFlight
    /\ canonError' = (canonError \/ calls[c].kind # "memories")
    /\ trusted' = CASE calls[c].kind = "memories" -> trusted \ {"memories"}
                    [] calls[c].served /\ calls[c].kind \in {"add", "delete"} -> trusted \ {"canon"}
                    [] OTHER -> trusted
    /\ Settled(c)
    /\ UNCHANGED <<server, tasks, session, transcript, memories, facts, stream, asked, doubt>>

-----------------------------------------------------------------------------
(* Create and resume *)

Start(newOp) ==
    /\ ~Busy /\ RoomToStart
    /\ op' = newOp
    /\ UNCHANGED <<server, tasks, page, stream, calls, asked, doubt, trusted>>

\* the form is there until there is a session
Create ==
    /\ session = 0 /\ born < bound.sessions
    /\ Start([Idle EXCEPT !.pc = "create"])

Resume(s) ==
    /\ session = 0
    /\ Start([Idle EXCEPT !.pc = "get", !.session = s])

CreateAnswered ==
    /\ op.pc = "create"
    /\ born' = born + 1
    /\ session' = born + 1
    /\ transcript' = <<>>
    /\ memories' = {}
    /\ doubt' = FALSE
    /\ op' = [op EXCEPT !.pc = "panels"]
    /\ calls' = LoadPanels
    /\ UNCHANGED <<bound, history, kept, owed, canon, added, tasks, facts, canonError,
                   stream, asked, trusted>>

GetAnswered ==
    /\ op.pc = "get"
    /\ session' = op.session
    /\ doubt' = TRUE
    /\ op' = [op EXCEPT !.pc = "details"]
    /\ UNCHANGED <<server, tasks, transcript, memories, facts, canonError, stream, calls,
                   asked, trusted>>

FullTranscript(turns) ==
    [i \in 1..2 * Len(turns) |->
        IF i % 2 = 1 THEN Player(turns[(i + 1) \div 2].message)
        ELSE Assistant(Reply(turns[i \div 2].reply))]

\* every stored turn of a session, oldest first
SessionTurnDetails(s) == history[s]

DetailsAnswered ==
    /\ op.pc = "details"
    /\ transcript' = FullTranscript(SessionTurnDetails(session))
    /\ doubt' = \E t \in tasks : t.session = session
    /\ op' = [op EXCEPT !.pc = "panels"]
    /\ calls' = LoadPanels
    /\ UNCHANGED <<server, tasks, session, memories, facts, canonError, stream, asked, trusted>>

\* what a lost answer to a creation has created can be resumed
RequestFails ==
    /\ op.pc \in {"create", "get", "details"}
    /\ born' \in IF op.pc = "create" THEN {born, born + 1} ELSE {born}
    /\ op' = Idle
    /\ UNCHANGED <<bound, history, kept, owed, canon, added, tasks, page, stream, calls,
                   asked, doubt, trusted>>

-----------------------------------------------------------------------------
(* Turns *)

NewTask(kind, n, message) ==
    [kind |-> kind, n |-> n, message |-> message, session |-> session]

\* POST /turns/stream
RunTurn(n, message, again) ==
    /\ op' = [Idle EXCEPT !.pc = "turn", !.message = message, !.n = n, !.again = again]
    /\ UNCHANGED stream

Send ==
    /\ ~Busy /\ RoomToStart
    /\ session # 0 /\ asked < bound.turns
    /\ asked' = asked + 1
    /\ RunTurn(asked + 1, asked + 1, FALSE)
    /\ tasks' = tasks \cup {NewTask("turn", asked + 1, asked + 1)}
    /\ UNCHANGED <<server, page, calls, doubt, trusted>>

Streams(t) == op.pc = "turn" /\ op.n = t.n
Turning == {t \in tasks : t.kind = "turn"}

Emit(t, tokens) == wire' = IF Streams(t) THEN wire \o tokens ELSE wire

\* a stage of the turn begins (one stands for all)
EnterStage(t) ==
    /\ Streams(t) /\ wire = <<>>
    /\ Emit(t, StageFrame)
    /\ UNCHANGED <<server, tasks, page, op, closed, calls, asked, doubt, trusted>>

EndTask(t) ==
    /\ tasks' = tasks \ {t}
    /\ closed' = (closed \/ Streams(t))

NewTurn(t) == [message |-> t.message, reply |-> t.n, before |-> kept[t.session]]

\* the turn is stored and answered; a controlled failure is answered even if
\* storing it fails
StoreTurn(t, outcome, fragmented, saved) ==
    /\ saved \/ outcome = "controlled_failure"
    /\ EndTask(t)
    /\ Emit(t, TurnFrames(Reply(t.n), outcome, fragmented))
    /\ op' = IF Streams(t) THEN [op EXCEPT !.saved = saved] ELSE op
    /\ IF saved
       THEN /\ history' = [history EXCEPT ![t.session] = Append(@, NewTurn(t))]
            /\ owed' = [owed EXCEPT ![t.session] = @ \cup {t.n}]
       ELSE UNCHANGED <<history, owed>>
    /\ UNCHANGED <<bound, born, kept, canon, added, page, calls, asked, doubt, trusted>>

\* a turn's deferred memory job, which may be late, or never run
Curate(s) ==
    /\ \E n \in owed[s] :
        /\ kept' = [kept EXCEPT ![s] = @ \cup {n}]
        /\ owed' = [owed EXCEPT ![s] = @ \ {n}]
    /\ UNCHANGED <<bound, born, history, canon, added, tasks, page, op, stream, calls, asked,
                   doubt, trusted>>

\* an ApiError is a frame of its own, any other exception just ends the stream
TurnRaises(t) ==
    /\ EndTask(t)
    /\ \E tokens \in {ErrorFrame, <<>>} : Emit(t, tokens)
    /\ UNCHANGED <<server, page, op, calls, asked, doubt, trusted>>

\* the client has gone
CancelTurn(t) ==
    /\ ~Streams(t)
    /\ EndTask(t)
    /\ UNCHANGED <<server, page, op, wire, calls, asked, doubt, trusted>>

\* Variant: only an applied turn refreshes the memories
RestNothing(inFlight) == inFlight

\* a reroll refreshes the memories once more, whatever became of its turn
Rest(inFlight) == IF op.again THEN RefreshMemories(inFlight, FALSE) ELSE inFlight

ApplyTurn(text) ==
    /\ transcript' = transcript \o <<Player(op.message), Assistant(text)>>
    /\ calls' = Rest(RefreshMemories(calls, FALSE))
    /\ doubt' = (doubt \/ ~op.saved)

GiveUp(unsure) ==
    /\ calls' = Rest(calls)
    /\ doubt' = (doubt \/ unsure)
    /\ UNCHANGED transcript

EndTurn ==
    /\ op' = Idle
    /\ wire' = <<>> /\ closed' = FALSE
    /\ UNCHANGED <<server, tasks, session, memories, facts, canonError, asked, trusted>>

\* Reading touches nothing else, so it is one step, taken when the stream is
\* over: all of it came, in two chunks, or it was cut after some token
\* (cleanly, as far as the client can see).
EndOfStream(length, split) ==
    /\ op.pc = "turn" /\ length \in 0..Len(wire) /\ split <= length
    /\ length = Len(wire) \/ split = length
    /\ LET first == SubSeq(wire, 1, split)
           rest == SubSeq(wire, split + 1, length)
           reader == Finish(Read(Read(Fresh, first), rest))
       IN IF reader.failed THEN GiveUp(~closed \/ length < Len(wire))
          ELSE ApplyTurn(reader.text)
    /\ EndTurn

\* Variant: the timer is stopped when the response's headers are there
TimeoutOfHeaders ==
    /\ op.pc = "turn"
    /\ wire = <<>>
    /\ GiveUp(TRUE)
    /\ EndTurn

\* STREAM_TIMEOUT_MS, which covers the body as well, or a network error
Timeout ==
    /\ op.pc = "turn"
    /\ GiveUp(TRUE)
    /\ EndTurn

-----------------------------------------------------------------------------
(* Reroll *)

LastPlayer == SelectLastInSeq(transcript, LAMBDA e : e.role = "player")

Reroll ==
    /\ ~Busy /\ RoomToStart
    /\ session # 0 /\ asked < bound.turns /\ LastPlayer # 0
    /\ LET message == transcript[LastPlayer].text[1] IN
       /\ op' = [Idle EXCEPT !.pc = "reroll", !.message = message, !.n = asked + 1]
       /\ tasks' = tasks \cup {NewTask("delete", asked + 1, message)}
    /\ asked' = asked + 1
    /\ UNCHANGED <<server, page, stream, calls, doubt, trusted>>

Rerolls(t) == op.pc = "reroll" /\ op.n = t.n

\* DELETE /turns/last: the jobs are awaited, but for those it misses, and every
\* memory written since the turn was created goes, whichever turn's it is
DeleteLastTurn(s) ==
    /\ history[s] # <<>>
    /\ history' = [history EXCEPT ![s] = Front(@)]
    /\ kept' = [kept EXCEPT ![s] = @ \cap Last(history[s]).before]
    /\ \E missed \in SUBSET owed[s] :
        /\ Cardinality(missed) <= bound.late
        /\ owed' = [owed EXCEPT ![s] = missed]

\* Variant: only the reply leaves the transcript
SliceReply == SubSeq(transcript, 1, Len(transcript) - 1)

Slice == SubSeq(transcript, 1, Len(transcript) - 2)

RerollAnswered(t) ==
    /\ Rerolls(t)
    /\ DeleteLastTurn(session)
    /\ transcript' = Slice
    /\ RunTurn(op.n, op.message, TRUE)
    /\ tasks' = (tasks \ {t}) \cup {NewTask("turn", op.n, op.message)}
    /\ UNCHANGED <<bound, born, canon, added, session, memories, facts, canonError, calls,
                   asked, doubt, trusted>>

\* lost on the way there or back; the delete may still be running
RerollFails ==
    /\ op.pc = "reroll"
    /\ op' = Idle
    /\ doubt' = TRUE
    /\ UNCHANGED <<server, tasks, page, stream, calls, asked, trusted>>

\* a delete nobody waits for is not cancelled
LateDelete(t) ==
    /\ t.kind = "delete" /\ ~Rerolls(t)
    /\ DeleteLastTurn(t.session)
    /\ tasks' = tasks \ {t}
    /\ UNCHANGED <<bound, born, canon, added, page, op, stream, calls, asked, doubt, trusted>>

\* there is no turn to delete, or the request never arrived
DeleteRefused(t) ==
    /\ t.kind = "delete"
    /\ tasks' = tasks \ {t}
    /\ IF Rerolls(t) THEN op' = Idle /\ doubt' = TRUE ELSE UNCHANGED <<op, doubt>>
    /\ UNCHANGED <<server, page, stream, calls, asked, trusted>>

\* The browser reloads the page: its state is gone, not its session.  (A panel
\* request that is not served yet is taken as one that never arrived.)
Reload ==
    /\ session # 0
    /\ session' = 0
    /\ transcript' = <<>> /\ facts' = EmptyBag /\ memories' = {} /\ canonError' = FALSE
    /\ op' = Idle
    /\ wire' = <<>> /\ closed' = FALSE
    /\ calls' = [c \in Slots |-> NoCall]
    /\ doubt' = FALSE /\ trusted' = {}
    /\ UNCHANGED <<server, tasks, asked>>

-----------------------------------------------------------------------------

Next ==
    \/ ClickRefresh \/ ClickAdd
    \/ \E fact \in 1..bound.facts : ClickDelete(fact)
    \/ \E c \in Slots : Serve(c) \/ Answer(c) \/ CallFails(c)
    \/ Create \/ CreateAnswered \/ GetAnswered \/ DetailsAnswered \/ RequestFails
    \/ \E s \in 1..born : Resume(s) \/ Curate(s)
    \/ Send \/ Reroll \/ RerollFails \/ Reload
    \/ \E t \in tasks : RerollAnswered(t) \/ LateDelete(t) \/ DeleteRefused(t)
    \/ \E t \in Turning :
        \/ EnterStage(t) \/ TurnRaises(t) \/ CancelTurn(t)
        \/ \E outcome \in {"success", "controlled_failure"}, fragmented, saved \in BOOLEAN :
               StoreTurn(t, outcome, fragmented, saved)
    \/ \E length, split \in 0..Len(wire) : EndOfStream(length, split)
    \/ Timeout

(* The turn's request has a timer.  The others have none: that they end is  *)
(* assumed of the server and the browser, each by an answer or a failure.   *)
Fairness ==
    /\ WF_vars(Timeout)
    /\ WF_vars(CreateAnswered \/ GetAnswered \/ DetailsAnswered \/ RequestFails)
    /\ WF_vars(RerollFails \/ \E t \in tasks : RerollAnswered(t))
    /\ WF_vars(\E c \in Awaited : Serve(c) \/ Answer(c) \/ CallFails(c))

Spec == Init /\ [][Next]_vars /\ Fairness

-----------------------------------------------------------------------------
(* Properties *)

(* Whatever was created, resumed, sent and rerolled, and wherever streams   *)
(* were chunked, cut or timed out: an idle page shows the session's stored  *)
(* turns, message for message and reply for reply, unless a turn ended      *)
(* without the client being told how.                                       *)
TranscriptIsHistory ==
    ~Busy /\ session # 0 /\ ~doubt => transcript = FullTranscript(history[session])

(* A canon list that was loaded without a call overlapping it, and changed  *)
(* by answered calls only, is the session's canon once no call is in        *)
(* flight: no fact missing, doubled or gone.  A memory list loaded alone is *)
(* rid of every memory a reroll has swept when the reroll is over, whatever *)
(* became of the turn that was to replace the deleted one.                  *)
PanelsMatch ==
    /\ "canon" \in trusted /\ Of({"canon", "add", "delete"}) = {} =>
        facts = SetToBag(canon[session])
    /\ "memories" \in trusted /\ ~Busy /\ ~doubt /\ Of({"memories"}) = {} =>
        memories \subseteq kept[session]

(* The page does not stay busy: the buttons it disables come back, also if  *)
(* the server begins a turn's stream and never ends it.                     *)
BusyEnds == Busy ~> ~Busy

(* rerollLast deletes the last turn and resends "the same player message"   *)
(* (session-store.ts:286-288): that of the turn it has deleted.             *)
RerollResendsItsTurn ==
    [][op.pc = "reroll" /\ op'.pc = "turn" =>
           op'.message = Last(history[session]).message]_vars

(* "Side-panel failures surface here instead of silently showing stale      *)
(* data" (session-store.ts:58): without an error, and with nothing in       *)
(* flight, the canon panel shows facts the session has.                     *)
CanonErrorTellsStale ==
    ~Busy /\ session # 0 /\ ~canonError /\ Of({"canon", "add", "delete"}) = {} =>
        BagToSet(facts) \subseteq canon[session]
=============================================================================
