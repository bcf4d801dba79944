------------------------------ MODULE TurnApiInv ------------------------------
(***************************************************************************)
(* The inductive invariant behind the theorems about TurnApi, in named     *)
(* parts.  It says which actor may still do what: which requests still owe *)
(* a job, which jobs still owe a memory, and what a reroll has waited for. *)
(***************************************************************************)
EXTENDS TurnApi

\* Turn numbers are bounded by the AUTOINCREMENT id, stamps by the clock.
RowsBounded ==
    \A t \in turns : /\ 1 <= t.index /\ t.index <= t.id
                     /\ t.id <= turnSeq /\ t.created <= clock

\* A fold that is under way has something to fold.
BatchesFilled ==
    \A j \in jobs : j.phase \in {"folding", "marking"} => j.batch # {}

TypeInv == TypeOK /\ RowsBounded /\ BatchesFilled

\* The event loop runs one coroutine at a time.
OneRunner ==
    /\ \A r, s \in Requests : RequestRuns(r) /\ RequestRuns(s) => r = s
    /\ \A d, e \in Rerolls : RerollRuns(d) /\ RerollRuns(e) => d = e
    /\ \A j, k \in jobs : JobRuns(j) /\ JobRuns(k) => j = k
    /\ \A r \in Requests, d \in Rerolls : ~(RequestRuns(r) /\ RerollRuns(d))
    /\ \A r \in Requests, j \in jobs : ~(RequestRuns(r) /\ JobRuns(j))
    /\ \A d \in Rerolls, j \in jobs : ~(RerollRuns(d) /\ JobRuns(j))

\* A request that is about to commit its persona still has its row, unless the
\* session is gone.
RowStands ==
    \A r \in Requests :
        req[r].pc = "activity" /\ SessionLive
        => \E t \in turns : /\ t.id = req[r].turn
                            /\ t.persona = req[r].persona
                            /\ t.outcome = req[r].outcome

\* Each request stores at most one turn and owes that turn at most one job.
RequestsOwnTurns ==
    /\ \A r \in Requests : req[r].turn <= turnSeq
    /\ \A r \in Requests : req[r].pc \in {"new", "generating"} => req[r].turn = 0
    /\ \A r, s \in Requests : req[r].turn # 0 /\ req[r].turn = req[s].turn => r = s
    /\ \A r \in Requests : req[r].pc \in {"activity", "diagnostics", "ready"}
                           => req[r].turn # 0 /\ req[r].turn \notin scheduled
    /\ \A n \in scheduled : \E r \in Requests : req[r].turn = n /\ n # 0
                                                /\ req[r].outcome = "success"

\* Each job is the only one of its turn, carries what the turn was generated
\* under, and owes a memory until it has curated.
JobsOwnTurns ==
    /\ \A j \in jobs : j.turn \in scheduled
    /\ \A j, k \in jobs : j.turn = k.turn => j = k
    /\ \A j \in jobs, r \in Requests :
          req[r].turn = j.turn => j.scene = req[r].scene /\ j.actor = req[r].persona
    /\ \A j \in jobs : j.phase \in {"scheduled", "curating"}
                       => \A m \in Episodic : m.source # j.turn

\* Each episodic memory is the only one of its turn and was stamped after it.
MemoriesOwnTurns ==
    /\ \A m \in Episodic : m.source \in scheduled
    /\ \A m \in Episodic, r \in Requests :
          req[r].turn = m.source => m.scene = req[r].scene /\ m.actor = req[r].persona
    /\ \A m, n \in Episodic : m.source = n.source => m = n
    /\ \A m \in Episodic, t \in turns : t.id = m.source => t.created <= m.created
    /\ \A m \in Episodic, d \in Rerolls :
          rerolls[d].pc \in {"restoring", "sweeping"} /\ rerolls[d].row.id = m.source
          => rerolls[d].row.created <= m.created

\* A reroll has waited, or still waits, for every job it knew of.
DrainsKnown ==
    /\ \A d \in Rerolls : rerolls[d].known \subseteq scheduled
    /\ \A d \in Rerolls : rerolls[d].pc = "draining"
                          => rerolls[d].known \cap PendingTurns \subseteq rerolls[d].waiting
    /\ \A d \in Rerolls : rerolls[d].pc \in {"deleting", "restoring", "sweeping", "unindexing", "done"}
                          => rerolls[d].known \cap PendingTurns = {}
    /\ \A d \in Rerolls : rerolls[d].pc \in {"restoring", "sweeping"}
                          => rerolls[d].row.created <= clock

\* Who owes what (TurnApiMemories).
OwnInv ==
    /\ RequestsOwnTurns
    /\ JobsOwnTurns
    /\ MemoriesOwnTurns
    /\ DrainsKnown
    /\ DrainedRerollLeavesNothing

\* What a commit of the persona rests on (TurnApiHistory).
PersonaInv == OneRunner /\ RowStands
Stamps(rows) == {m.created : m \in rows}
Unfolded == {m \in memories : ~m.consolidated}

\* What the running job, once it has marked its fold, has yet to unindex, and what
\* the running reroll has.
OwedByJob(j) == IF j.kind = "summary" /\ j.phase # "marking" THEN Stamps(j.batch) ELSE {}

\* How far the session's index is behind the store: not at all, or by the row
\* the running job has just committed and by what it, or the running reroll, has
\* yet to unindex.
IndexInStep ==
    /\ LoopFree => SessionPoints = Stamps(Unfolded)
    /\ \A r \in Requests : RequestRuns(r) => SessionPoints = Stamps(Unfolded)
    /\ \A d \in Rerolls :
          /\ rerolls[d].pc \in {"deleting", "restoring", "sweeping"}
             => SessionPoints = Stamps(Unfolded)
          /\ rerolls[d].pc = "unindexing"
             => SessionPoints \ rerolls[d].swept = Stamps(Unfolded)
    /\ \A j \in jobs :
          /\ j.phase \in {"indexing", "marking"}
             => (SessionPoints \cup {j.fresh}) \ OwedByJob(j) = Stamps(Unfolded)
          /\ j.phase \in {"capping", "unindexing"}
             => SessionPoints \ OwedByJob(j) = Stamps(Unfolded)
          /\ j.phase \in {"marking", "unindexing"} => j.kind = "summary"

\* Each stamp is one row's.
StampsUnique ==
    /\ \A m \in memories : m.created <= clock
    /\ \A m, n \in memories : m.created = n.created => m = n

\* Nothing is indexed under a stamp to come.
StampsPast ==
    /\ StampsUnique
    /\ \A id \in SessionPoints : id <= clock
    /\ \A j \in jobs : JobRuns(j) => j.fresh <= clock

\* Who is between an upsert and its eviction has a point to spare.
Spare(pending) == IF \E j \in pending : j.phase = "capping" THEN 1 ELSE 0

IndexWithinCap ==
    /\ StampsPast
    /\ SessionIndexCap > 0 => Cardinality(LivePoints) <= SessionIndexCap + lapsed + Spare(jobs)

\* One client: one request or reroll is in flight at most.
RequestAsks(r) == req[r].pc # "new" /\ ~RequestEnded(r)
RerollAsks(d) == rerolls[d].pc # "new" /\ ~RerollEnded(d)

OneClient ==
    /\ \A r, s \in Requests : RequestAsks(r) /\ RequestAsks(s) => r = s
    /\ \A d, e \in Rerolls : RerollAsks(d) /\ RerollAsks(e) => d = e
    /\ \A r \in Requests, d \in Rerolls : ~(RequestAsks(r) /\ RerollAsks(d))

\* A deleted session has no rows.
DeletedIsEmpty == ~SessionLive => turns = {} /\ memories = {}

\* The persona is the newest successful turn's, but for what the request or
\* the reroll in flight is about to do.
PersonaIsLatest ==
    \A t \in SuccessTurns : IsLast(t, SuccessTurns) => session.persona = t.persona

PersonaInStep ==
    /\ \/ PersonaIsLatest
       \/ \E r \in Requests : req[r].pc = "activity" /\ req[r].outcome = "success"
       \/ \E d \in Rerolls : rerolls[d].pc = "restoring" /\ rerolls[d].row.outcome = "success"
    /\ \A r \in Requests :
          SessionLive /\ req[r].pc \in {"generating", "activity"}
          => req[r].switched \/ session.persona = req[r].persona
    /\ \A r \in Requests :
          SessionLive /\ req[r].pc = "activity" /\ req[r].outcome = "success"
          => \E t \in SuccessTurns : IsLast(t, SuccessTurns) /\ t.persona = req[r].persona
    /\ \A d \in Rerolls :
          SessionLive /\ rerolls[d].pc = "restoring" /\ rerolls[d].row.outcome = "success"
          => session.persona = rerolls[d].row.persona

\* Where the memories come from while one client asks.
InHistory(n) == \E t \in turns : t.id = n

SourcesInHistory ==
    /\ \A m \in memories :
          \/ InHistory(m.source)
          \/ \E d \in Rerolls : /\ rerolls[d].pc \in {"restoring", "sweeping"}
                                /\ rerolls[d].row.id = m.source
                                /\ rerolls[d].row.created <= m.created
    /\ \A m \in memories : m.source <= turnSeq
    /\ \A m \in memories, t \in turns : t.id = m.source => t.created <= m.created
    /\ SessionLive => \A j \in jobs : /\ InHistory(j.turn)
                                      /\ \A m \in j.batch : InHistory(m.source)
    /\ SessionLive => \A r \in Requests : req[r].pc \in {"activity", "diagnostics", "ready"}
                                          => InHistory(req[r].turn)
    /\ \A d \in Rerolls : rerolls[d].pc = "draining" => PendingTurns \subseteq rerolls[d].waiting
    /\ \A d \in Rerolls : RerollRuns(d) => jobs = {}

=============================================================================
