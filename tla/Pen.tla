-------------------------------- MODULE Pen --------------------------------
(***************************************************************************)
(* The prey pen: POST /verdict handlers, each on a connection of its own,  *)
(* move prey rows through guarded transitions (verdicts.submit_verdict);   *)
(* a FEAST enqueues a job that a background worker claims, drafts and      *)
(* completes (run_job_worker).  An action is one statement of one          *)
(* connection, or what its task does between two statements.               *)
(*                                                                         *)
(* A reason is a member of Reasons or None; provenance is carried by the   *)
(* same COALESCE and left out.                                             *)
(***************************************************************************)
EXTENDS Integers, Sequences, FiniteSets, SequencesExt

CONSTANTS
    Prey,           \* ids a hunt may capture
    Handlers,       \* verdict requests served at the same time
    Workers,        \* run_job_worker tasks (the lifespan starts one)
    Reasons,        \* texts a reason may have
    None,           \* no reason, nobody holds the write lock
    MaxVerdicts,    \* bound: verdicts committed per prey
    MaxReboots,     \* bound: times the process ends and boots again
    MaxFaults       \* bound: failing statements and drafts

ASSUME PenAssumption ==
    /\ None \notin Reasons \cup Handlers \cup Workers
    /\ Handlers \cap Workers = {} /\ IsFiniteSet(Handlers)
    /\ MaxVerdicts \in Nat /\ MaxReboots \in Nat /\ MaxFaults \in Nat

VARIABLES
    pen,        \* the committed tables: prey rows, pen_events, jobs
    view,       \* what the holder of the write lock sees
    holder,     \* whose connection holds the write lock
    hpc, req,   \* per handler: its next statement, its request
    wpc, job, won,  \* per worker: next statement, selected job, rowcount = 1
    relayed,    \* per prey: verdict frames given to the hub since boot
    bootLen,    \* per prey: verdicts in its log at boot
    reboots, faults

tables  == <<pen, view, holder>>
handler == <<hpc, req, relayed>>
worker  == <<wpc, job, won>>
mishaps == <<bootLen, reboots, faults>>
vars    == <<tables, handler, worker, mishaps>>

Verdicts == {"FEAST", "RELEASE", "AMBER", "REENTER"}

\* verdict -> the status it leads from and the status it leads to
Source == [v \in Verdicts |-> IF v = "REENTER" THEN "ambered" ELSE "awaiting"]
TargetRenamed == [FEAST |-> "feasted", RELEASE |-> "rejected",
                  AMBER |-> "ambered", REENTER |-> "awaiting"]   \* mutant
Target == [FEAST |-> "feasted", RELEASE |-> "released",
           AMBER |-> "ambered", REENTER |-> "awaiting"]

PreyStatus == {"absent", "awaiting", "feasted", "released", "ambered"}
JobStatus  == {"queued", "running", "done"}
Verdict    == [verdict : Verdicts, reason : Reasons \cup {None}]
Request    == [prey : Prey, verdict : Verdicts, reason : Reasons \cup {None}]
Tables     == [status : [Prey -> PreyStatus], reason : [Prey -> Reasons \cup {None}],
               events : [Prey -> Seq(Verdict)],
               jobs : Seq([prey : Prey, status : JobStatus])]

Coalesce(x, y) == IF x # None THEN x ELSE y

Init ==
    /\ pen = [status |-> [p \in Prey |-> "absent"], reason |-> [p \in Prey |-> None],
              events |-> [p \in Prey |-> <<>>], jobs |-> <<>>]
    /\ view = pen /\ holder = None
    /\ hpc = [h \in Handlers |-> "idle"]
    /\ req = [h \in Handlers |-> None]
    /\ wpc = [w \in Workers |-> "poll"]
    /\ job = [w \in Workers |-> 0] /\ won = [w \in Workers |-> FALSE]
    /\ relayed = [p \in Prey |-> 0] /\ bootLen = [p \in Prey |-> 0]
    /\ reboots = 0 /\ faults = 0

Write(c, tab) == /\ holder \in {None, c}
                 /\ holder' = c
                 /\ view' = tab
                 /\ UNCHANGED pen

Commit(c) == /\ holder = c /\ holder' = None
             /\ pen' = view /\ UNCHANGED view

Rollback(c) == /\ holder' = IF holder = c THEN None ELSE holder
               /\ view' = IF holder = c THEN pen ELSE view
               /\ UNCHANGED pen

\* A hunt's capture_prey, whose own steps HuntStore models.
CapturePrey(p) ==
    /\ holder = None /\ pen.status[p] = "absent"
    /\ pen' = [pen EXCEPT !.status[p] = "awaiting"]
    /\ view' = pen'
    /\ UNCHANGED <<holder, handler, worker, mishaps>>

-----------------------------------------------------------------------------
(* POST /verdict: server.post_verdict and verdicts.submit_verdict.         *)

HandlerAt(h, a) == hpc[h] = a
HandlerTo(h, a) == hpc' = [hpc EXCEPT ![h] = a]

\* The response is sent: nothing of the request is left.
Respond(h) == HandlerTo(h, "idle") /\ req' = [req EXCEPT ![h] = None]

\* A request: RELEASE without a reason is refused before any write.
Post(h) ==
    /\ HandlerAt(h, "idle")
    /\ \E r \in Request : /\ r.verdict = "RELEASE" => r.reason # None
                          /\ Len(pen.events[r.prey]) < MaxVerdicts
                          /\ req' = [req EXCEPT ![h] = r]
    /\ HandlerTo(h, "update")
    /\ UNCHANGED <<tables, relayed, worker, mishaps>>

UpdateRow(h, sources, reason) ==
    LET r == req[h] IN
    /\ HandlerAt(h, "update")
    /\ IF view.status[r.prey] \in sources
       THEN /\ Write(h, [view EXCEPT !.status[r.prey] = Target[r.verdict],
                                     !.reason[r.prey] = reason])
            /\ HandlerTo(h, "event")
       ELSE Write(h, view) /\ HandlerTo(h, "rollback")
    /\ UNCHANGED <<req, relayed, worker, mishaps>>

Told(h) == Coalesce(req[h].reason, view.reason[req[h].prey])

\* Mutant: the reason is overwritten, not coalesced.
UpdatePreyPlain(h) == UpdateRow(h, {Source[req[h].verdict]}, req[h].reason)

\* Mutant: a verdict may also come from the status it leads to.
UpdatePreyAgain(h) ==
    UpdateRow(h, {Source[req[h].verdict], Target[req[h].verdict]}, Told(h))

\* UPDATE prey ... WHERE id = ? AND status = <source>
UpdatePrey(h) == UpdateRow(h, {Source[req[h].verdict]}, Told(h))

\* Mutant: the frame is sent whether or not the verdict was applied.
NoOpRelays(h) ==
    /\ HandlerAt(h, "rollback")
    /\ Rollback(h)
    /\ HandlerTo(h, "notify")
    /\ UNCHANGED <<req, relayed, worker, mishaps>>

NoOp(h) ==
    /\ HandlerAt(h, "rollback")
    /\ Rollback(h)
    /\ Respond(h)
    /\ UNCHANGED <<relayed, worker, mishaps>>

AppendVerdict(h) ==
    LET r == req[h] IN
    /\ HandlerAt(h, "event")
    /\ Write(h, [view EXCEPT !.events[r.prey] =
                    Append(@, [verdict |-> r.verdict, reason |-> r.reason])])
    /\ HandlerTo(h, IF r.verdict = "FEAST" THEN "enqueue" ELSE "commit")
    /\ UNCHANGED <<req, relayed, worker, mishaps>>

EnqueueJob(h) ==
    /\ HandlerAt(h, "enqueue")
    /\ Write(h, [view EXCEPT !.jobs =
                    Append(@, [prey |-> req[h].prey, status |-> "queued"])])
    /\ HandlerTo(h, "commit")
    /\ UNCHANGED <<req, relayed, worker, mishaps>>

CommitVerdict(h) ==
    /\ HandlerAt(h, "commit")
    /\ Commit(h)
    /\ HandlerTo(h, "notify")
    /\ UNCHANGED <<req, relayed, worker, mishaps>>

\* The connection is closed; the applied verdict goes to every open board.
NotifyVerdict(h) ==
    /\ HandlerAt(h, "notify")
    /\ relayed' = [relayed EXCEPT ![req[h].prey] = @ + 1]
    /\ Respond(h)
    /\ UNCHANGED <<tables, worker, mishaps>>

\* A statement raises: 500, and closing the connection rolls back.
FailHandler(h) ==
    /\ hpc[h] \in {"update", "event", "enqueue"} /\ faults < MaxFaults
    /\ faults' = faults + 1
    /\ Rollback(h)
    /\ Respond(h)
    /\ UNCHANGED <<relayed, worker, bootLen, reboots>>

Serve(h) == \/ UpdatePrey(h) \/ NoOp(h) \/ AppendVerdict(h) \/ EnqueueJob(h)
            \/ CommitVerdict(h) \/ NotifyVerdict(h)

-----------------------------------------------------------------------------
(* The follow-up worker.                                                   *)

WorkerTo(w, a) == wpc' = [wpc EXCEPT ![w] = a]

PollAgain(w) == /\ WorkerTo(w, "poll")
                /\ job' = [job EXCEPT ![w] = 0]
                /\ won' = [won EXCEPT ![w] = FALSE]

(* claim_job's SELECT.  Its order, created_at, is stamped before the lock  *)
(* is taken and need not be the order of the commits: any queued job.      *)
SelectJob(w) ==
    /\ wpc[w] = "poll"
    /\ \E j \in DOMAIN pen.jobs : /\ pen.jobs[j].status = "queued"
                                  /\ job' = [job EXCEPT ![w] = j]
    /\ WorkerTo(w, "claim")
    /\ UNCHANGED <<tables, handler, won, mishaps>>

\* Mutant: the flip without AND status = 'queued'.
ClaimJobUnguarded(w) ==
    /\ wpc[w] = "claim"
    /\ Write(w, [view EXCEPT !.jobs[job[w]].status = "running"])
    /\ won' = [won EXCEPT ![w] = TRUE]
    /\ WorkerTo(w, "commit_claim")
    /\ UNCHANGED <<handler, job, mishaps>>

\* UPDATE jobs ... WHERE id = ? AND status = 'queued'
ClaimJob(w) ==
    LET free == view.jobs[job[w]].status = "queued" IN
    /\ wpc[w] = "claim"
    /\ Write(w, IF free THEN [view EXCEPT !.jobs[job[w]].status = "running"] ELSE view)
    /\ won' = [won EXCEPT ![w] = free]
    /\ WorkerTo(w, "commit_claim")
    /\ UNCHANGED <<handler, job, mishaps>>

CommitClaim(w) ==
    /\ wpc[w] = "commit_claim"
    /\ Commit(w)
    /\ IF won[w] THEN WorkerTo(w, "draft") /\ UNCHANGED <<job, won>> ELSE PollAgain(w)
    /\ UNCHANGED <<handler, mishaps>>

Drafted(w) ==
    /\ wpc[w] = "draft"
    /\ WorkerTo(w, "complete")
    /\ UNCHANGED <<tables, handler, job, won, mishaps>>

CompleteJob(w) ==
    /\ wpc[w] = "complete"
    /\ Write(w, [view EXCEPT !.jobs[job[w]].status = "done"])
    /\ WorkerTo(w, "commit_done")
    /\ UNCHANGED <<handler, job, won, mishaps>>

CommitDone(w) ==
    /\ wpc[w] = "commit_done"
    /\ Commit(w)
    /\ PollAgain(w)
    /\ UNCHANGED <<handler, mishaps>>

\* The drafter or a statement raises: nothing catches it, the worker's
\* finally closes its connection and the task is dead until the next boot.
WorkerDies(w) ==
    /\ wpc[w] \in {"claim", "draft", "complete"} /\ faults < MaxFaults
    /\ faults' = faults + 1
    /\ Rollback(w)
    /\ WorkerTo(w, "dead")
    /\ UNCHANGED <<handler, job, won, bootLen, reboots>>

Work(w) == \/ SelectJob(w) \/ ClaimJob(w) \/ CommitClaim(w) \/ Drafted(w)
           \/ CompleteJob(w) \/ CommitDone(w)

-----------------------------------------------------------------------------
\* Everybody's open transaction is rolled back, every task is new.
BootWith(jobs) ==
    /\ reboots < MaxReboots
    /\ reboots' = reboots + 1
    /\ pen' = [pen EXCEPT !.jobs = jobs]
    /\ view' = pen' /\ holder' = None
    /\ hpc' = [h \in Handlers |-> "idle"] /\ req' = [h \in Handlers |-> None]
    /\ wpc' = [w \in Workers |-> "poll"]
    /\ job' = [w \in Workers |-> 0] /\ won' = [w \in Workers |-> FALSE]
    /\ relayed' = [p \in Prey |-> 0]
    /\ bootLen' = [p \in Prey |-> Len(pen.events[p])]
    /\ UNCHANGED faults

\* Mutant: the boot requeues nothing.
RebootForgets == BootWith(pen.jobs)

\* The process ends, killed or shut down, and boots: requeue_running_jobs,
\* then the worker.
Reboot == BootWith([j \in DOMAIN pen.jobs |->
                       [pen.jobs[j] EXCEPT !.status = IF @ = "running" THEN "queued" ELSE @]])

Next == \/ Reboot
        \/ \E p \in Prey : CapturePrey(p)
        \/ \E h \in Handlers : Post(h) \/ Serve(h) \/ FailHandler(h)
        \/ \E w \in Workers : Work(w) \/ WorkerDies(w)

(* Requests under way are served and a worker polls; nobody has to post a  *)
(* verdict.  Less than what the scheduling of tasks and SQLite's retries   *)
(* give each handler and each worker, and enough.                          *)
Fairness == WF_vars(\E h \in Handlers : Serve(h)) /\ SF_vars(\E w \in Workers : Work(w))

Spec     == Init /\ [][Next]_vars
FairSpec == Spec /\ Fairness

-----------------------------------------------------------------------------
(* verdicts.fold: the projection rebuilt from a prey's verdict log.        *)
Fold(events) ==
    FoldLeft(LAMBDA row, e : IF row.status # Source[e.verdict] THEN row
                             ELSE [status |-> Target[e.verdict],
                                   reason |-> Coalesce(e.reason, row.reason)],
             [status |-> "awaiting", reason |-> None], events)

(* Type invariant: the values every variable ranges over.                  *)
TypeOK ==
    /\ pen \in Tables /\ view \in Tables
    /\ holder \in Handlers \cup Workers \cup {None}
    /\ hpc \in [Handlers -> {"idle", "update", "rollback", "event", "enqueue",
                             "commit", "notify"}]
    /\ req \in [Handlers -> Request \cup {None}]
    /\ wpc \in [Workers -> {"poll", "claim", "commit_claim", "draft", "complete",
                            "commit_done", "dead"}]
    /\ job \in [Workers -> Nat] /\ won \in [Workers -> BOOLEAN]
    /\ relayed \in [Prey -> Nat] /\ bootLen \in [Prey -> Nat]
    /\ reboots \in Nat /\ faults \in Nat

(* verdicts.fold, "the column never drifts": the committed row of every    *)
(* captured prey is the fold of its committed verdict log, under           *)
(* concurrent verdicts, failing statements and restarts.                   *)
RowIsFold ==
    \A p \in Prey : pen.status[p] # "absent" =>
        Fold(pen.events[p]) = [status |-> pen.status[p], reason |-> pen.reason[p]]

JobsOf(table, p)   == {j \in DOMAIN table.jobs : table.jobs[j].prey = p}
FeastsOf(table, p) == {i \in DOMAIN table.events[p] : table.events[p][i].verdict = "FEAST"}

(* submit_verdict, "one FEAST -> one job, even under a concurrent          *)
(* double-FEAST": a feasted prey has exactly one FEAST in its log and one  *)
(* job, any other has neither.                                             *)
OneJobPerFeast ==
    \A p \in Prey :
        LET n == IF pen.status[p] = "feasted" THEN 1 ELSE 0
        IN  Cardinality(JobsOf(pen, p)) = n /\ Cardinality(FeastsOf(pen, p)) = n

(* claim_job, "each job is handed to at most one": no two workers draft or *)
(* complete the same job, and a running job always has a worker that holds *)
(* it or that died on it.                                                  *)
ClaimIsExclusive ==
    LET Holds(w) == \/ wpc[w] \in {"draft", "complete", "commit_done", "dead"}
                    \/ wpc[w] = "commit_claim" /\ won[w]
    IN  /\ \A w, x \in Workers :
              /\ w # x /\ job[w] = job[x]
              /\ wpc[w] \in {"draft", "complete", "commit_done"}
              => wpc[x] \notin {"draft", "complete", "commit_done"}
        /\ \A j \in DOMAIN pen.jobs :
              pen.jobs[j].status = "running" => \E w \in Workers : job[w] = j /\ Holds(w)

(* server.post_verdict: each verdict committed since boot is relayed to    *)
(* the open boards once, and none before its commit.                       *)
RelayedOnce ==
    \A p \in Prey :
        Len(pen.events[p]) =
            bootLen[p] + relayed[p]
            + Cardinality({h \in Handlers : hpc[h] = "notify" /\ req[h].prey = p})

(* run_job_worker with the boot sweep: every enqueued job is drafted in    *)
(* the end, also across restarts, as long as neither the drafter nor a     *)
(* statement raises.                                                       *)
JobsAreDrafted ==
    \A p \in Prey :
        (pen.status[p] = "feasted" /\ faults = 0)
        ~> (faults > 0 \/ \A j \in JobsOf(pen, p) : pen.jobs[j].status = "done")
=============================================================================
