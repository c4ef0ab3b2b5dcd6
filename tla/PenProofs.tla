------------------------------ MODULE PenProofs ------------------------------
(***************************************************************************)
(* Theorems of Pen, for any number of prey, handlers, workers and reasons  *)
(* and any bounds.  The inductive invariant IInv says what the holder of   *)
(* the write lock sees, at every statement of its transaction, in terms of *)
(* the committed tables: which is what its commit will make of them.  With *)
(* it, the row a prey has is the fold of its verdict log (RowInv).         *)
(***************************************************************************)
EXTENDS Pen, FiniteSetTheorems, TLAPS

LockFree == holder = None => view = pen

(* A verdict in progress: the row has moved from its source to its target, *)
(* the event is in the log past "event", the job in the table at "commit". *)
VerdictView(h) ==
    LET r == req[h] IN
    /\ pen.status[r.prey] = Source[r.verdict]
    /\ view.status = [pen.status EXCEPT ![r.prey] = Target[r.verdict]]
    /\ view.events = IF hpc[h] = "event" THEN pen.events
                     ELSE [pen.events EXCEPT ![r.prey] =
                              Append(@, [verdict |-> r.verdict, reason |-> r.reason])]
    /\ view.jobs = IF hpc[h] = "commit" /\ r.verdict = "FEAST"
                   THEN Append(pen.jobs, [prey |-> r.prey, status |-> "queued"])
                   ELSE pen.jobs
    /\ hpc[h] = "enqueue" => r.verdict = "FEAST"

HandlerView(h) ==
    /\ hpc[h] # "idle" => req[h] \in Request
    /\ holder = h <=> hpc[h] \in {"rollback", "event", "enqueue", "commit"}
    /\ hpc[h] = "rollback" => view = pen
    /\ hpc[h] \in {"event", "enqueue", "commit"} => VerdictView(h)

(* A claim or a completion in progress: one job's status has moved.        *)
JobMoved(w, s) ==
    /\ view.status = pen.status /\ view.events = pen.events
    /\ view.jobs = [pen.jobs EXCEPT ![job[w]].status = s]

WorkerView(w) ==
    /\ wpc[w] # "poll" => job[w] \in DOMAIN pen.jobs
    /\ holder = w <=> wpc[w] \in {"commit_claim", "commit_done"}
    /\ wpc[w] = "commit_claim" =>
          IF won[w] THEN JobMoved(w, "running") /\ pen.jobs[job[w]].status = "queued"
          ELSE view = pen
    /\ wpc[w] = "commit_done" => JobMoved(w, "done")
    /\ wpc[w] \in {"draft", "complete", "commit_done"} => pen.jobs[job[w]].status = "running"

Views == /\ LockFree
         /\ \A h \in Handlers : HandlerView(h)
         /\ \A w \in Workers : WorkerView(w)

IInv == TypeOK /\ Views /\ OneJobPerFeast /\ ClaimIsExclusive /\ RelayedOnce

-----------------------------------------------------------------------------
(* What a step leaves alone.                                               *)

Job == [prey : Prey, status : JobStatus]

LEMMA TablesTyped ==
    ASSUME NEW tab \in Tables
    PROVE  /\ tab.status \in [Prey -> PreyStatus]
           /\ tab.reason \in [Prey -> Reasons \cup {None}]
           /\ tab.events \in [Prey -> Seq(Verdict)]
           /\ tab.jobs \in Seq(Job)
BY DEF Tables, Job

(* Who is not the holder before and after a step sees nothing of it.       *)
LEMMA HandlerAside ==
    ASSUME NEW g \in Handlers, HandlerView(g), hpc'[g] = hpc[g], req'[g] = req[g],
           UNCHANGED tables \/ (holder # g /\ holder' # g)
    PROVE  HandlerView(g)'
<1>1. CASE UNCHANGED tables
  BY <1>1 DEF HandlerView, VerdictView, tables
<1>2. CASE holder # g /\ holder' # g
  BY <1>2 DEF HandlerView
<1> QED BY <1>1, <1>2

LEMMA WorkerAside ==
    ASSUME NEW w \in Workers, WorkerView(w),
           wpc'[w] = wpc[w], job'[w] = job[w], won'[w] = won[w],
           UNCHANGED tables \/ (holder # w /\ holder' # w),
           DOMAIN pen.jobs \subseteq DOMAIN pen'.jobs,
           wpc[w] \in {"draft", "complete"} =>
               pen'.jobs[job[w]].status = pen.jobs[job[w]].status
    PROVE  WorkerView(w)'
<1>1. CASE UNCHANGED tables
  BY <1>1 DEF WorkerView, JobMoved, tables
<1>2. CASE holder # w /\ holder' # w
  BY <1>2 DEF WorkerView
<1> QED BY <1>1, <1>2

LEMMA ClaimsKept ==
    ASSUME ClaimIsExclusive, UNCHANGED <<worker, pen>>
    PROVE  ClaimIsExclusive'
BY DEF ClaimIsExclusive, worker

LEMMA FeastsKept ==
    ASSUME OneJobPerFeast, UNCHANGED pen
    PROVE  OneJobPerFeast'
BY DEF OneJobPerFeast, JobsOf, FeastsOf

(* Neither into the notification nor out of it.                            *)
LEMMA RelaysKept ==
    ASSUME RelayedOnce, TypeOK, NEW h \in Handlers, UNCHANGED <<pen, relayed, bootLen>>,
           NEW a, a # "notify", hpc[h] # "notify",
           hpc' = [hpc EXCEPT ![h] = a], \A g \in Handlers \ {h} : req'[g] = req[g]
    PROVE  RelayedOnce'
<1>1. \A p \in Prey : {g \in Handlers : hpc'[g] = "notify" /\ req'[g].prey = p}
                      = {g \in Handlers : hpc[g] = "notify" /\ req[g].prey = p}
  BY DEF TypeOK
<1> QED BY <1>1 DEF RelayedOnce

LEMMA RelaysAside ==
    ASSUME RelayedOnce, UNCHANGED <<hpc, req, relayed, bootLen>>,
           \A p \in Prey : Len(pen'.events[p]) = Len(pen.events[p])
    PROVE  RelayedOnce'
BY DEF RelayedOnce

-----------------------------------------------------------------------------
(* POST /verdict.                                                          *)

LEMMA Actors == \A h \in Handlers : h # None /\ h \notin Workers /\ \A w \in Workers : w # None
BY PenAssumption

(* A handler's step that leaves the committed tables alone and does not    *)
(* concern the notification.                                               *)
LEMMA HandlerMoves ==
    ASSUME IInv, NEW h \in Handlers, NEW a, a # "notify", hpc[h] # "notify",
           hpc' = [hpc EXCEPT ![h] = a], \A g \in Handlers \ {h} : req'[g] = req[g],
           UNCHANGED <<pen, worker, relayed, bootLen>>,
           UNCHANGED tables \/ (holder \in {None, h} /\ holder' \in {None, h}),
           TypeOK', LockFree', HandlerView(h)'
    PROVE  IInv'
<1>1. \A g \in Handlers : HandlerView(g)'
  <2>1. ASSUME NEW g \in Handlers, g # h PROVE HandlerView(g)'
    <3>1. HandlerView(g) /\ hpc'[g] = hpc[g] /\ req'[g] = req[g]
      BY <2>1 DEF IInv, Views, TypeOK
    <3>2. UNCHANGED tables \/ (holder # g /\ holder' # g)
      BY <2>1, Actors
    <3> QED BY <3>1, <3>2, HandlerAside
  <2> QED BY <2>1
<1>2. \A w \in Workers : WorkerView(w)'
  <2>1. ASSUME NEW w \in Workers PROVE WorkerView(w)'
    <3>1. WorkerView(w) /\ wpc'[w] = wpc[w] /\ job'[w] = job[w] /\ won'[w] = won[w]
      BY DEF IInv, Views, worker
    <3>2. UNCHANGED tables \/ (holder # w /\ holder' # w)
      BY Actors
    <3> QED BY <3>1, <3>2, WorkerAside
  <2> QED BY <2>1
<1>3. OneJobPerFeast' /\ ClaimIsExclusive'
  BY FeastsKept, ClaimsKept DEF IInv
<1>4. RelayedOnce'
  BY RelaysKept DEF IInv
<1> QED BY <1>1, <1>2, <1>3, <1>4 DEF IInv, Views

LEMMA PostIInv == ASSUME IInv, NEW h \in Handlers, Post(h) PROVE IInv'
<1>1. PICK r \in Request : /\ req' = [req EXCEPT ![h] = r]
                           /\ hpc[h] = "idle" /\ hpc' = [hpc EXCEPT ![h] = "update"]
                           /\ UNCHANGED <<tables, relayed, worker, mishaps>>
  BY DEF Post, HandlerAt, HandlerTo
<1>2. TypeOK'
  BY <1>1 DEF IInv, TypeOK, tables, worker, mishaps
<1>3. LockFree'
  BY <1>1 DEF IInv, Views, LockFree, tables
<1>4. HandlerView(h)'
  BY <1>1 DEF IInv, TypeOK, Views, HandlerView, tables
<1>5. UNCHANGED <<pen, worker, relayed, bootLen>> /\ UNCHANGED tables
  BY <1>1 DEF tables, mishaps
<1>6. \A g \in Handlers \ {h} : req'[g] = req[g]
  BY <1>1 DEF IInv, TypeOK
<1> QED BY <1>1, <1>2, <1>3, <1>4, <1>5, <1>6, HandlerMoves

(* Types of the steps of a handler that holds or takes the lock.           *)
LEMMA HandlerTyped ==
    ASSUME TypeOK, NEW h \in Handlers, hpc' \in [Handlers -> {"idle", "update", "rollback", "event",
               "enqueue", "commit", "notify"}], req' \in [Handlers -> Request \cup {None}],
           pen' \in Tables, view' \in Tables, holder' \in Handlers \cup Workers \cup {None},
           UNCHANGED <<worker, bootLen, reboots>>, relayed' \in [Prey -> Nat], faults' \in Nat
    PROVE  TypeOK'
BY DEF TypeOK, worker

LEMMA UpdatePreyIInv == ASSUME IInv, NEW h \in Handlers, UpdatePrey(h) PROVE IInv'
<1> DEFINE r == req[h]
<1>1. /\ hpc[h] = "update" /\ r \in Request /\ holder # h
      /\ view \in Tables /\ pen \in Tables /\ view = pen
  <2>1. HandlerView(h) /\ LockFree /\ TypeOK /\ hpc[h] = "update"
    BY DEF IInv, Views, UpdatePrey, UpdateRow, HandlerAt
  <2>2. holder = None
    BY <2>1 DEF HandlerView, UpdatePrey, UpdateRow, Write
  <2> QED BY <2>1, <2>2, Actors DEF TypeOK, HandlerView, LockFree
<1>2. /\ holder \in {None, h} /\ holder' = h
      /\ UNCHANGED <<pen, req, relayed, worker, mishaps>>
  BY DEF UpdatePrey, UpdateRow, Write
<1>3. LockFree'
  BY <1>2, Actors DEF LockFree
<1>4. CASE view.status[r.prey] = Source[r.verdict]
  <2>1. /\ view' = [view EXCEPT !.status[r.prey] = Target[r.verdict], !.reason[r.prey] = Told(h)]
        /\ hpc' = [hpc EXCEPT ![h] = "event"]
    BY <1>4 DEF UpdatePrey, UpdateRow, Write, HandlerTo
  <2>2. r.prey \in Prey /\ Target[r.verdict] \in PreyStatus /\ Told(h) \in Reasons \cup {None}
    BY <1>1, TablesTyped DEF Request, Target, Verdicts, PreyStatus, Told, Coalesce
  <2>3. view' \in Tables
    BY <1>1, <2>1, <2>2 DEF Tables
  <2>4. TypeOK'
    BY <1>1, <1>2, <2>1, <2>3 DEF IInv, TypeOK, worker, mishaps
  <2>5. VerdictView(h)'
    <3>1. /\ view'.status = [view.status EXCEPT ![r.prey] = Target[r.verdict]]
          /\ view'.events = view.events /\ view'.jobs = view.jobs
      BY <1>1, <2>1 DEF Tables
    <3>2. hpc'[h] = "event" /\ req'[h] = r
      BY <1>2, <2>1 DEF IInv, TypeOK
    <3> QED BY <1>1, <1>2, <1>4, <3>1, <3>2 DEF VerdictView
  <2>6. HandlerView(h)'
    BY <1>1, <1>2, <2>1, <2>5 DEF HandlerView, IInv, TypeOK
  <2> QED BY <1>1, <1>2, <1>3, <2>1, <2>4, <2>6, HandlerMoves DEF mishaps
<1>5. CASE view.status[r.prey] # Source[r.verdict]
  <2>1. view' = view /\ hpc' = [hpc EXCEPT ![h] = "rollback"]
    BY <1>5 DEF UpdatePrey, UpdateRow, Write, HandlerTo
  <2>2. TypeOK'
    BY <1>1, <1>2, <2>1 DEF IInv, TypeOK, worker, mishaps
  <2>3. HandlerView(h)'
    BY <1>1, <1>2, <2>1 DEF HandlerView, IInv, TypeOK
  <2> QED BY <1>1, <1>2, <1>3, <2>1, <2>2, <2>3, HandlerMoves DEF mishaps
<1> QED BY <1>4, <1>5

LEMMA NoOpIInv == ASSUME IInv, NEW h \in Handlers, NoOp(h) PROVE IInv'
<1>1. /\ hpc[h] = "rollback" /\ holder = h /\ view = pen
      /\ holder' = None /\ view' = pen /\ UNCHANGED pen
      /\ hpc' = [hpc EXCEPT ![h] = "idle"] /\ req' = [req EXCEPT ![h] = None]
      /\ UNCHANGED <<relayed, worker, mishaps>>
  BY DEF IInv, Views, HandlerView, NoOp, HandlerAt, HandlerTo, Respond, Rollback
<1>2. TypeOK'
  BY <1>1 DEF IInv, TypeOK, worker, mishaps
<1>3. LockFree'
  BY <1>1 DEF LockFree
<1>4. HandlerView(h)'
  BY <1>1, Actors DEF IInv, TypeOK, HandlerView
<1>5. \A g \in Handlers \ {h} : req'[g] = req[g]
  BY <1>1 DEF IInv, TypeOK
<1> QED BY <1>1, <1>2, <1>3, <1>4, <1>5, HandlerMoves DEF mishaps

LEMMA FailHandlerIInv == ASSUME IInv, NEW h \in Handlers, FailHandler(h) PROVE IInv'
<1>1. /\ hpc[h] \in {"update", "event", "enqueue"} /\ HandlerView(h)
      /\ hpc' = [hpc EXCEPT ![h] = "idle"] /\ req' = [req EXCEPT ![h] = None]
      /\ UNCHANGED <<pen, relayed, worker, bootLen, reboots>> /\ faults' = faults + 1
      /\ holder' = IF holder = h THEN None ELSE holder
      /\ view' = IF holder = h THEN pen ELSE view
  BY DEF IInv, Views, FailHandler, HandlerTo, Respond, Rollback
<1>2. TypeOK'
  BY <1>1 DEF IInv, TypeOK, worker
<1>3. LockFree' /\ (UNCHANGED tables \/ (holder \in {None, h} /\ holder' \in {None, h}))
  BY <1>1 DEF IInv, Views, LockFree, tables
<1>4. HandlerView(h)'
  BY <1>1, Actors DEF IInv, TypeOK, HandlerView
<1>5. \A g \in Handlers \ {h} : req'[g] = req[g]
  BY <1>1 DEF IInv, TypeOK
<1> QED BY <1>1, <1>2, <1>3, <1>4, <1>5, HandlerMoves

LEMMA AppendVerdictIInv == ASSUME IInv, NEW h \in Handlers, AppendVerdict(h) PROVE IInv'
<1> DEFINE r == req[h]
<1> DEFINE e == [verdict |-> r.verdict, reason |-> r.reason]
<1> DEFINE a == IF r.verdict = "FEAST" THEN "enqueue" ELSE "commit"
<1>1. /\ hpc[h] = "event" /\ r \in Request /\ holder = h /\ VerdictView(h)
      /\ view \in Tables /\ pen \in Tables
  BY DEF IInv, TypeOK, Views, HandlerView, AppendVerdict, HandlerAt
<1>2. /\ holder' = h /\ hpc' = [hpc EXCEPT ![h] = a]
      /\ UNCHANGED <<pen, req, relayed, worker, mishaps>>
      /\ view' = [view EXCEPT !.events[r.prey] = Append(@, e)]
  BY DEF AppendVerdict, Write, HandlerTo
<1>3. /\ view'.status = view.status /\ view'.jobs = view.jobs
      /\ view'.events = [view.events EXCEPT ![r.prey] = Append(@, e)]
      /\ view' \in Tables
  <2>1. r.prey \in Prey /\ e \in Verdict
    BY <1>1 DEF Request, Verdict
  <2>2. view.events[r.prey] \in Seq(Verdict)
    BY <1>1, <2>1, TablesTyped
  <2>3. Append(view.events[r.prey], e) \in Seq(Verdict)
    BY <2>1, <2>2
  <2> HIDE DEF e
  <2>4. [view.events EXCEPT ![r.prey] = Append(@, e)] \in [Prey -> Seq(Verdict)]
    BY <1>1, <2>1, <2>3, TablesTyped
  <2>5. view' = [view EXCEPT !.events = [view.events EXCEPT ![r.prey] = Append(@, e)]]
    BY <1>1, <1>2 DEF Tables
  <2> QED BY <1>1, <2>4, <2>5 DEF Tables
<1> HIDE DEF e, r
<1>4. TypeOK'
  BY <1>1, <1>2, <1>3 DEF IInv, TypeOK, worker, mishaps
<1>5. LockFree'
  BY <1>2, Actors DEF LockFree
<1>6. hpc'[h] = a /\ req'[h] = r
  BY <1>2 DEF IInv, TypeOK, r
<1>7. VerdictView(h)'
  <2>1. a # "event" /\ (a = "enqueue" <=> r.verdict = "FEAST")
    OBVIOUS
  <2> HIDE DEF a
  <2>2. view.jobs = pen.jobs /\ view.events = pen.events
        /\ pen.status[r.prey] = Source[r.verdict]
        /\ view.status = [pen.status EXCEPT ![r.prey] = Target[r.verdict]]
    BY <1>1 DEF VerdictView, r
  <2>3. ~(a = "commit" /\ r.verdict = "FEAST")
    BY DEF a
  <2>4. view'.events = [pen.events EXCEPT ![r.prey] = Append(@, [verdict |-> r.verdict, reason |-> r.reason])]
    BY <1>3, <2>2 DEF e
  <2> QED BY <1>2, <1>3, <1>6, <2>1, <2>2, <2>3, <2>4 DEF VerdictView
<1>8. HandlerView(h)'
  BY <1>1, <1>2, <1>6, <1>7 DEF HandlerView, r
<1> QED BY <1>1, <1>2, <1>4, <1>5, <1>8, HandlerMoves DEF mishaps

LEMMA EnqueueJobIInv == ASSUME IInv, NEW h \in Handlers, EnqueueJob(h) PROVE IInv'
<1> DEFINE r == req[h]
<1> DEFINE q == [prey |-> r.prey, status |-> "queued"]
<1>1. /\ hpc[h] = "enqueue" /\ r \in Request /\ holder = h /\ VerdictView(h)
      /\ view \in Tables /\ pen \in Tables
  BY DEF IInv, TypeOK, Views, HandlerView, EnqueueJob, HandlerAt
<1>2. /\ holder' = h /\ hpc' = [hpc EXCEPT ![h] = "commit"]
      /\ UNCHANGED <<pen, req, relayed, worker, mishaps>>
      /\ view' = [view EXCEPT !.jobs = Append(@, q)]
  BY DEF EnqueueJob, Write, HandlerTo
<1>3. /\ view'.status = view.status /\ view'.events = view.events
      /\ view'.jobs = Append(view.jobs, q)
      /\ view' \in Tables
  <2>1. q \in Job
    BY <1>1 DEF Request, Job, JobStatus
  <2>2. view.jobs \in Seq(Job)
    BY <1>1, TablesTyped
  <2> HIDE DEF q
  <2>3. Append(view.jobs, q) \in Seq(Job)
    BY <2>1, <2>2
  <2> QED BY <1>1, <1>2, <2>3 DEF Tables, Job
<1> HIDE DEF q, r
<1>4. TypeOK'
  BY <1>1, <1>2, <1>3 DEF IInv, TypeOK, worker, mishaps
<1>5. LockFree'
  BY <1>2, Actors DEF LockFree
<1>6. hpc'[h] = "commit" /\ req'[h] = r
  BY <1>2 DEF IInv, TypeOK, r
<1>7. VerdictView(h)'
  <2>1. /\ view.jobs = pen.jobs /\ r.verdict = "FEAST"
        /\ pen.status[r.prey] = Source[r.verdict]
        /\ view.status = [pen.status EXCEPT ![r.prey] = Target[r.verdict]]
        /\ view.events = [pen.events EXCEPT ![r.prey] =
                              Append(@, [verdict |-> r.verdict, reason |-> r.reason])]
    BY <1>1 DEF VerdictView, r
  <2> QED BY <1>2, <1>3, <1>6, <2>1 DEF VerdictView, q
<1>8. HandlerView(h)'
  BY <1>1, <1>2, <1>6, <1>7 DEF HandlerView, r
<1> QED BY <1>1, <1>2, <1>4, <1>5, <1>8, HandlerMoves DEF mishaps

(* Jobs and FEASTs of a prey are counted, and an append adds at most one.  *)
LEMMA Counted ==
    ASSUME NEW tab \in Tables, NEW p \in Prey
    PROVE  /\ IsFiniteSet(JobsOf(tab, p)) /\ Cardinality(JobsOf(tab, p)) \in Nat
           /\ IsFiniteSet(FeastsOf(tab, p)) /\ Cardinality(FeastsOf(tab, p)) \in Nat
<1>1. /\ JobsOf(tab, p) \in SUBSET (1 .. Len(tab.jobs)) /\ Len(tab.jobs) \in Nat
      /\ FeastsOf(tab, p) \in SUBSET (1 .. Len(tab.events[p])) /\ Len(tab.events[p]) \in Nat
  BY TablesTyped DEF JobsOf, FeastsOf
<1>2. \A n \in Nat : IsFiniteSet(1 .. n)
  BY FS_Interval
<1> QED BY <1>1, <1>2, FS_Subset, FS_CardinalityType

LEMMA JobAppended ==
    ASSUME NEW tab \in Tables, NEW new, NEW q \in Job, NEW p \in Prey,
           new.jobs = Append(tab.jobs, q)
    PROVE  Cardinality(JobsOf(new, p)) =
               Cardinality(JobsOf(tab, p)) + (IF q.prey = p THEN 1 ELSE 0)
<1> DEFINE n == Len(tab.jobs) + 1
<1>1. /\ tab.jobs \in Seq(Job) /\ n \in Nat /\ DOMAIN new.jobs = DOMAIN tab.jobs \cup {n}
      /\ n \notin DOMAIN tab.jobs /\ new.jobs[n] = q
      /\ \A j \in DOMAIN tab.jobs : new.jobs[j] = tab.jobs[j]
  BY TablesTyped
<1>2. n \notin JobsOf(tab, p)
  BY <1>1 DEF JobsOf
<1> HIDE DEF n
<1>3. CASE q.prey = p
  <2>1. JobsOf(new, p) = JobsOf(tab, p) \cup {n}
    BY <1>1, <1>3 DEF JobsOf
  <2> QED BY <1>2, <1>3, <2>1, Counted, FS_AddElement
<1>4. CASE q.prey # p
  <2>1. JobsOf(new, p) = JobsOf(tab, p)
    BY <1>1, <1>4 DEF JobsOf
  <2> QED BY <1>4, <2>1, Counted
<1> QED BY <1>3, <1>4

LEMMA VerdictAppended ==
    ASSUME NEW tab \in Tables, NEW new, NEW e \in Verdict, NEW p \in Prey,
           new.events[p] = Append(tab.events[p], e)
    PROVE  Cardinality(FeastsOf(new, p)) =
               Cardinality(FeastsOf(tab, p)) + (IF e.verdict = "FEAST" THEN 1 ELSE 0)
<1> DEFINE n == Len(tab.events[p]) + 1
<1>1. /\ tab.events[p] \in Seq(Verdict) /\ n \in Nat
      /\ DOMAIN new.events[p] = DOMAIN tab.events[p] \cup {n}
      /\ n \notin DOMAIN tab.events[p] /\ new.events[p][n] = e
      /\ \A j \in DOMAIN tab.events[p] : new.events[p][j] = tab.events[p][j]
  BY TablesTyped
<1>2. n \notin FeastsOf(tab, p)
  BY <1>1 DEF FeastsOf
<1> HIDE DEF n
<1>3. CASE e.verdict = "FEAST"
  <2>1. FeastsOf(new, p) = FeastsOf(tab, p) \cup {n}
    BY <1>1, <1>3 DEF FeastsOf
  <2> QED BY <1>2, <1>3, <2>1, Counted, FS_AddElement
<1>4. CASE e.verdict # "FEAST"
  <2>1. FeastsOf(new, p) = FeastsOf(tab, p)
    BY <1>1, <1>4 DEF FeastsOf
  <2> QED BY <1>4, <2>1, Counted
<1> QED BY <1>3, <1>4

(* The commit of a verdict gives a prey its one job if and only if it      *)
(* gives it its one FEAST, and only to a prey that had neither.            *)
LEMMA FeastCommitted ==
    ASSUME IInv, NEW h \in Handlers, hpc[h] = "commit", pen' = view
    PROVE  OneJobPerFeast'
<1> DEFINE r == req[h]
<1> DEFINE e == [verdict |-> r.verdict, reason |-> r.reason]
<1> DEFINE q == [prey |-> r.prey, status |-> "queued"]
<1>1. /\ r \in Request /\ pen \in Tables /\ pen' \in Tables /\ VerdictView(h)
  BY DEF IInv, TypeOK, Views, HandlerView
<1>2. /\ r.prey \in Prey /\ r.verdict \in Verdicts /\ e \in Verdict /\ e.verdict = r.verdict
      /\ q \in Job /\ q.prey = r.prey
  BY <1>1 DEF Request, Verdict, Job, JobStatus
<1>3. /\ pen.status[r.prey] = Source[r.verdict]
      /\ pen'.status = [pen.status EXCEPT ![r.prey] = Target[r.verdict]]
      /\ pen'.events = [pen.events EXCEPT ![r.prey] = Append(@, e)]
      /\ pen'.jobs = IF r.verdict = "FEAST" THEN Append(pen.jobs, q) ELSE pen.jobs
  BY <1>1 DEF VerdictView
<1> HIDE DEF e, q, r
<1>4. ASSUME NEW p \in Prey
      PROVE  LET n == IF pen'.status[p] = "feasted" THEN 1 ELSE 0
             IN  Cardinality(JobsOf(pen', p)) = n /\ Cardinality(FeastsOf(pen', p)) = n
  <2>1. /\ Cardinality(JobsOf(pen, p)) = IF pen.status[p] = "feasted" THEN 1 ELSE 0
        /\ Cardinality(FeastsOf(pen, p)) = IF pen.status[p] = "feasted" THEN 1 ELSE 0
    BY DEF IInv, OneJobPerFeast
  <2>2. CASE p # r.prey
    <3>1. pen'.status[p] = pen.status[p] /\ FeastsOf(pen', p) = FeastsOf(pen, p)
      BY <1>1, <1>2, <1>3, <2>2, TablesTyped DEF FeastsOf
    <3>2. CASE r.verdict = "FEAST"
      <4>1. pen'.jobs = Append(pen.jobs, q)
        BY <1>3, <3>2
      <4>2. Cardinality(JobsOf(pen', p)) = Cardinality(JobsOf(pen, p)) + 0
        BY <1>1, <1>2, <2>2, <4>1, JobAppended
      <4> QED BY <1>1, <2>1, <3>1, <4>2, Counted
    <3>3. CASE r.verdict # "FEAST"
      <4>1. JobsOf(pen', p) = JobsOf(pen, p)
        BY <1>3, <3>3 DEF JobsOf
      <4> QED BY <2>1, <3>1, <4>1
    <3> QED BY <3>2, <3>3
  <2>3. CASE p = r.prey
    <3>1. /\ pen.status[p] # "feasted" /\ pen'.status[p] = Target[r.verdict]
          /\ pen'.events[p] = Append(pen.events[p], e)
      BY <1>1, <1>2, <1>3, <2>3, TablesTyped DEF Source, Verdicts
    <3>2. Cardinality(JobsOf(pen, p)) = 0 /\ Cardinality(FeastsOf(pen, p)) = 0
      BY <2>1, <3>1
    <3>3. Cardinality(FeastsOf(pen', p)) = 0 + IF r.verdict = "FEAST" THEN 1 ELSE 0
      BY <1>1, <1>2, <3>1, <3>2, VerdictAppended
    <3>4. CASE r.verdict = "FEAST"
      <4>1. pen'.jobs = Append(pen.jobs, q) /\ pen'.status[p] = "feasted"
        BY <1>3, <3>1, <3>4 DEF Target, Verdicts
      <4>2. Cardinality(JobsOf(pen', p)) = 0 + 1
        BY <1>1, <1>2, <2>3, <3>2, <4>1, JobAppended
      <4> QED BY <3>3, <3>4, <4>1, <4>2
    <3>5. CASE r.verdict # "FEAST"
      <4>1. pen'.jobs = pen.jobs /\ pen'.status[p] # "feasted"
        BY <1>2, <1>3, <3>1, <3>5 DEF Target, Verdicts
      <4>2. JobsOf(pen', p) = JobsOf(pen, p)
        BY <4>1 DEF JobsOf
      <4> QED BY <3>2, <3>3, <3>5, <4>1, <4>2
    <3> QED BY <3>4, <3>5
  <2> QED BY <2>2, <2>3
<1> QED BY <1>4 DEF OneJobPerFeast

LEMMA CommitVerdictIInv == ASSUME IInv, NEW h \in Handlers, CommitVerdict(h) PROVE IInv'
<1> DEFINE r == req[h]
<1> DEFINE e == [verdict |-> r.verdict, reason |-> r.reason]
<1> DEFINE q == [prey |-> r.prey, status |-> "queued"]
<1>1. /\ hpc[h] = "commit" /\ holder = h /\ holder' = None /\ pen' = view /\ view' = view
      /\ hpc' = [hpc EXCEPT ![h] = "notify"] /\ UNCHANGED <<req, relayed, worker, mishaps>>
  BY DEF CommitVerdict, HandlerAt, HandlerTo, Commit
<1>2. /\ r \in Request /\ pen \in Tables /\ pen' \in Tables /\ VerdictView(h)
  BY <1>1 DEF IInv, TypeOK, Views, HandlerView
<1>3. /\ r.prey \in Prey /\ e \in Verdict /\ q \in Job
  BY <1>2 DEF Request, Verdict, Job, JobStatus
<1>4. /\ pen'.events = [pen.events EXCEPT ![r.prey] = Append(@, e)]
      /\ pen'.jobs = IF r.verdict = "FEAST" THEN Append(pen.jobs, q) ELSE pen.jobs
  BY <1>1, <1>2 DEF VerdictView
<1>5. TypeOK'
  BY <1>1, <1>2 DEF IInv, TypeOK, worker, mishaps
<1>6. OneJobPerFeast'
  BY <1>1, FeastCommitted
<1>7. /\ DOMAIN pen.jobs \subseteq DOMAIN pen'.jobs
      /\ \A j \in DOMAIN pen.jobs : pen'.jobs[j] = pen.jobs[j]
      /\ \A j \in DOMAIN pen'.jobs : j \in DOMAIN pen.jobs \/ pen'.jobs[j].status = "queued"
  <2>1. pen.jobs \in Seq(Job) /\ q.status = "queued"
    BY <1>2, TablesTyped
  <2> HIDE DEF q
  <2> QED BY <1>3, <1>4, <2>1
<1> HIDE DEF q
<1>8. Views'
  <2>1. LockFree'
    BY <1>1 DEF LockFree
  <2>2. ASSUME NEW g \in Handlers PROVE HandlerView(g)'
    <3>1. CASE g = h
      BY <1>1, <1>2, <3>1, Actors DEF IInv, TypeOK, HandlerView
    <3>2. CASE g # h
      <4>1. HandlerView(g) /\ hpc'[g] = hpc[g] /\ req'[g] = req[g]
        BY <1>1, <3>2 DEF IInv, Views, TypeOK
      <4> QED BY <1>1, <3>2, <4>1, Actors, HandlerAside
    <3> QED BY <3>1, <3>2
  <2>3. ASSUME NEW w \in Workers PROVE WorkerView(w)'
    <3>1. WorkerView(w) /\ wpc'[w] = wpc[w] /\ job'[w] = job[w] /\ won'[w] = won[w]
      BY <1>1 DEF IInv, Views, worker
    <3>2. wpc[w] \in {"draft", "complete"} => pen'.jobs[job[w]].status = pen.jobs[job[w]].status
      BY <1>7, <3>1 DEF WorkerView
    <3> QED BY <1>1, <1>7, <3>1, <3>2, Actors, WorkerAside
  <2> QED BY <2>1, <2>2, <2>3 DEF Views
<1>9. ClaimIsExclusive'
  <2>1. \A j \in DOMAIN pen'.jobs : pen'.jobs[j].status = "running" =>
            j \in DOMAIN pen.jobs /\ pen.jobs[j].status = "running"
    BY <1>7
  <2> QED BY <1>1, <2>1 DEF IInv, ClaimIsExclusive, worker
<1>10. RelayedOnce'
  <2> DEFINE N(p) == {g \in Handlers : hpc[g] = "notify" /\ req[g].prey = p}
  <2>1. ASSUME NEW p \in Prey
        PROVE  Len(pen'.events[p]) = bootLen'[p] + relayed'[p] + Cardinality(N(p)')
    <3>1. Len(pen.events[p]) = bootLen[p] + relayed[p] + Cardinality(N(p))
      BY DEF IInv, RelayedOnce
    <3>2. IsFiniteSet(N(p)) /\ Cardinality(N(p)) \in Nat
      <4>1. N(p) \in SUBSET Handlers
        OBVIOUS
      <4> QED BY <4>1, PenAssumption, FS_Subset, FS_CardinalityType
    <3>3. bootLen[p] \in Nat /\ relayed[p] \in Nat /\ bootLen' = bootLen /\ relayed' = relayed
      BY <1>1 DEF IInv, TypeOK, mishaps
    <3>4. CASE p = r.prey
      <4>1. N(p)' = N(p) \cup {h} /\ h \notin N(p)
        BY <1>1, <3>4 DEF IInv, TypeOK
      <4>2. Cardinality(N(p)') = Cardinality(N(p)) + 1
        BY <3>2, <4>1, FS_AddElement
      <4>3. pen'.events[p] = Append(pen.events[p], e) /\ pen.events[p] \in Seq(Verdict)
        BY <1>2, <1>3, <1>4, <3>4, TablesTyped
      <4>4. Len(pen'.events[p]) = Len(pen.events[p]) + 1 /\ Len(pen.events[p]) \in Nat
        BY <4>3
      <4> HIDE DEF N
      <4> QED BY <3>1, <3>2, <3>3, <4>2, <4>4
    <3>5. CASE p # r.prey
      <4>1. N(p)' = N(p)
        BY <1>1, <3>5 DEF IInv, TypeOK
      <4>2. pen'.events[p] = pen.events[p]
        BY <1>2, <1>3, <1>4, <3>5, TablesTyped
      <4> HIDE DEF N
      <4> QED BY <3>1, <3>3, <4>1, <4>2
    <3> QED BY <3>4, <3>5
  <2> QED BY <2>1 DEF RelayedOnce
<1> QED BY <1>5, <1>6, <1>8, <1>9, <1>10 DEF IInv

LEMMA NotifyVerdictIInv == ASSUME IInv, NEW h \in Handlers, NotifyVerdict(h) PROVE IInv'
<1> DEFINE r == req[h]
<1>1. /\ hpc[h] = "notify" /\ hpc' = [hpc EXCEPT ![h] = "idle"]
      /\ req' = [req EXCEPT ![h] = None]
      /\ relayed' = [relayed EXCEPT ![r.prey] = @ + 1]
      /\ UNCHANGED <<tables, worker, mishaps>>
  BY DEF NotifyVerdict, HandlerAt, HandlerTo, Respond
<1>2. r \in Request /\ r.prey \in Prey
  BY <1>1 DEF IInv, Views, HandlerView, Request
<1>3. TypeOK'
  BY <1>1, <1>2 DEF IInv, TypeOK, tables, worker, mishaps
<1>4. Views'
  <2>1. LockFree'
    BY <1>1 DEF IInv, Views, LockFree, tables
  <2>2. ASSUME NEW g \in Handlers PROVE HandlerView(g)'
    <3>1. CASE g = h
      BY <1>1, <3>1 DEF IInv, TypeOK, Views, HandlerView, tables
    <3>2. CASE g # h
      <4>1. HandlerView(g) /\ hpc'[g] = hpc[g] /\ req'[g] = req[g]
        BY <1>1, <3>2 DEF IInv, Views, TypeOK
      <4> QED BY <1>1, <4>1, HandlerAside
    <3> QED BY <3>1, <3>2
  <2>3. ASSUME NEW w \in Workers PROVE WorkerView(w)'
    BY <1>1, WorkerAside DEF IInv, Views, worker, tables
  <2> QED BY <2>1, <2>2, <2>3 DEF Views
<1>5. OneJobPerFeast' /\ ClaimIsExclusive'
  BY <1>1, FeastsKept, ClaimsKept DEF IInv, tables
<1>6. RelayedOnce'
  <2> DEFINE N(p) == {g \in Handlers : hpc[g] = "notify" /\ req[g].prey = p}
  <2>1. ASSUME NEW p \in Prey
        PROVE  Len(pen'.events[p]) = bootLen'[p] + relayed'[p] + Cardinality(N(p)')
    <3>1. Len(pen.events[p]) = bootLen[p] + relayed[p] + Cardinality(N(p))
      BY DEF IInv, RelayedOnce
    <3>2. IsFiniteSet(N(p)) /\ Cardinality(N(p)) \in Nat
      <4>1. N(p) \in SUBSET Handlers
        OBVIOUS
      <4> QED BY <4>1, PenAssumption, FS_Subset, FS_CardinalityType
    <3>3. bootLen[p] \in Nat /\ relayed[p] \in Nat /\ bootLen' = bootLen /\ pen' = pen
      BY <1>1 DEF IInv, TypeOK, tables, mishaps
    <3>4. CASE p = r.prey
      <4>1. N(p)' = N(p) \ {h} /\ h \in N(p)
        BY <1>1, <3>4 DEF IInv, TypeOK
      <4>2. Cardinality(N(p)') = Cardinality(N(p)) - 1
        BY <3>2, <4>1, FS_RemoveElement
      <4>3. relayed'[p] = relayed[p] + 1
        BY <1>1, <3>4 DEF IInv, TypeOK
      <4> HIDE DEF N
      <4> QED BY <3>1, <3>2, <3>3, <4>2, <4>3
    <3>5. CASE p # r.prey
      <4>1. N(p)' = N(p) /\ relayed'[p] = relayed[p]
        BY <1>1, <3>5 DEF IInv, TypeOK
      <4> HIDE DEF N
      <4> QED BY <3>1, <3>3, <4>1
    <3> QED BY <3>4, <3>5
  <2> QED BY <2>1 DEF RelayedOnce
<1> QED BY <1>3, <1>4, <1>5, <1>6 DEF IInv

-----------------------------------------------------------------------------
(* The worker.                                                             *)

(* A worker's step that does not commit.                                   *)
LEMMA WorkerMoves ==
    ASSUME IInv, NEW w \in Workers, UNCHANGED <<pen, handler, bootLen>>,
           \A x \in Workers \ {w} : wpc'[x] = wpc[x] /\ job'[x] = job[x] /\ won'[x] = won[x],
           UNCHANGED tables \/ (holder \in {None, w} /\ holder' \in {None, w}),
           TypeOK', LockFree', WorkerView(w)', ClaimIsExclusive'
    PROVE  IInv'
<1>1. \A x \in Workers : WorkerView(x)'
  <2>1. ASSUME NEW x \in Workers, x # w PROVE WorkerView(x)'
    <3>1. UNCHANGED tables \/ (holder # x /\ holder' # x)
      BY <2>1, PenAssumption
    <3> QED BY <2>1, <3>1, WorkerAside DEF IInv, Views
  <2> QED BY <2>1
<1>2. \A h \in Handlers : HandlerView(h)'
  <2>1. ASSUME NEW h \in Handlers PROVE HandlerView(h)'
    <3>1. UNCHANGED tables \/ (holder # h /\ holder' # h)
      BY Actors
    <3> QED BY <3>1, HandlerAside DEF IInv, Views, handler
  <2> QED BY <2>1
<1>3. OneJobPerFeast' /\ RelayedOnce'
  BY FeastsKept, RelaysAside DEF IInv, handler
<1> QED BY <1>1, <1>2, <1>3 DEF IInv, Views

LEMMA SelectJobIInv == ASSUME IInv, NEW w \in Workers, SelectJob(w) PROVE IInv'
<1>1. PICK j \in DOMAIN pen.jobs :
        /\ wpc[w] = "poll" /\ wpc' = [wpc EXCEPT ![w] = "claim"]
        /\ pen.jobs[j].status = "queued" /\ job' = [job EXCEPT ![w] = j]
        /\ UNCHANGED <<tables, handler, won, mishaps>>
  BY DEF SelectJob, WorkerTo
<1>2. j \in Nat
  BY TablesTyped DEF IInv, TypeOK
<1>3. TypeOK'
  BY <1>1, <1>2 DEF IInv, TypeOK, tables, handler, mishaps
<1>4. LockFree'
  BY <1>1 DEF IInv, Views, LockFree, tables
<1>5. WorkerView(w)'
  BY <1>1 DEF IInv, TypeOK, Views, WorkerView, tables
<1>6. ClaimIsExclusive'
  BY <1>1 DEF IInv, TypeOK, ClaimIsExclusive, tables
<1> QED BY <1>1, <1>3, <1>4, <1>5, <1>6, WorkerMoves DEF IInv, TypeOK, tables, mishaps

LEMMA DraftedIInv == ASSUME IInv, NEW w \in Workers, Drafted(w) PROVE IInv'
<1>1. /\ wpc[w] = "draft" /\ wpc' = [wpc EXCEPT ![w] = "complete"]
      /\ UNCHANGED <<tables, handler, job, won, mishaps>>
  BY DEF Drafted, WorkerTo
<1>2. TypeOK'
  BY <1>1 DEF IInv, TypeOK, tables, handler, mishaps
<1>3. LockFree'
  BY <1>1 DEF IInv, Views, LockFree, tables
<1>4. WorkerView(w)'
  BY <1>1 DEF IInv, TypeOK, Views, WorkerView, tables
<1>5. ClaimIsExclusive'
  BY <1>1 DEF IInv, TypeOK, ClaimIsExclusive, tables
<1> QED BY <1>1, <1>2, <1>3, <1>4, <1>5, WorkerMoves DEF IInv, TypeOK, tables, mishaps

LEMMA WorkerDiesIInv == ASSUME IInv, NEW w \in Workers, WorkerDies(w) PROVE IInv'
<1>1. /\ wpc[w] \in {"claim", "draft", "complete"} /\ wpc' = [wpc EXCEPT ![w] = "dead"]
      /\ UNCHANGED <<pen, handler, job, won, bootLen, reboots>> /\ faults' = faults + 1
      /\ holder # w /\ UNCHANGED <<view, holder>>
  BY DEF IInv, Views, WorkerView, WorkerDies, WorkerTo, Rollback
<1>2. TypeOK'
  BY <1>1 DEF IInv, TypeOK, handler
<1>3. LockFree' /\ UNCHANGED tables
  BY <1>1 DEF IInv, Views, LockFree, tables
<1>4. WorkerView(w)'
  BY <1>1 DEF IInv, TypeOK, Views, WorkerView
<1>5. ClaimIsExclusive'
  BY <1>1 DEF IInv, TypeOK, ClaimIsExclusive
<1> QED BY <1>1, <1>2, <1>3, <1>4, <1>5, WorkerMoves DEF IInv, TypeOK

(* Moving the status of a job keeps everything else of the table.          *)
LEMMA JobFlipped ==
    ASSUME NEW tab \in Tables, NEW j \in DOMAIN tab.jobs, NEW s \in JobStatus
    PROVE  LET new == [tab EXCEPT !.jobs[j].status = s]
           IN  /\ new \in Tables
               /\ new.status = tab.status /\ new.events = tab.events
               /\ new.jobs = [tab.jobs EXCEPT ![j].status = s]
<1> DEFINE jobs == [tab.jobs EXCEPT ![j].status = s]
<1>1. tab.jobs \in Seq(Job) /\ tab.jobs[j] \in Job
  BY TablesTyped
<1>2. [tab.jobs[j] EXCEPT !.status = s] \in Job
  BY <1>1 DEF Job
<1>3. jobs \in Seq(Job)
  <2>1. tab.jobs \in [1 .. Len(tab.jobs) -> Job] /\ Len(tab.jobs) \in Nat
    BY <1>1
  <2>2. jobs \in [1 .. Len(tab.jobs) -> Job]
    BY <1>2, <2>1
  <2> QED BY <2>1, <2>2
<1>4. [tab EXCEPT !.jobs[j].status = s] = [tab EXCEPT !.jobs = jobs]
  BY DEF Tables
<1> HIDE DEF jobs
<1>5. [tab EXCEPT !.jobs = jobs] \in Tables
  BY <1>3 DEF Tables, Job
<1>6. LET new == [tab EXCEPT !.jobs = jobs]
      IN  new.status = tab.status /\ new.events = tab.events /\ new.jobs = jobs
  BY DEF Tables
<1> QED BY <1>4, <1>5, <1>6 DEF jobs

LEMMA ClaimJobIInv == ASSUME IInv, NEW w \in Workers, ClaimJob(w) PROVE IInv'
<1> DEFINE j == job[w]
<1>1. /\ wpc[w] = "claim" /\ wpc' = [wpc EXCEPT ![w] = "commit_claim"]
      /\ holder = None /\ holder' = w /\ UNCHANGED <<pen, handler, job, mishaps>>
      /\ won' = [won EXCEPT ![w] = view.jobs[j].status = "queued"]
      /\ view' = IF view.jobs[j].status = "queued"
                 THEN [view EXCEPT !.jobs[j].status = "running"] ELSE view
  BY DEF IInv, Views, WorkerView, ClaimJob, Write, WorkerTo
<1>2. view = pen /\ pen \in Tables /\ j \in DOMAIN pen.jobs
  BY <1>1 DEF IInv, TypeOK, Views, LockFree, WorkerView
<1>3. /\ view' \in Tables
      /\ IF pen.jobs[j].status = "queued"
         THEN /\ view'.status = pen.status /\ view'.events = pen.events
              /\ view'.jobs = [pen.jobs EXCEPT ![j].status = "running"]
         ELSE view' = pen
  <2>1. "running" \in JobStatus
    BY DEF JobStatus
  <2> QED BY <1>1, <1>2, <2>1, JobFlipped
<1>4. TypeOK'
  BY <1>1, <1>3 DEF IInv, TypeOK, handler, mishaps
<1>5. LockFree'
  BY <1>1, Actors, PenAssumption DEF LockFree
<1>6. WorkerView(w)'
  <2>1. /\ wpc'[w] = "commit_claim" /\ job'[w] = j
        /\ won'[w] = (pen.jobs[j].status = "queued")
    BY <1>1, <1>2 DEF IInv, TypeOK
  <2>2. CASE pen.jobs[j].status = "queued"
    BY <1>1, <1>2, <1>3, <2>1, <2>2 DEF WorkerView, JobMoved
  <2>3. CASE pen.jobs[j].status # "queued"
    BY <1>1, <1>2, <1>3, <2>1, <2>3 DEF WorkerView
  <2> QED BY <2>2, <2>3
<1>7. ClaimIsExclusive'
  <2>1. \A x \in Workers :
            /\ job'[x] = job[x]
            /\ \/ wpc'[x] = wpc[x] /\ won'[x] = won[x]
               \/ wpc[x] = "claim" /\ wpc'[x] = "commit_claim"
    BY <1>1 DEF IInv, TypeOK
  <2> QED BY <1>1, <2>1 DEF IInv, ClaimIsExclusive
<1> QED BY <1>1, <1>4, <1>5, <1>6, <1>7, WorkerMoves DEF IInv, TypeOK, mishaps

(* A worker's commit: the committed tables become its view, in which at    *)
(* most the status of its own job has moved.                               *)
LEMMA WorkerCommits ==
    ASSUME IInv, NEW w \in Workers, holder = w, holder' = None, pen' = view, view' = view,
           UNCHANGED <<handler, mishaps>>, view.status = pen.status, view.events = pen.events,
           DOMAIN view.jobs = DOMAIN pen.jobs,
           \A j \in DOMAIN pen.jobs : view.jobs[j].prey = pen.jobs[j].prey,
           \A x \in Workers \ {w} : /\ wpc'[x] = wpc[x] /\ job'[x] = job[x] /\ won'[x] = won[x]
                                    /\ wpc[x] \in {"draft", "complete"} =>
                                          view.jobs[job[x]].status = pen.jobs[job[x]].status,
           TypeOK', WorkerView(w)', ClaimIsExclusive'
    PROVE  IInv'
<1>1. LockFree'
  BY DEF LockFree
<1>2. \A x \in Workers : WorkerView(x)'
  <2>1. ASSUME NEW x \in Workers, x # w PROVE WorkerView(x)'
    <3>1. WorkerView(x) /\ holder # x /\ holder' # x /\ DOMAIN pen.jobs \subseteq DOMAIN pen'.jobs
      BY <2>1, PenAssumption DEF IInv, Views
    <3> QED BY <2>1, <3>1, WorkerAside
  <2> QED BY <2>1
<1>3. \A h \in Handlers : HandlerView(h)'
  <2>1. ASSUME NEW h \in Handlers PROVE HandlerView(h)'
    <3>1. holder # h /\ holder' # h
      BY Actors
    <3> QED BY <3>1, HandlerAside DEF IInv, Views, handler
  <2> QED BY <2>1
<1>4. OneJobPerFeast'
  <2>1. \A p \in Prey : JobsOf(pen', p) = JobsOf(pen, p) /\ FeastsOf(pen', p) = FeastsOf(pen, p)
    BY DEF JobsOf, FeastsOf
  <2> QED BY <2>1 DEF IInv, OneJobPerFeast
<1>5. RelayedOnce'
  BY RelaysAside DEF IInv, handler, mishaps
<1> QED BY <1>1, <1>2, <1>3, <1>4, <1>5 DEF IInv, Views

LEMMA CommitClaimIInv == ASSUME IInv, NEW w \in Workers, CommitClaim(w) PROVE IInv'
<1> DEFINE j == job[w]
<1>1. /\ wpc[w] = "commit_claim" /\ holder = w /\ WorkerView(w) /\ j \in DOMAIN pen.jobs
      /\ pen \in Tables /\ view \in Tables
  BY DEF IInv, TypeOK, Views, WorkerView, CommitClaim
<1>2. /\ holder' = None /\ pen' = view /\ view' = view /\ UNCHANGED <<handler, mishaps>>
      /\ pen.jobs \in Seq(Job)
  BY <1>1, TablesTyped DEF CommitClaim, Commit
<1>3. CASE won[w]
  <2>1. /\ wpc' = [wpc EXCEPT ![w] = "draft"] /\ UNCHANGED <<job, won>>
        /\ view.status = pen.status /\ view.events = pen.events
        /\ view.jobs = [pen.jobs EXCEPT ![j].status = "running"]
        /\ pen.jobs[j].status = "queued"
    BY <1>1, <1>3 DEF CommitClaim, WorkerTo, WorkerView, JobMoved
  <2>2. /\ DOMAIN view.jobs = DOMAIN pen.jobs /\ view.jobs[j].status = "running"
        /\ \A i \in DOMAIN pen.jobs : /\ view.jobs[i].prey = pen.jobs[i].prey
                                      /\ i # j => view.jobs[i] = pen.jobs[i]
    <3>1. /\ DOMAIN view.jobs = DOMAIN pen.jobs
          /\ view.jobs[j] = [pen.jobs[j] EXCEPT !.status = "running"]
          /\ \A i \in DOMAIN pen.jobs : i # j => view.jobs[i] = pen.jobs[i]
      BY <1>1, <1>2, <2>1
    <3>2. pen.jobs[j] \in Job
      BY <1>1, <1>2
    <3>3. view.jobs[j].status = "running" /\ view.jobs[j].prey = pen.jobs[j].prey
      BY <3>1, <3>2 DEF Job
    <3> QED BY <3>1, <3>3
  <2>3. \A x \in Workers \ {w} : wpc[x] \in {"draft", "complete", "commit_done"} =>
            job[x] \in DOMAIN pen.jobs /\ job[x] # j
    BY <2>1 DEF IInv, Views, WorkerView
  <2>4. TypeOK'
    BY <1>2, <2>1 DEF IInv, TypeOK, handler, mishaps
  <2>5. WorkerView(w)'
    BY <1>1, <1>2, <2>1, <2>2, PenAssumption DEF IInv, TypeOK, WorkerView
  <2>6. ClaimIsExclusive'
    <3>1. \A x \in Workers \ {w} : wpc'[x] = wpc[x] /\ job'[x] = job[x] /\ won'[x] = won[x]
      BY <2>1
    <3>2. wpc'[w] = "draft" /\ job'[w] = j
      BY <2>1 DEF IInv, TypeOK
    <3> QED BY <1>1, <1>2, <1>3, <2>2, <2>3, <3>1, <3>2 DEF IInv, ClaimIsExclusive
  <2>7. \A x \in Workers \ {w} : /\ wpc'[x] = wpc[x] /\ job'[x] = job[x] /\ won'[x] = won[x]
                                 /\ wpc[x] \in {"draft", "complete"} =>
                                       view.jobs[job[x]].status = pen.jobs[job[x]].status
    BY <2>1, <2>2, <2>3
  <2> QED BY <1>1, <1>2, <2>1, <2>2, <2>4, <2>5, <2>6, <2>7, WorkerCommits
<1>4. CASE ~won[w]
  <2>1. /\ wpc' = [wpc EXCEPT ![w] = "poll"] /\ job' = [job EXCEPT ![w] = 0]
        /\ won' = [won EXCEPT ![w] = FALSE] /\ view = pen
    BY <1>1, <1>4 DEF CommitClaim, PollAgain, WorkerTo, WorkerView
  <2>2. TypeOK'
    BY <1>2, <2>1 DEF IInv, TypeOK, handler, mishaps
  <2>3. WorkerView(w)'
    BY <1>1, <1>2, <2>1, PenAssumption DEF IInv, TypeOK, WorkerView
  <2>4. ClaimIsExclusive'
    BY <1>1, <1>2, <1>4, <2>1 DEF IInv, TypeOK, ClaimIsExclusive
  <2>5. \A x \in Workers \ {w} : /\ wpc'[x] = wpc[x] /\ job'[x] = job[x] /\ won'[x] = won[x]
                                 /\ wpc[x] \in {"draft", "complete"} =>
                                       view.jobs[job[x]].status = pen.jobs[job[x]].status
    BY <2>1 DEF IInv, TypeOK
  <2>6. /\ view.status = pen.status /\ view.events = pen.events
        /\ DOMAIN view.jobs = DOMAIN pen.jobs
        /\ \A i \in DOMAIN pen.jobs : view.jobs[i].prey = pen.jobs[i].prey
    BY <2>1
  <2> QED BY <1>1, <1>2, <2>2, <2>3, <2>4, <2>5, <2>6, WorkerCommits
<1> QED BY <1>3, <1>4

LEMMA CompleteJobIInv == ASSUME IInv, NEW w \in Workers, CompleteJob(w) PROVE IInv'
<1> DEFINE j == job[w]
<1>1. /\ wpc[w] = "complete" /\ wpc' = [wpc EXCEPT ![w] = "commit_done"]
      /\ holder = None /\ holder' = w /\ UNCHANGED <<pen, handler, job, won, mishaps>>
      /\ view' = [view EXCEPT !.jobs[j].status = "done"]
  BY DEF IInv, Views, WorkerView, CompleteJob, Write, WorkerTo
<1>2. /\ view = pen /\ pen \in Tables /\ j \in DOMAIN pen.jobs
      /\ pen.jobs[j].status = "running"
  BY <1>1 DEF IInv, TypeOK, Views, LockFree, WorkerView
<1>3. /\ view' \in Tables /\ view'.status = pen.status /\ view'.events = pen.events
      /\ view'.jobs = [pen.jobs EXCEPT ![j].status = "done"]
  <2>1. "done" \in JobStatus
    BY DEF JobStatus
  <2> QED BY <1>1, <1>2, <2>1, JobFlipped
<1>4. TypeOK'
  BY <1>1, <1>3 DEF IInv, TypeOK, handler, mishaps
<1>5. LockFree'
  BY <1>1, PenAssumption DEF LockFree
<1>6. WorkerView(w)'
  BY <1>1, <1>2, <1>3 DEF IInv, TypeOK, WorkerView, JobMoved
<1>7. ClaimIsExclusive'
  BY <1>1 DEF IInv, TypeOK, ClaimIsExclusive
<1> QED BY <1>1, <1>4, <1>5, <1>6, <1>7, WorkerMoves DEF IInv, TypeOK, mishaps

LEMMA CommitDoneIInv == ASSUME IInv, NEW w \in Workers, CommitDone(w) PROVE IInv'
<1> DEFINE j == job[w]
<1>1. /\ wpc[w] = "commit_done" /\ holder = w /\ j \in DOMAIN pen.jobs
      /\ pen \in Tables /\ view \in Tables
      /\ view.status = pen.status /\ view.events = pen.events
      /\ view.jobs = [pen.jobs EXCEPT ![j].status = "done"]
  BY DEF IInv, TypeOK, Views, WorkerView, JobMoved, CommitDone
<1>2. /\ holder' = None /\ pen' = view /\ view' = view /\ UNCHANGED <<handler, mishaps>>
      /\ wpc' = [wpc EXCEPT ![w] = "poll"] /\ job' = [job EXCEPT ![w] = 0]
      /\ won' = [won EXCEPT ![w] = FALSE] /\ pen.jobs \in Seq(Job)
  BY <1>1, TablesTyped DEF CommitDone, Commit, PollAgain, WorkerTo
<1>3. /\ DOMAIN view.jobs = DOMAIN pen.jobs /\ view.jobs[j].status = "done"
      /\ \A i \in DOMAIN pen.jobs : /\ view.jobs[i].prey = pen.jobs[i].prey
                                    /\ i # j => view.jobs[i] = pen.jobs[i]
  <2>1. /\ DOMAIN view.jobs = DOMAIN pen.jobs
        /\ view.jobs[j] = [pen.jobs[j] EXCEPT !.status = "done"]
        /\ \A i \in DOMAIN pen.jobs : i # j => view.jobs[i] = pen.jobs[i]
    BY <1>1, <1>2
  <2>2. pen.jobs[j] \in Job
    BY <1>1, <1>2
  <2>3. view.jobs[j].status = "done" /\ view.jobs[j].prey = pen.jobs[j].prey
    BY <2>1, <2>2 DEF Job
  <2> QED BY <2>1, <2>3
<1>4. \A x \in Workers \ {w} : wpc[x] \in {"draft", "complete"} =>
          job[x] \in DOMAIN pen.jobs /\ job[x] # j
  BY <1>1 DEF IInv, Views, WorkerView, ClaimIsExclusive
<1>5. TypeOK'
  BY <1>2 DEF IInv, TypeOK, handler, mishaps
<1>6. WorkerView(w)'
  BY <1>1, <1>2, PenAssumption DEF IInv, TypeOK, WorkerView
<1>7. ClaimIsExclusive'
  <2>1. \A x \in Workers \ {w} : wpc'[x] = wpc[x] /\ job'[x] = job[x] /\ won'[x] = won[x]
    BY <1>2
  <2>2. wpc'[w] = "poll"
    BY <1>2 DEF IInv, TypeOK
  <2> QED BY <1>2, <1>3, <2>1, <2>2 DEF IInv, ClaimIsExclusive
<1>8. \A x \in Workers \ {w} : /\ wpc'[x] = wpc[x] /\ job'[x] = job[x] /\ won'[x] = won[x]
                               /\ wpc[x] \in {"draft", "complete"} =>
                                     view.jobs[job[x]].status = pen.jobs[job[x]].status
  BY <1>2, <1>3, <1>4
<1> QED BY <1>1, <1>2, <1>3, <1>5, <1>6, <1>7, <1>8, WorkerCommits

-----------------------------------------------------------------------------
(* Hunts and the process.                                                  *)

LEMMA CapturePreyIInv == ASSUME IInv, NEW p \in Prey, CapturePrey(p) PROVE IInv'
<1>1. /\ holder = None /\ pen.status[p] = "absent" /\ pen \in Tables /\ LockFree
      /\ pen' = [pen EXCEPT !.status[p] = "awaiting"] /\ view' = pen'
      /\ UNCHANGED <<holder, handler, worker, mishaps>>
  BY DEF IInv, TypeOK, Views, CapturePrey
<1>2. /\ pen' \in Tables /\ pen'.events = pen.events /\ pen'.jobs = pen.jobs
      /\ pen'.status = [pen.status EXCEPT ![p] = "awaiting"]
  BY <1>1 DEF Tables, PreyStatus
<1>3. TypeOK'
  BY <1>1, <1>2 DEF IInv, TypeOK, handler, worker, mishaps
<1>4. Views'
  <2>1. ASSUME NEW h \in Handlers PROVE HandlerView(h)'
    BY <1>1, Actors, HandlerAside DEF IInv, Views, handler
  <2>2. ASSUME NEW w \in Workers PROVE WorkerView(w)'
    BY <1>1, <1>2, PenAssumption, WorkerAside DEF IInv, Views, worker
  <2> QED BY <1>1, <2>1, <2>2 DEF Views, LockFree
<1>5. OneJobPerFeast'
  <2>1. ASSUME NEW q \in Prey
        PROVE  /\ pen'.status[q] = "feasted" <=> pen.status[q] = "feasted"
               /\ JobsOf(pen', q) = JobsOf(pen, q) /\ FeastsOf(pen', q) = FeastsOf(pen, q)
    BY <1>1, <1>2, TablesTyped DEF JobsOf, FeastsOf
  <2> QED BY <2>1 DEF IInv, OneJobPerFeast
<1>6. ClaimIsExclusive' /\ RelayedOnce'
  BY <1>1, <1>2 DEF IInv, ClaimIsExclusive, RelayedOnce, handler, worker, mishaps
<1> QED BY <1>3, <1>4, <1>5, <1>6 DEF IInv

LEMMA RebootIInv == ASSUME IInv, Reboot PROVE IInv'
<1> DEFINE Swept(q) == [q EXCEPT !.status = IF @ = "running" THEN "queued" ELSE @]
<1> DEFINE jobs == [j \in DOMAIN pen.jobs |-> Swept(pen.jobs[j])]
<1>1. /\ reboots' = reboots + 1 /\ UNCHANGED faults
      /\ pen' = [pen EXCEPT !.jobs = jobs] /\ view' = pen' /\ holder' = None
      /\ hpc' = [h \in Handlers |-> "idle"] /\ req' = [h \in Handlers |-> None]
      /\ wpc' = [w \in Workers |-> "poll"] /\ job' = [w \in Workers |-> 0]
      /\ won' = [w \in Workers |-> FALSE]
      /\ relayed' = [p \in Prey |-> 0]
      /\ bootLen' = [p \in Prey |-> Len(pen.events[p])]
  BY DEF Reboot, BootWith
<1>2. pen \in Tables /\ pen.jobs \in Seq(Job) /\ pen.events \in [Prey -> Seq(Verdict)]
  BY TablesTyped DEF IInv, TypeOK
<1>3. ASSUME NEW q \in Job
      PROVE  Swept(q) \in Job /\ Swept(q).prey = q.prey /\ Swept(q).status # "running"
  BY DEF Job, JobStatus
<1> HIDE DEF Swept
<1>4. /\ DOMAIN jobs = DOMAIN pen.jobs /\ jobs \in Seq(Job)
      /\ \A j \in DOMAIN pen.jobs : /\ jobs[j].prey = pen.jobs[j].prey
                                    /\ jobs[j].status # "running"
  <2>1. Len(pen.jobs) \in Nat /\ DOMAIN pen.jobs = 1 .. Len(pen.jobs)
        /\ \A j \in DOMAIN pen.jobs : pen.jobs[j] \in Job
    BY <1>2
  <2>2. jobs \in [1 .. Len(pen.jobs) -> Job]
    BY <1>3, <2>1
  <2>3. jobs \in Seq(Job)
    BY <2>1, <2>2
  <2> QED BY <1>3, <2>1, <2>3
<1> HIDE DEF jobs
<1>5. /\ pen' \in Tables /\ pen'.jobs = jobs
      /\ pen'.status = pen.status /\ pen'.events = pen.events
  BY <1>1, <1>2, <1>4 DEF Tables, Job
<1>6. TypeOK'
  <2>1. bootLen' \in [Prey -> Nat]
    BY <1>1, <1>2
  <2> QED BY <1>1, <1>5, <2>1 DEF IInv, TypeOK
<1>7. Views'
  <2>1. ASSUME NEW h \in Handlers PROVE HandlerView(h)'
    BY <1>1, Actors DEF HandlerView
  <2>2. ASSUME NEW w \in Workers PROVE WorkerView(w)'
    BY <1>1, PenAssumption DEF WorkerView
  <2> QED BY <1>1, <2>1, <2>2 DEF Views, LockFree
<1>8. OneJobPerFeast'
  <2>1. ASSUME NEW p \in Prey
        PROVE  JobsOf(pen', p) = JobsOf(pen, p) /\ FeastsOf(pen', p) = FeastsOf(pen, p)
    BY <1>4, <1>5 DEF JobsOf, FeastsOf
  <2> QED BY <1>5, <2>1 DEF IInv, OneJobPerFeast
<1>9. ClaimIsExclusive'
  BY <1>1, <1>4, <1>5 DEF ClaimIsExclusive
<1>10. RelayedOnce'
  <2>1. ASSUME NEW p \in Prey
        PROVE  Len(pen'.events[p]) = bootLen'[p] + relayed'[p]
                   + Cardinality({h \in Handlers : hpc'[h] = "notify" /\ req'[h].prey = p})
    <3>1. {h \in Handlers : hpc'[h] = "notify" /\ req'[h].prey = p} = {}
      BY <1>1
    <3>2. Len(pen.events[p]) \in Nat
      BY <1>2
    <3>3. Cardinality({h \in Handlers : hpc'[h] = "notify" /\ req'[h].prey = p}) = 0
      BY <3>1, FS_EmptySet, Zenon
    <3> QED BY <1>1, <1>5, <3>2, <3>3
  <2> QED BY <2>1 DEF RelayedOnce
<1> QED BY <1>6, <1>7, <1>8, <1>9, <1>10 DEF IInv

-----------------------------------------------------------------------------
LEMMA InitIInv == Init => IInv
<1> SUFFICES ASSUME Init PROVE IInv
  OBVIOUS
<1>1. /\ pen = [status |-> [p \in Prey |-> "absent"], reason |-> [p \in Prey |-> None],
                events |-> [p \in Prey |-> <<>>], jobs |-> <<>>]
      /\ view = pen /\ holder = None
  BY DEF Init
<1>2. pen \in Tables
  BY <1>1 DEF Tables, PreyStatus
<1>3. TypeOK
  BY <1>1, <1>2 DEF Init, TypeOK
<1>4. Views
  <2>1. ASSUME NEW h \in Handlers PROVE HandlerView(h)
    BY Actors DEF Init, HandlerView
  <2>2. ASSUME NEW w \in Workers PROVE WorkerView(w)
    BY PenAssumption DEF Init, WorkerView
  <2> QED BY <1>1, <2>1, <2>2 DEF Views, LockFree
<1>5. ASSUME NEW p \in Prey
      PROVE  /\ pen.status[p] = "absent" /\ JobsOf(pen, p) = {} /\ FeastsOf(pen, p) = {}
             /\ Len(pen.events[p]) = 0
  BY <1>1 DEF JobsOf, FeastsOf
<1>6. OneJobPerFeast
  BY <1>5, FS_EmptySet DEF OneJobPerFeast
<1>7. ClaimIsExclusive
  BY <1>1 DEF Init, ClaimIsExclusive
<1>8. RelayedOnce
  <2>1. ASSUME NEW p \in Prey
        PROVE  Len(pen.events[p]) = bootLen[p] + relayed[p]
                   + Cardinality({h \in Handlers : hpc[h] = "notify" /\ req[h].prey = p})
    <3>1. {h \in Handlers : hpc[h] = "notify" /\ req[h].prey = p} = {}
      BY DEF Init
    <3>2. Cardinality({h \in Handlers : hpc[h] = "notify" /\ req[h].prey = p}) = 0
      BY <3>1, FS_EmptySet, Zenon
    <3>3. bootLen[p] = 0 /\ relayed[p] = 0
      BY DEF Init
    <3> QED BY <1>5, <3>2, <3>3
  <2> QED BY <2>1 DEF RelayedOnce
<1> QED BY <1>3, <1>4, <1>6, <1>7, <1>8 DEF IInv

LEMMA NextIInv == IInv /\ [Next]_vars => IInv'
<1> SUFFICES ASSUME IInv, [Next]_vars PROVE IInv'
  OBVIOUS
<1>1. CASE Reboot
  BY <1>1, RebootIInv
<1>2. ASSUME NEW p \in Prey, CapturePrey(p) PROVE IInv'
  BY <1>2, CapturePreyIInv
<1>3. ASSUME NEW h \in Handlers, Post(h) PROVE IInv'
  BY <1>3, PostIInv
<1>4. ASSUME NEW h \in Handlers, Serve(h) PROVE IInv'
  BY <1>4, UpdatePreyIInv, NoOpIInv, AppendVerdictIInv, EnqueueJobIInv,
     CommitVerdictIInv, NotifyVerdictIInv DEF Serve
<1>5. ASSUME NEW h \in Handlers, FailHandler(h) PROVE IInv'
  BY <1>5, FailHandlerIInv
<1>6. ASSUME NEW w \in Workers, Work(w) PROVE IInv'
  BY <1>6, SelectJobIInv, ClaimJobIInv, CommitClaimIInv, DraftedIInv,
     CompleteJobIInv, CommitDoneIInv DEF Work
<1>7. ASSUME NEW w \in Workers, WorkerDies(w) PROVE IInv'
  BY <1>7, WorkerDiesIInv
<1>8. CASE UNCHANGED vars
  <2>1. UNCHANGED <<pen, view, holder, hpc, req, relayed, wpc, job, won, bootLen, reboots, faults>>
    BY <1>8 DEF vars, tables, handler, worker, mishaps
  <2>2. TypeOK' /\ OneJobPerFeast' /\ ClaimIsExclusive' /\ RelayedOnce'
    BY <2>1, FeastsKept, ClaimsKept, RelaysAside DEF IInv, TypeOK, worker
  <2>3. Views'
    BY <2>1 DEF IInv, Views, LockFree, HandlerView, VerdictView, WorkerView, JobMoved
  <2> QED BY <2>2, <2>3 DEF IInv
<1> QED BY <1>1, <1>2, <1>3, <1>4, <1>5, <1>6, <1>7, <1>8 DEF Next

(* The inductive invariant holds of every run of the pen.                  *)
LEMMA Inductive == Spec => []IInv
<1> QED BY InitIInv, NextIInv, PTL DEF Spec

(* Every variable keeps its type.                                          *)
THEOREM TypeCorrect == Spec => []TypeOK
<1>1. IInv => TypeOK
  BY DEF IInv
<1> QED BY <1>1, Inductive, PTL

(* submit_verdict, "one FEAST -> one job, even under a concurrent          *)
(* double-FEAST": with any number of requests at once, failing statements  *)
(* and restarts, a feasted prey has one FEAST in its log and one job, and  *)
(* no other prey has any.                                                  *)
THEOREM FeastsOnce == Spec => []OneJobPerFeast
<1>1. IInv => OneJobPerFeast
  BY DEF IInv
<1> QED BY <1>1, Inductive, PTL

(* claim_job, "each job is handed to at most one": also with more workers  *)
(* than the one the lifespan starts, no two hold the same job, and none    *)
(* is running that nobody has held.                                        *)
THEOREM ClaimsAreExclusive == Spec => []ClaimIsExclusive
<1>1. IInv => ClaimIsExclusive
  BY DEF IInv
<1> QED BY <1>1, Inductive, PTL

(* server.post_verdict: the boards are told of every verdict committed     *)
(* since the boot once, after its commit and never of another.             *)
THEOREM RelaysOnce == Spec => []RelayedOnce
<1>1. IInv => RelayedOnce
  BY DEF IInv
<1> QED BY <1>1, Inductive, PTL

-----------------------------------------------------------------------------
(* The row of a prey is the fold of its verdicts.                          *)

F == INSTANCE FoldTheorems

PreyRow == [status : PreyStatus, reason : Reasons \cup {None}]

Captured == [status |-> "awaiting", reason |-> None]

(* One verdict applied to a row: the body of the loop in verdicts.fold.    *)
Judged(row, e) == IF row.status # Source[e.verdict] THEN row
                  ELSE [status |-> Target[e.verdict], reason |-> Coalesce(e.reason, row.reason)]

JudgedStep == [p \in PreyRow \X Verdict |-> Judged(p[1], p[2])]

LEMMA JudgedIsStep ==
    /\ JudgedStep \in [PreyRow \X Verdict -> PreyRow]
    /\ \A row \in PreyRow, e \in Verdict : JudgedStep[<<row, e>>] = Judged(row, e)
    /\ Captured \in PreyRow
<1>1. ASSUME NEW row \in PreyRow, NEW e \in Verdict PROVE Judged(row, e) \in PreyRow
  <2>1. /\ e.verdict \in Verdicts /\ e.reason \in Reasons \cup {None}
        /\ row.reason \in Reasons \cup {None}
    BY DEF Verdict, PreyRow
  <2>2. Target[e.verdict] \in PreyStatus /\ Coalesce(e.reason, row.reason) \in Reasons \cup {None}
    BY <2>1 DEF Verdicts, Target, PreyStatus, Coalesce
  <2> QED BY <2>2 DEF Judged, PreyRow
<1>2. Captured \in PreyRow
  BY DEF Captured, PreyRow, PreyStatus
<1> QED BY <1>1, <1>2 DEF JudgedStep

LEMMA SameMax == ASSUME NEW s PROVE Max(s) = F!Max(s)
BY DEF Max, F!Max

LEMMA VerdictsFold ==
    ASSUME NEW l \in Seq(Verdict)
    PROVE  F!FoldsInto(Fold(l), PreyRow, Captured, JudgedStep, l)
<1> DEFINE Folds(g) == g = [s \in SUBSET DOMAIN l |->
                               IF s = {} THEN Captured
                               ELSE Judged(g[s \ {Max(s)}], l[Max(s)])]
<1>0. PICK n \in Nat : Len(l) = n /\ DOMAIN l = 1..n /\ \A i \in 1..n : l[i] \in Verdict
  OBVIOUS
<1>1. \E g : Folds(g)
  <2>1. PICK g : F!Folded(g, n, PreyRow, Verdict, Captured, JudgedStep, l)
    BY <1>0, JudgedIsStep, F!FoldValues
  <2>2. ASSUME NEW s \in SUBSET (1..n)
        PROVE  g[s] = IF s = {} THEN Captured ELSE Judged(g[s \ {Max(s)}], l[Max(s)])
    <3>1. CASE s = {}
      BY <2>1, <3>1 DEF F!Folded
    <3>2. CASE s # {}
      <4>1. /\ g[s \ {Max(s)}] \in PreyRow /\ l[Max(s)] \in Verdict
            /\ g[s] = JudgedStep[<<g[s \ {Max(s)}], l[Max(s)]>>]
        BY <2>1, <3>2, SameMax DEF F!Folded
      <4> QED BY <3>2, <4>1, JudgedIsStep
    <3> QED BY <3>1, <3>2
  <2>3. Folds(g)
    BY <1>0, <2>1, <2>2 DEF F!Folded
  <2> QED BY <2>3
<1> DEFINE iter == CHOOSE g : Folds(g)
<1>2. Folds(iter)
  BY <1>1, Zenon
<1>3. Fold(l) = iter[DOMAIN l]
  BY DEF Fold, FoldLeft, MapThenFoldSet, Judged, Captured
<1> HIDE DEF iter
<1>4. iter[1..0] = Captured
  BY <1>0, <1>2
<1>5. \A s \in SUBSET (1..n) : s # {} => iter[s] = Judged(iter[s \ {Max(s)}], l[Max(s)])
  BY <1>0, <1>2
<1> HIDE DEF Folds
<1>6. ASSUME NEW k \in 0..(n-1), iter[1..k] \in PreyRow
      PROVE  iter[1..(k+1)] = JudgedStep[<<iter[1..k], l[k + 1]>>]
  <2>1. iter[1..(k+1)] = Judged(iter[1..k], l[k+1])
    <3>1. /\ 1..(k+1) \in SUBSET (1..n) /\ 1..(k+1) # {}
          /\ Max(1..(k+1)) = k + 1 /\ (1..(k+1)) \ {k + 1} = 1..k
      BY <1>0, F!NextPosition, SameMax
    <3> QED BY <1>5, <3>1
  <2>2. l[k+1] \in Verdict
    BY <1>0
  <2> QED BY <1>6, <2>1, <2>2, JudgedIsStep
<1>7. F!Steps(iter, n, PreyRow, Captured, JudgedStep, l)
  BY <1>4, <1>6 DEF F!Steps
<1>8. F!FoldsInto(iter[1..n], PreyRow, Captured, JudgedStep, l)
  BY <1>0, <1>7, JudgedIsStep, F!FoldResult
<1> QED BY <1>0, <1>3, <1>8

(* One more verdict in the log is one more step of the fold.               *)
LEMMA VerdictFolds ==
    ASSUME NEW l \in Seq(Verdict), NEW e \in Verdict
    PROVE  Fold(Append(l, e)) = Judged(Fold(l), e)
<1>1. Append(l, e) \in Seq(Verdict)
  OBVIOUS
<1>2. /\ F!FoldsInto(Fold(l), PreyRow, Captured, JudgedStep, l)
      /\ F!FoldsInto(Fold(Append(l, e)), PreyRow, Captured, JudgedStep, Append(l, e))
  BY <1>1, VerdictsFold
<1>3. Fold(l) \in PreyRow /\ Fold(Append(l, e)) = JudgedStep[<<Fold(l), e>>]
  BY <1>2, F!FoldAppend
<1> QED BY <1>3, JudgedIsStep

LEMMA NoVerdictFolds == Fold(<<>>) = Captured
<1>0. <<>> \in Seq(Verdict)
  OBVIOUS
<1>1. PICK none \in Seq(Verdict) : none = <<>>
  BY <1>0, Zenon
<1>2. F!FoldsInto(Fold(none), PreyRow, Captured, JudgedStep, none)
  BY <1>1, VerdictsFold
<1> QED BY <1>1, <1>2, F!FoldEmpty

(* A row that was never captured has no verdicts.                          *)
Untouched == \A p \in Prey : pen.status[p] = "absent" => pen.events[p] = <<>> /\ pen.reason[p] = None

(* The reason the transaction of a handler, or of a worker, has written.   *)
HandlerReason(h) ==
    hpc[h] \in {"event", "enqueue", "commit"} =>
        view.reason = [pen.reason EXCEPT ![req[h].prey] = Coalesce(req[h].reason, @)]

WorkerReason(w) == wpc[w] \in {"commit_claim", "commit_done"} => view.reason = pen.reason

RowInv == /\ RowIsFold /\ Untouched
          /\ \A h \in Handlers : HandlerReason(h)
          /\ \A w \in Workers : WorkerReason(w)

LEMMA RowsKept ==
    ASSUME RowIsFold, Untouched,
           pen'.status = pen.status, pen'.reason = pen.reason, pen'.events = pen.events
    PROVE  RowIsFold' /\ Untouched'
BY DEF RowIsFold, Untouched

LEMMA ReasonsAside ==
    ASSUME IInv, RowInv
    PROVE  /\ \A g \in Handlers : /\ hpc'[g] = hpc[g] /\ req'[g] = req[g]
                                  /\ holder # g \/ UNCHANGED <<pen, view>>
                                  => HandlerReason(g)'
           /\ \A w \in Workers : /\ wpc'[w] = wpc[w]
                                 /\ holder # w \/ UNCHANGED <<pen, view>>
                                 => WorkerReason(w)'
<1>1. \A g \in Handlers : HandlerView(g) /\ HandlerReason(g)
  BY DEF IInv, Views, RowInv
<1>2. \A w \in Workers : WorkerView(w) /\ WorkerReason(w)
  BY DEF IInv, Views, RowInv
<1>3. ASSUME NEW g \in Handlers, hpc'[g] = hpc[g], req'[g] = req[g],
             holder # g \/ UNCHANGED <<pen, view>>
      PROVE  HandlerReason(g)'
  BY <1>1, <1>3 DEF HandlerView, HandlerReason
<1>4. ASSUME NEW w \in Workers, wpc'[w] = wpc[w], holder # w \/ UNCHANGED <<pen, view>>
      PROVE  WorkerReason(w)'
  BY <1>2, <1>4 DEF WorkerView, WorkerReason
<1> QED BY <1>3, <1>4

LEMMA InitRowInv == Init => RowInv
<1> SUFFICES ASSUME Init PROVE RowInv
  OBVIOUS
<1>1. \A p \in Prey : pen.status[p] = "absent" /\ pen.events[p] = <<>> /\ pen.reason[p] = None
  BY DEF Init
<1>2. RowIsFold /\ Untouched
  BY <1>1 DEF RowIsFold, Untouched
<1>3. \A h \in Handlers : HandlerReason(h)
  BY DEF Init, HandlerReason
<1>4. \A w \in Workers : WorkerReason(w)
  BY DEF Init, WorkerReason
<1> QED BY <1>2, <1>3, <1>4 DEF RowInv

(* A step of one handler: only its own reason is to be seen to.            *)
LEMMA HandlerRow ==
    ASSUME IInv, RowInv, NEW h \in Handlers,
           \A g \in Handlers \ {h} : hpc'[g] = hpc[g] /\ req'[g] = req[g],
           wpc' = wpc, holder \in {None, h} \/ UNCHANGED <<pen, view>>,
           RowIsFold', Untouched', HandlerReason(h)'
    PROVE  RowInv'
<1>1. ASSUME NEW g \in Handlers PROVE HandlerReason(g)'
  BY Actors, ReasonsAside
<1>2. ASSUME NEW w \in Workers PROVE WorkerReason(w)'
  BY Actors, ReasonsAside
<1> QED BY <1>1, <1>2 DEF RowInv

(* A step of one worker.                                                   *)
LEMMA WorkerRow ==
    ASSUME IInv, RowInv, NEW w \in Workers,
           \A x \in Workers \ {w} : wpc'[x] = wpc[x], UNCHANGED <<hpc, req>>,
           holder \in {None, w} \/ UNCHANGED <<pen, view>>,
           pen'.status = pen.status, pen'.reason = pen.reason, pen'.events = pen.events,
           WorkerReason(w)'
    PROVE  RowInv'
<1>1. ASSUME NEW g \in Handlers PROVE HandlerReason(g)'
  BY Actors, ReasonsAside
<1>2. ASSUME NEW x \in Workers PROVE WorkerReason(x)'
  <2>1. CASE x = w
    BY <2>1
  <2>2. CASE x # w
    <3>1. wpc'[x] = wpc[x] /\ (holder # x \/ UNCHANGED <<pen, view>>)
      BY <2>2, PenAssumption
    <3> QED BY <3>1, ReasonsAside
  <2> QED BY <2>1, <2>2
<1>3. RowIsFold' /\ Untouched'
  BY RowsKept DEF RowInv
<1> QED BY <1>1, <1>2, <1>3 DEF RowInv

(* A handler's steps before its commit leave the committed rows alone.     *)
LEMMA HandlerWrites ==
    ASSUME IInv, RowInv, NEW h \in Handlers,
           \/ Post(h) \/ NoOp(h) \/ FailHandler(h) \/ NotifyVerdict(h)
           \/ UpdatePrey(h) \/ AppendVerdict(h) \/ EnqueueJob(h)
    PROVE  RowInv'
<1>1. /\ HandlerView(h) /\ HandlerReason(h) /\ LockFree
      /\ hpc \in [Handlers -> {"idle", "update", "rollback", "event", "enqueue",
                             "commit", "notify"}]
      /\ req \in [Handlers -> Request \cup {None}] /\ pen \in Tables /\ view \in Tables
  BY DEF IInv, TypeOK, Views, RowInv
<1>2. CASE Post(h)
  <2>1. /\ hpc' = [hpc EXCEPT ![h] = "update"] /\ \E r \in Request : req' = [req EXCEPT ![h] = r]
        /\ UNCHANGED <<pen, view, wpc>>
    BY <1>2 DEF Post, HandlerTo, tables, worker
  <2>2. HandlerReason(h)'
    BY <1>1, <2>1 DEF HandlerReason
  <2> QED BY <1>1, <2>1, <2>2, RowsKept, HandlerRow DEF RowInv
<1>3. CASE NoOp(h) \/ FailHandler(h)
  <2>1. /\ hpc' = [hpc EXCEPT ![h] = "idle"] /\ req' = [req EXCEPT ![h] = None]
        /\ UNCHANGED <<pen, wpc>> /\ view' = IF holder = h THEN pen ELSE view
    BY <1>3 DEF NoOp, FailHandler, Rollback, Respond, HandlerTo, worker
  <2>2. HandlerReason(h)'
    BY <1>1, <2>1 DEF HandlerReason
  <2>3. holder \in {None, h} \/ UNCHANGED <<pen, view>>
    BY <2>1
  <2> QED BY <1>1, <2>1, <2>2, <2>3, RowsKept, HandlerRow DEF RowInv
<1>4. CASE NotifyVerdict(h)
  <2>1. /\ hpc' = [hpc EXCEPT ![h] = "idle"] /\ req' = [req EXCEPT ![h] = None]
        /\ UNCHANGED <<pen, view, wpc>>
    BY <1>4 DEF NotifyVerdict, Respond, HandlerTo, worker, tables
  <2>2. HandlerReason(h)'
    BY <1>1, <2>1 DEF HandlerReason
  <2> QED BY <1>1, <2>1, <2>2, RowsKept, HandlerRow DEF RowInv
<1>5. CASE UpdatePrey(h)
  <2>1. /\ hpc[h] = "update" /\ holder \in {None, h} /\ UNCHANGED <<pen, req, wpc>>
    BY <1>5 DEF UpdatePrey, UpdateRow, HandlerAt, Write, worker
  <2>2. view = pen
    BY <1>1, <2>1 DEF HandlerView, LockFree
  <2>3. CASE view.status[req[h].prey] = Source[req[h].verdict]
    <3>1. /\ view' = [view EXCEPT !.status[req[h].prey] = Target[req[h].verdict],
                                  !.reason[req[h].prey] = Told(h)]
          /\ hpc' = [hpc EXCEPT ![h] = "event"]
      BY <1>5, <2>3 DEF UpdatePrey, UpdateRow, HandlerTo, Write
    <3>2. view'.reason = [view.reason EXCEPT ![req[h].prey] = Told(h)]
      BY <1>1, <3>1 DEF Tables
    <3>3. HandlerReason(h)'
      BY <2>1, <2>2, <3>2 DEF HandlerReason, Told
    <3> QED BY <1>1, <2>1, <3>1, <3>3, RowsKept, HandlerRow DEF RowInv
  <2>4. CASE view.status[req[h].prey] # Source[req[h].verdict]
    <3>1. view' = view /\ hpc' = [hpc EXCEPT ![h] = "rollback"]
      BY <1>5, <2>4 DEF UpdatePrey, UpdateRow, HandlerTo, Write
    <3>2. HandlerReason(h)'
      BY <1>1, <3>1 DEF HandlerReason
    <3> QED BY <1>1, <2>1, <3>1, <3>2, RowsKept, HandlerRow DEF RowInv
  <2> QED BY <2>3, <2>4
<1>6. CASE AppendVerdict(h)
  <2>1. /\ hpc[h] = "event" /\ holder \in {None, h} /\ UNCHANGED <<pen, req, wpc>>
        /\ view'.reason = view.reason
        /\ \E a \in {"enqueue", "commit"} : hpc' = [hpc EXCEPT ![h] = a]
    BY <1>1, <1>6 DEF AppendVerdict, HandlerAt, HandlerTo, Write, worker, Tables
  <2>2. HandlerReason(h)'
    BY <1>1, <2>1 DEF HandlerReason
  <2> QED BY <1>1, <2>1, <2>2, RowsKept, HandlerRow DEF RowInv
<1>7. CASE EnqueueJob(h)
  <2>1. /\ hpc[h] = "enqueue" /\ holder \in {None, h} /\ UNCHANGED <<pen, req, wpc>>
        /\ view'.reason = view.reason
        /\ hpc' = [hpc EXCEPT ![h] = "commit"]
    BY <1>1, <1>7 DEF EnqueueJob, HandlerAt, HandlerTo, Write, worker, Tables
  <2>2. HandlerReason(h)'
    BY <1>1, <2>1 DEF HandlerReason
  <2> QED BY <1>1, <2>1, <2>2, RowsKept, HandlerRow DEF RowInv
<1> QED BY <1>2, <1>3, <1>4, <1>5, <1>6, <1>7

(* The commit: the event in the log is the step the row has taken.         *)
LEMMA CommitVerdictRow == ASSUME IInv, RowInv, NEW h \in Handlers, CommitVerdict(h) PROVE RowInv'
<1> DEFINE r == req[h]
<1>1. /\ hpc[h] = "commit" /\ holder = h /\ pen' = view /\ UNCHANGED <<req, wpc>>
      /\ hpc' = [hpc EXCEPT ![h] = "notify"]
  BY DEF CommitVerdict, HandlerAt, HandlerTo, Commit, worker
<1>2. /\ r \in Request /\ pen \in Tables /\ VerdictView(h) /\ HandlerReason(h)
      /\ hpc'[h] = "notify"
  BY <1>1 DEF IInv, TypeOK, Views, HandlerView, RowInv
<1>3. PICK e \in Verdict : e = [verdict |-> r.verdict, reason |-> r.reason]
  BY <1>2 DEF Request, Verdict
<1>4. /\ r.prey \in Prey /\ pen.status[r.prey] = Source[e.verdict]
      /\ pen'.status = [pen.status EXCEPT ![r.prey] = Target[e.verdict]]
      /\ pen'.events = [pen.events EXCEPT ![r.prey] = Append(@, e)]
      /\ pen'.reason = [pen.reason EXCEPT ![r.prey] = Coalesce(e.reason, @)]
  BY <1>1, <1>2, <1>3 DEF VerdictView, HandlerReason, Request
<1>5. /\ pen.status \in [Prey -> PreyStatus] /\ pen.events \in [Prey -> Seq(Verdict)]
      /\ pen.reason \in [Prey -> Reasons \cup {None}]
  BY <1>2, TablesTyped
<1>6. e.verdict \in Verdicts
  BY DEF Verdict
<1>7. Source[e.verdict] # "absent" /\ Target[e.verdict] # "absent"
  BY <1>6 DEF Verdicts, Source, Target
<1>8. ASSUME NEW p \in Prey
      PROVE  /\ pen'.status[p] # "absent" =>
                   Fold(pen'.events[p]) = [status |-> pen'.status[p], reason |-> pen'.reason[p]]
             /\ pen'.status[p] = "absent" => pen'.events[p] = <<>> /\ pen'.reason[p] = None
  <2>1. CASE p # r.prey
    <3>1. /\ pen'.status[p] = pen.status[p] /\ pen'.events[p] = pen.events[p]
          /\ pen'.reason[p] = pen.reason[p]
      BY <1>4, <1>5, <2>1
    <3> QED BY <3>1 DEF RowInv, RowIsFold, Untouched
  <2>2. CASE p = r.prey
    <3>1. /\ pen'.status[p] = Target[e.verdict] /\ pen'.events[p] = Append(pen.events[p], e)
          /\ pen'.reason[p] = Coalesce(e.reason, pen.reason[p])
      BY <1>4, <1>5, <2>2
    <3>2. Fold(pen.events[p]) = [status |-> Source[e.verdict], reason |-> pen.reason[p]]
      BY <1>4, <1>7, <2>2 DEF RowInv, RowIsFold
    <3>3. Fold(Append(pen.events[p], e)) = Judged(Fold(pen.events[p]), e)
      BY <1>5, VerdictFolds
    <3>4. Judged(Fold(pen.events[p]), e)
          = [status |-> Target[e.verdict], reason |-> Coalesce(e.reason, pen.reason[p])]
      BY <3>2 DEF Judged
    <3> QED BY <1>7, <3>1, <3>3, <3>4
  <2> QED BY <2>1, <2>2
<1>9. RowIsFold' /\ Untouched'
  BY <1>8 DEF RowIsFold, Untouched
<1>10. HandlerReason(h)'
  BY <1>2 DEF HandlerReason
<1> QED BY <1>1, <1>9, <1>10, HandlerRow

(* The worker moves jobs only.                                             *)
LEMMA WorkerRows ==
    ASSUME IInv, RowInv, NEW w \in Workers, Work(w) \/ WorkerDies(w)
    PROVE  RowInv'
<1>1. /\ WorkerView(w) /\ WorkerReason(w) /\ LockFree /\ pen \in Tables /\ view \in Tables
      /\ wpc \in [Workers -> {"poll", "claim", "commit_claim", "draft", "complete",
                              "commit_done", "dead"}]
  BY DEF IInv, TypeOK, Views, RowInv
<1>2. CASE SelectJob(w) \/ Drafted(w)
  <2>1. /\ UNCHANGED <<pen, view, hpc, req>>
        /\ \E a \in {"claim", "complete"} : wpc' = [wpc EXCEPT ![w] = a]
    BY <1>2 DEF SelectJob, Drafted, WorkerTo, tables, handler
  <2>2. WorkerReason(w)'
    BY <1>1, <2>1 DEF WorkerReason
  <2> QED BY <1>1, <2>1, <2>2, WorkerRow
<1>3. CASE ClaimJob(w) \/ CompleteJob(w)
  <2>1. /\ UNCHANGED <<pen, hpc, req>> /\ holder \in {None, w} /\ view'.reason = view.reason
        /\ wpc[w] \in {"claim", "complete"}
        /\ \E a \in {"commit_claim", "commit_done"} : wpc' = [wpc EXCEPT ![w] = a]
    BY <1>1, <1>3 DEF ClaimJob, CompleteJob, Write, WorkerTo, handler, Tables
  <2>2. view = pen
    BY <1>1, <2>1, Actors DEF WorkerView, LockFree
  <2>3. WorkerReason(w)'
    BY <1>1, <2>1, <2>2 DEF WorkerReason
  <2> QED BY <1>1, <2>1, <2>3, WorkerRow
<1>4. CASE CommitClaim(w) \/ CommitDone(w)
  <2>1. /\ UNCHANGED <<hpc, req>> /\ holder = w /\ pen' = view /\ view' = view
        /\ wpc[w] \in {"commit_claim", "commit_done"}
        /\ \E a \in {"draft", "poll"} : wpc' = [wpc EXCEPT ![w] = a]
    BY <1>4 DEF CommitClaim, CommitDone, Commit, WorkerTo, PollAgain, handler
  <2>2. pen'.status = pen.status /\ pen'.events = pen.events /\ pen'.reason = pen.reason
    BY <1>1, <2>1 DEF WorkerView, WorkerReason, JobMoved
  <2>3. WorkerReason(w)'
    BY <1>1, <2>1 DEF WorkerReason
  <2> QED BY <1>1, <2>1, <2>2, <2>3, WorkerRow
<1>5. CASE WorkerDies(w)
  <2>1. /\ UNCHANGED <<pen, hpc, req>> /\ view' = IF holder = w THEN pen ELSE view
        /\ wpc' = [wpc EXCEPT ![w] = "dead"]
    BY <1>5 DEF WorkerDies, Rollback, WorkerTo, handler
  <2>2. WorkerReason(w)'
    BY <1>1, <2>1 DEF WorkerReason
  <2>3. holder \in {None, w} \/ UNCHANGED <<pen, view>>
    BY <2>1
  <2> QED BY <1>1, <2>1, <2>2, <2>3, WorkerRow
<1> QED BY <1>2, <1>3, <1>4, <1>5 DEF Work

LEMMA CaptureRow == ASSUME IInv, RowInv, NEW p \in Prey, CapturePrey(p) PROVE RowInv'
<1>1. /\ holder = None /\ pen.status[p] = "absent" /\ UNCHANGED <<hpc, req, wpc>>
      /\ pen' = [pen EXCEPT !.status[p] = "awaiting"] /\ pen \in Tables
  BY DEF CapturePrey, IInv, TypeOK, handler, worker
<1>2. /\ pen'.status = [pen.status EXCEPT ![p] = "awaiting"] /\ pen.status \in [Prey -> PreyStatus]
      /\ pen'.events = pen.events /\ pen'.reason = pen.reason
  BY <1>1 DEF Tables
<1>3. ASSUME NEW q \in Prey
      PROVE  /\ pen'.status[q] # "absent" =>
                   Fold(pen'.events[q]) = [status |-> pen'.status[q], reason |-> pen'.reason[q]]
             /\ pen'.status[q] = "absent" => pen'.events[q] = <<>> /\ pen'.reason[q] = None
  <2>1. CASE q = p
    <3>1. pen'.status[q] = "awaiting" /\ pen'.events[q] = <<>> /\ pen'.reason[q] = None
      BY <1>1, <1>2, <2>1 DEF RowInv, Untouched
    <3> QED BY <3>1, NoVerdictFolds DEF Captured
  <2>2. CASE q # p
    <3>1. pen'.status[q] = pen.status[q]
      BY <1>2, <2>2
    <3> QED BY <1>2, <3>1 DEF RowInv, RowIsFold, Untouched
  <2> QED BY <2>1, <2>2
<1>4. RowIsFold' /\ Untouched'
  BY <1>3 DEF RowIsFold, Untouched
<1>5. \A g \in Handlers : HandlerReason(g)'
  BY <1>1, Actors, ReasonsAside
<1>6. ASSUME NEW w \in Workers PROVE WorkerReason(w)'
  <2>1. wpc'[w] = wpc[w] /\ holder # w
    BY <1>1, PenAssumption
  <2> QED BY <2>1, ReasonsAside
<1> QED BY <1>4, <1>5, <1>6 DEF RowInv

LEMMA RebootRow == ASSUME IInv, RowInv, Reboot PROVE RowInv'
<1>1. /\ pen'.status = pen.status /\ pen'.events = pen.events /\ pen'.reason = pen.reason
      /\ hpc' = [h \in Handlers |-> "idle"] /\ wpc' = [w \in Workers |-> "poll"]
  BY DEF Reboot, BootWith, IInv, TypeOK, Tables
<1>2. RowIsFold' /\ Untouched'
  BY <1>1, RowsKept DEF RowInv
<1>3. \A g \in Handlers : HandlerReason(g)'
  BY <1>1 DEF HandlerReason
<1>4. \A w \in Workers : WorkerReason(w)'
  BY <1>1 DEF WorkerReason
<1> QED BY <1>2, <1>3, <1>4 DEF RowInv

LEMMA NextRowInv == IInv /\ RowInv /\ [Next]_vars => RowInv'
<1> SUFFICES ASSUME IInv, RowInv, [Next]_vars PROVE RowInv'
  OBVIOUS
<1>1. CASE Reboot
  BY <1>1, RebootRow
<1>2. CASE \E p \in Prey : CapturePrey(p)
  BY <1>2, CaptureRow
<1>3. CASE \E h \in Handlers : Post(h) \/ Serve(h) \/ FailHandler(h)
  BY <1>3, HandlerWrites, CommitVerdictRow DEF Serve
<1>4. CASE \E w \in Workers : Work(w) \/ WorkerDies(w)
  BY <1>4, WorkerRows
<1>5. CASE UNCHANGED vars
  BY <1>5 DEF vars, tables, handler, worker, RowInv, RowIsFold, Untouched, HandlerReason,
              WorkerReason
<1> QED BY <1>1, <1>2, <1>3, <1>4, <1>5 DEF Next

(* verdicts.fold, "the column never drifts": the row a verdict's guarded   *)
(* UPDATE leaves is the fold of the verdict log, for any number of prey,   *)
(* requests at once, workers, failing statements and restarts.             *)
THEOREM ColumnIsFold == Spec => []RowIsFold
<1>1. RowInv => RowIsFold
  BY DEF RowInv
<1> QED BY <1>1, InitRowInv, NextRowInv, Inductive, PTL DEF Spec
=============================================================================
