------------------------------- MODULE Daemon -------------------------------
(***************************************************************************)
(* The process around the hunts: server.lifespan starts the scheduler, the *)
(* follow-up worker and the heartbeats and drains them at shutdown;        *)
(* run_scheduler's task group runs one loop per territory, and a loop runs *)
(* its hunts through _bounded_hunt: a slot of the semaphore, a connection, *)
(* the spend gate, run_hunt, the close.                                    *)
(*                                                                         *)
(* What a hunt does between launch and close is HuntLoop's and HuntStore's *)
(* matter: here it makes brain calls, each billed, and is over some time.  *)
(***************************************************************************)
EXTENDS Integers, Sequences, FiniteSets

CONSTANTS
    Territories,    \* keys of the schedule: one loop each
    MaxConcurrent,  \* slots of the semaphore
    DaemonCeiling,  \* DAEMON_SPEND_CEILING_USD
    RunCeiling,     \* COST_CEILING_USD, of one hunt
    Price,          \* the most one brain call costs
    Faults          \* bound: the kinds of fault that may happen, once each

ASSUME DaemonAssumption ==
    /\ IsFiniteSet(Territories)
    /\ MaxConcurrent \in Nat \ {0}
    /\ DaemonCeiling \in Nat \ {0} /\ RunCeiling \in Nat \ {0} /\ Price \in Nat \ {0}
    /\ Faults \subseteq {"boot", "connection", "hunt", "cleanup", "draft"}

VARIABLES
    server,     \* boot, serving, draining; down, or failed on an exception
    drain,      \* which task's end the lifespan awaits: 1, 2, 3, then 4
    sched,      \* run_scheduler's task: off, boot, running, cancelling, ...
    worker,     \* run_job_worker's task
    beat,       \* run_heartbeats' task
    client,     \* the paid HTTP client: none, open, closed
    pos,        \* per territory: where its loop is
    waiting,    \* the semaphore's queue
    spent,      \* per territory: recorded spend of its hunt in flight
    recorded,   \* what the UsageEvents of the log fold to
    faulted     \* kinds of fault that happened

process == <<server, drain, worker, beat, client>>
loops   == <<pos, waiting>>
money   == <<spent, recorded>>
vars    == <<process, sched, loops, money, faulted>>

\* Inside: from the acquired slot to the end of async with sem.
Held == {"connect", "gate", "launch", "hunt", "close", "abort", "unwind"}
\* Stray: cancelled inside db.connect, whose connection nobody closes.
Over == {"raised", "ended", "stray"}
Positions == {"idle", "tick", "wait", "sleep"} \cup Held \cup Over

Inside == {t \in Territories : pos[t] \in Held}

\* The territories whose connection is, or may be, open.
Open == {t \in Territories : pos[t] \in Held \cup {"stray"}}

Init ==
    /\ server = "boot" /\ drain = 0
    /\ sched = "off" /\ worker = "off" /\ beat = "off"
    /\ client \in {"none", "open"}      \* REXHUNTER_BRAIN: stub or live
    /\ pos = [t \in Territories |-> "idle"] /\ waiting = <<>>
    /\ spent = [t \in Territories |-> 0]
    /\ recorded \in 0..DaemonCeiling    \* of earlier processes
    /\ faulted = {}

Fault(kind) == /\ kind \in Faults \ faulted
               /\ faulted' = faulted \cup {kind}

-----------------------------------------------------------------------------
(* asyncio.Semaphore: first come, first served; a released slot goes to    *)
(* the longest waiting loop.                                               *)

GoTo(t, p) == pos' = [pos EXCEPT ![t] = p] /\ UNCHANGED waiting

Acquire(t) ==
    IF Cardinality(Inside) < MaxConcurrent /\ waiting = <<>>
    THEN GoTo(t, "connect")
    ELSE /\ pos' = [pos EXCEPT ![t] = "wait"]
         /\ waiting' = Append(waiting, t)

Release(t, p) ==
    IF waiting = <<>> THEN GoTo(t, p)
    ELSE /\ pos' = [pos EXCEPT ![t] = p, ![Head(waiting)] = "connect"]
         /\ waiting' = Tail(waiting)

-----------------------------------------------------------------------------
(* One territory's loop: _bounded_hunt, then the sleep.                    *)

\* Mutant: every hunt with a semaphore of its own.
TickUnbounded(t) ==
    /\ pos[t] = "tick"
    /\ GoTo(t, "connect")
    /\ UNCHANGED <<process, sched, money, faulted>>

Tick(t) ==
    /\ pos[t] = "tick"
    /\ Acquire(t)
    /\ UNCHANGED <<process, sched, money, faulted>>

Connected(t) ==
    /\ pos[t] = "connect"
    /\ GoTo(t, "gate")
    /\ UNCHANGED <<process, sched, money, faulted>>

\* db.connect stands before the try, the close in its finally: what they
\* raise leaves the loop, a cancellation that is under way included.
ConnectionFails(t) ==
    /\ pos[t] \in {"connect", "close", "unwind"}
    /\ Fault("connection")
    /\ Release(t, "raised")
    /\ UNCHANGED <<process, sched, money>>

Gate(t, ceiling, refused) ==
    /\ pos[t] = "gate"
    /\ GoTo(t, IF recorded >= ceiling THEN refused ELSE "launch")
    /\ UNCHANGED <<process, sched, money, faulted>>

\* Mutant: > for >= in the gate.
ReadSpendUngated(t) == Gate(t, DaemonCeiling + 1, "close")

\* Mutant: the refusal returns without giving the slot back.
ReadSpendKeepsSlot(t) == Gate(t, DaemonCeiling, "sleep")

\* daemon_spend_usd: the answer is a step older than what follows from it.
ReadSpend(t) == Gate(t, DaemonCeiling, "close")

Launch(t) ==
    /\ pos[t] = "launch"
    /\ GoTo(t, "hunt")
    /\ spent' = [spent EXCEPT ![t] = 0]
    /\ UNCHANGED <<process, sched, recorded, faulted>>

\* The hunt's own breaker lets a paid call through (the stub's are free).
MayCall(t) == pos[t] = "hunt" /\ client # "none" /\ spent[t] < RunCeiling

\* A brain call whose UsageEvent is committed.
Call(t) ==
    /\ MayCall(t)
    /\ \E cost \in 1..Price : /\ recorded' = recorded + cost
                              /\ spent' = [spent EXCEPT ![t] = @ + cost]
    /\ UNCHANGED <<process, sched, loops, faulted>>

HuntOver(t) ==
    /\ pos[t] = "hunt"
    /\ GoTo(t, "close")
    /\ UNCHANGED <<process, sched, money, faulted>>

Breaks(t) == pos[t] \in {"gate", "hunt"} /\ Fault("hunt")

\* Mutant: no except in _bounded_hunt.
HuntEscapesUncaught(t) ==
    Breaks(t) /\ Release(t, "raised") /\ UNCHANGED <<process, sched, money>>

\* The gate's read, brain_for or run_hunt itself raises: logged, contained.
HuntEscapes(t) ==
    Breaks(t) /\ GoTo(t, "close") /\ UNCHANGED <<process, sched, money>>

Closed(t) ==
    /\ pos[t] = "close"
    /\ Release(t, "sleep")
    /\ UNCHANGED <<process, sched, money, faulted>>

Wake(t) ==
    /\ pos[t] = "sleep"
    /\ GoTo(t, "tick")
    /\ UNCHANGED <<process, sched, money, faulted>>

\* A cancelled loop: the shielded finish_run, the close, the slot.
Aborted(t) ==
    /\ pos[t] = "abort"
    /\ GoTo(t, "unwind")
    /\ UNCHANGED <<process, sched, money, faulted>>

\* finish_run fails: its exception takes the place of the cancellation and
\* is contained like any other.  The loop goes on; it is not cancelled again.
CleanupFails(t) ==
    /\ pos[t] = "abort"
    /\ Fault("cleanup")
    /\ GoTo(t, "close")
    /\ UNCHANGED <<process, sched, money>>

Unwound(t) ==
    /\ pos[t] = "unwind"
    /\ Release(t, "ended")
    /\ UNCHANGED <<process, sched, money, faulted>>

Proceed(t) == \/ Tick(t) \/ Connected(t) \/ ReadSpend(t) \/ Launch(t)
              \/ HuntOver(t) \/ Closed(t) \/ Wake(t) \/ Aborted(t) \/ Unwound(t)

-----------------------------------------------------------------------------
(* run_scheduler's task group.                                             *)

SchedulerBoots ==
    /\ sched = "boot"
    /\ sched' = "running"
    /\ pos' = [t \in Territories |-> "tick"]
    /\ UNCHANGED <<process, waiting, money, faulted>>

SchedulerBootFails ==
    /\ sched = "boot"
    /\ Fault("connection")
    /\ sched' = "died"
    /\ UNCHANGED <<process, loops, money>>

\* Every loop is cancelled at the await it is suspended at, once.  Inside
\* db.connect, the connection may be open already.
CancelGroup ==
    /\ \E strays \in SUBSET {t \in Territories : pos[t] = "connect"} :
       pos' = [t \in Territories |->
                  CASE t \in strays -> "stray"
                    [] pos[t] \in {"tick", "wait", "sleep", "connect"} -> "ended"
                    [] pos[t] \in {"gate", "launch", "close"} -> "unwind"
                    [] pos[t] = "hunt" -> "abort"
                    [] OTHER -> pos[t]]
    /\ waiting' = <<>>
    /\ sched' = "cancelling"

\* A child raised.
GroupAborts ==
    /\ sched = "running" /\ \E t \in Territories : pos[t] = "raised"
    /\ CancelGroup
    /\ UNCHANGED <<process, money, faulted>>

\* The last child is over: the group raises, or passes the cancellation on.
GroupOver ==
    /\ sched = "cancelling" /\ \A t \in Territories : pos[t] \in Over
    /\ sched' = IF \E t \in Territories : pos[t] = "raised" THEN "died" ELSE "cancelled"
    /\ UNCHANGED <<process, loops, money, faulted>>

Group == SchedulerBoots \/ GroupAborts \/ GroupOver

-----------------------------------------------------------------------------
(* The worker and the lifespan.  surface_crash changes nothing: raised in  *)
(* a done callback, the exception is logged and the server serves on.      *)

\* The finally closes the worker's connection either way.
WorkerDies ==
    /\ worker = "running"
    /\ Fault("draft")
    /\ worker' = "died"
    /\ UNCHANGED <<server, drain, beat, client, sched, loops, money>>

WorkerCloses ==
    /\ worker = "closing"
    /\ worker' = "cancelled"
    /\ UNCHANGED <<server, drain, beat, client, sched, loops, money, faulted>>

\* The sweeps, then the three tasks.
Boot ==
    /\ server = "boot"
    /\ server' = "serving"
    /\ sched' = "boot" /\ worker' = "running" /\ beat' = "running"
    /\ UNCHANGED <<drain, client, loops, money, faulted>>

\* A sweep raises, or select_brain_for: nothing was started.
BootFails ==
    /\ server = "boot"
    /\ Fault("boot")
    /\ server' = "failed"
    /\ UNCHANGED <<drain, sched, worker, beat, client, loops, money>>

\* Every task is cancelled; one that is over does not notice.
CancelTasks ==
    /\ server = "serving"
    /\ server' = "draining" /\ drain' = 1
    /\ CASE sched = "boot" -> sched' = "cancelled" /\ UNCHANGED loops
         [] sched = "running" -> CancelGroup
         [] OTHER -> UNCHANGED <<sched, loops>>
    /\ worker' = IF worker = "running" THEN "closing" ELSE worker
    /\ beat' = "cancelled"
    /\ UNCHANGED <<money, faulted>>

ClientClosed == client' = IF client = "open" THEN "closed" ELSE client

\* Mutant: the client is closed before the drain.
StopClosesFirst == CancelTasks /\ ClientClosed

Stop == CancelTasks /\ UNCHANGED client

Awaited == <<sched, worker, beat>>[drain]

Proceeds(steps) ==
    /\ server = "draining" /\ drain \in 1..3
    /\ Awaited = "cancelled"
    /\ drain' = drain + steps
    /\ UNCHANGED <<server, worker, beat, client, sched, loops, money, faulted>>

\* Mutant: the loop steps over every second task.
DrainedSkips == Proceeds(2)

\* with suppress(CancelledError): await task
Drained == Proceeds(1)

\* The exception a task died of comes up again: the tasks after it are not
\* awaited, the client is not closed.
DrainRaises ==
    /\ server = "draining" /\ drain \in 1..3
    /\ Awaited = "died"
    /\ server' = "failed"
    /\ UNCHANGED <<drain, worker, beat, client, sched, loops, money, faulted>>

CloseClient ==
    /\ server = "draining" /\ drain = 4
    /\ ClientClosed
    /\ server' = "down"
    /\ UNCHANGED <<drain, worker, beat, sched, loops, money, faulted>>

Lifespan == Boot \/ Drained \/ DrainRaises \/ CloseClient

Next == \/ Lifespan \/ BootFails \/ Stop
        \/ Group \/ SchedulerBootFails
        \/ WorkerDies \/ WorkerCloses
        \/ \E t \in Territories : \/ Proceed(t) \/ Call(t)
                                  \/ HuntEscapes(t) \/ ConnectionFails(t) \/ CleanupFails(t)

(* Tasks are scheduled, statements and sleeps end, and so does a hunt      *)
(* (HuntLoop's HuntEnds, HuntStore's Drains).  Nobody has to stop the      *)
(* daemon, no brain call to be made, no fault to happen.                   *)
Fairness == /\ \A t \in Territories : WF_vars(Proceed(t))
            /\ WF_vars(Group) /\ WF_vars(WorkerCloses) /\ WF_vars(Lifespan)

Spec     == Init /\ [][Next]_vars
FairSpec == Spec /\ Fairness

-----------------------------------------------------------------------------
(* Type invariant: the values every variable ranges over.                  *)
TypeOK ==
    /\ server \in {"boot", "serving", "draining", "down", "failed"}
    /\ drain \in 0..4
    /\ sched \in {"off", "boot", "running", "cancelling", "cancelled", "died"}
    /\ worker \in {"off", "running", "closing", "cancelled", "died"}
    /\ beat \in {"off", "running", "cancelled"}
    /\ client \in {"none", "open", "closed"}
    /\ pos \in [Territories -> Positions]
    /\ waiting \in Seq(Territories)
    /\ spent \in [Territories -> Nat] /\ recorded \in Nat
    /\ faulted \subseteq Faults

(* _bounded_hunt, "the cap also caps open connections, and territories     *)
(* past the cap WAIT for a slot": at most MaxConcurrent hunts have a       *)
(* connection, one that a cancelled db.connect leaves behind included (one *)
(* whose opening fails is not counted), and nobody waits while a slot is   *)
(* free, whatever fails, is refused or cancelled, and even if a loop       *)
(* outlives its cancellation.                                              *)
SlotsKept ==
    /\ Cardinality(Open) <= MaxConcurrent
    /\ waiting # <<>> => Cardinality(Inside) = MaxConcurrent

(* The spend gate together with each hunt's breaker: the gate reserves     *)
(* nothing and its answer may be stale, so the hunts that passed it while  *)
(* the budget lasted go on beyond it; but they are at most MaxConcurrent,  *)
(* and each stays within its own ceiling and one call.                     *)
Overshoot == MaxConcurrent * (RunCeiling - 1 + Price)

OvershootBounded == recorded <= DaemonCeiling - 1 + Overshoot

(* scheduler.py, "Failure isolation": a hunt, its gate or its brain may    *)
(* fail, and while the server serves every territory loop goes on.  Only a *)
(* connection that does not open or close ends the loops.                  *)
IsolatedHunts ==
    server = "serving" /\ "connection" \notin faulted
    => /\ sched \in {"boot", "running"}
       /\ \A t \in Territories : pos[t] \notin {"abort", "unwind"} \cup Over

(* lifespan's finally: the paid client is closed after the last hunt is    *)
(* over; a shutdown that comes to its end leaves no task and no slot held; *)
(* and it ends in an exception only if something had failed.               *)
ShutdownInOrder ==
    /\ client = "closed" => \A t \in Territories : pos[t] \in Over \cup {"idle"}
    /\ server = "down" => /\ sched = "cancelled" /\ Inside = {}
                          /\ worker = "cancelled" /\ beat = "cancelled"
                          /\ client # "open"
    /\ server = "failed" => faulted # {}

(* No territory waits for its slot for ever, however long the others hunt  *)
(* and however often the gate refuses.  And a shutdown comes to an end,    *)
(* whatever had failed before it, provided that the cleanup of no          *)
(* cancelled hunt fails: then its loop lives on (HuntStore's Drains).      *)
EveryWaitEnds ==
    /\ \A t \in Territories : (pos[t] = "wait") ~> (pos[t] # "wait")
    /\ (server = "draining") ~> (server \in {"down", "failed"} \/ "cleanup" \in faulted)
=============================================================================
