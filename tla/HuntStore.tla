----------------------------- MODULE HuntStore -----------------------------
(***************************************************************************)
(* The write path of the daemon: one task per territory loops over hunts   *)
(* (scheduler.territory_loop, _bounded_hunt, loop.run_hunt), each hunt on  *)
(* a connection of its own whose worker thread executes the submitted      *)
(* statements first in, first out, against one SQLite file with one write  *)
(* lock.  An action is what happens between two awaits of a task, or one   *)
(* statement in a connection's thread.                                     *)
(***************************************************************************)
EXTENDS Integers, Sequences, FiniteSets, FiniteSetsExt

CONSTANTS
    Territories,    \* keys of the schedule: one hunting task each
    RunIds,         \* the uuids start_run may draw
    None,           \* no territory, no run
    MaxConcurrent,  \* slots of the scheduler's semaphore
    GracefulStop,   \* may the lifespan shut the daemon down?
    MaxLog,         \* bound: _drive records no new step beyond this length
    MaxBoots,       \* bound: restarts explored
    MaxFaults       \* bound: failing SQL statements explored

ASSUME HuntStoreAssumption ==
    /\ None \notin Territories /\ None \notin RunIds
    /\ MaxConcurrent \in Nat \ {0}
    /\ GracefulStop \in BOOLEAN
    /\ MaxLog \in Nat /\ MaxBoots \in Nat /\ MaxFaults \in Nat

VARIABLES
    db,         \* the committed file: log, runs, prey
    txn,        \* what the holder of the write lock sees (db when unheld)
    writer,     \* the territory whose connection holds the write lock
    queue,      \* per territory: calls its connection's thread still has to run
    pc,         \* per territory: the await its task is suspended at
    run,        \* per territory: the run_id of the hunt in flight
    rowid,      \* per territory: lastrowid of its latest event INSERT
    result,     \* per territory: the outcome finish_run is given
    cancelled,  \* territories whose task was already cancelled
    daemon,     \* the process: running, stopping, stopped, crashed
    published,  \* ids handed to the hub since boot, in order
    pulsed,     \* runs whose run_finished pulse went out since boot
    bootHead,   \* length of the log at boot
    boots,      \* restarts so far
    faults      \* failed statements so far

store   == <<db, txn, writer>>
task    == <<pc, run, rowid, result, cancelled>>
hub     == <<published, pulsed>>
process == <<daemon, bootHead, boots, faults>>
vars    == <<store, queue, task, hub, process>>

-----------------------------------------------------------------------------
(* Domains *)

\* "shutdown" is outcome 'aborted' with abort_reason 'daemon shutdown'.
Outcomes == {"completed", "needs_help", "aborted", "shutdown"}
Status   == {"absent", "open", "crashed"} \cup Outcomes
Kinds    == {"step", "capture"}

Row   == [run : RunIds, seq : Nat, kind : Kinds]
Store == [log : Seq(Row), runs : [RunIds -> Status], prey : SUBSET Nat]

Writes == {"insert_run", "insert_step", "insert_capture", "insert_prey",
           "update_run"}
Calls  == Writes \cup {"commit", "close"}

\* The awaits of run_hunt that its try statement protects.
InTry == {"drive", "insert_event", "commit_event", "insert_capture",
          "insert_prey", "commit_capture"}

\* The awaits of run_hunt that no handler of its own protects: start_run,
\* the error handlers' append_event, and the final finish_run.
Unprotected == {"insert_run", "commit_run", "insert_error", "commit_error",
                "update_run", "commit_outcome"}

Awaits == InTry \cup Unprotected \cup
          {"sleep", "update_abort", "commit_abort", "close", "unwind", "ended"}

\* Mutant: the + 1 taken out of the COALESCE default.
NextSeqBelowZero(log, r) ==
    LET seqs == {log[i].seq : i \in {j \in DOMAIN log : log[j].run = r}}
    IN  IF seqs = {} THEN -1 ELSE Max(seqs) + 1

\* Mutant: WHERE run_id = ? forgotten.
NextSeqUnscoped(log, r) ==
    LET seqs == {log[i].seq : i \in DOMAIN log}
    IN  IF seqs = {} THEN 0 ELSE Max(seqs) + 1

\* COALESCE(MAX(seq) + 1, 0) ... WHERE run_id = r
NextSeq(log, r) ==
    LET seqs == {log[i].seq : i \in {j \in DOMAIN log : log[j].run = r}}
    IN  IF seqs = {} THEN 0 ELSE Max(seqs) + 1

Alive == daemon \in {"running", "stopping"}

Init ==
    /\ db = [log |-> <<>>, runs |-> [r \in RunIds |-> "absent"], prey |-> {}]
    /\ txn = db
    /\ writer = None
    /\ queue = [t \in Territories |-> <<>>]
    /\ pc = [t \in Territories |-> "sleep"]
    /\ run = [t \in Territories |-> None]
    /\ rowid = [t \in Territories |-> 0]
    /\ result = [t \in Territories |-> "aborted"]
    /\ cancelled = {}
    /\ daemon = "running"
    /\ published = <<>> /\ pulsed = {}
    /\ bootHead = 0 /\ boots = 0 /\ faults = 0

-----------------------------------------------------------------------------
(* A connection's worker thread: it pops one call and executes it, whether *)
(* or not the task that submitted it was cancelled meanwhile.              *)

Calling(t, op) == Alive /\ queue[t] # <<>> /\ Head(queue[t]) = op

Pop(t) == queue' = [queue EXCEPT ![t] = Tail(@)]

\* A write statement runs in t's transaction, taking the lock if it is free.
Write(t, view) == /\ writer \in {None, t}
                  /\ writer' = t
                  /\ txn' = view
                  /\ Pop(t)
                  /\ UNCHANGED <<db, pc, run, result, cancelled, hub, process>>

ExecInsertRun(t) ==
    /\ Calling(t, "insert_run")
    /\ Write(t, [txn EXCEPT !.runs[run[t]] = "open"])
    /\ UNCHANGED rowid

ExecAppend(t, kind) ==
    /\ Calling(t, IF kind = "capture" THEN "insert_capture" ELSE "insert_step")
    /\ Write(t, [txn EXCEPT !.log =
                    Append(@, [run  |-> run[t],
                               seq  |-> NextSeq(txn.log, run[t]),
                               kind |-> kind])])
    /\ rowid' = [rowid EXCEPT ![t] = Len(txn.log) + 1]

ExecInsertPrey(t) ==
    /\ Calling(t, "insert_prey")
    /\ Write(t, [txn EXCEPT !.prey = @ \cup {rowid[t]}])
    /\ UNCHANGED rowid

\* ... WHERE id = ? AND outcome IS NULL
ExecUpdateRun(t) ==
    /\ Calling(t, "update_run")
    /\ Write(t, IF txn.runs[run[t]] = "open"
                THEN [txn EXCEPT !.runs[run[t]] = result[t]]
                ELSE txn)
    /\ UNCHANGED rowid

ExecCommit(t) ==
    /\ Calling(t, "commit")
    /\ writer = t
    /\ db' = txn
    /\ writer' = None
    /\ Pop(t)
    /\ UNCHANGED <<txn, task, hub, process>>

\* Closing a connection rolls back what it has not committed.
ExecClose(t) ==
    /\ Calling(t, "close")
    /\ writer' = IF writer = t THEN None ELSE writer
    /\ txn' = IF writer = t THEN db ELSE txn
    /\ Pop(t)
    /\ UNCHANGED <<db, task, hub, process>>

Execute(t) == \/ ExecInsertRun(t)
              \/ \E kind \in Kinds : ExecAppend(t, kind)
              \/ ExecInsertPrey(t)
              \/ ExecUpdateRun(t)
              \/ ExecCommit(t)
              \/ ExecClose(t)

-----------------------------------------------------------------------------
(* The hunting task: from one await to the next.                           *)

\* t is at await a and the call it awaits there has been executed.
Resumed(t, a) == Alive /\ pc[t] = a /\ queue[t] = <<>>

GoTo(t, a) == pc' = [pc EXCEPT ![t] = a]

Submit(t, op) == queue' = [queue EXCEPT ![t] = Append(@, op)]

Await(t, a, op) == GoTo(t, a) /\ Submit(t, op)

Publish(t) == /\ published' = Append(published, rowid[t])
              /\ UNCHANGED pulsed

\* finish_run's UPDATE, after _drive or an error handler set the outcome.
FinishRun(t, outcome) == /\ Await(t, "update_run", "update_run")
                         /\ result' = [result EXCEPT ![t] = outcome]

Hunting == {t \in Territories : pc[t] \notin {"sleep", "ended"}}

(* A loop whose sleep is over takes a slot, connects and calls start_run.  *)
(* A loop that swallowed its cancellation goes on doing so at shutdown.    *)
Launch(t) ==
    /\ Resumed(t, "sleep")
    /\ Cardinality(Hunting) < MaxConcurrent
    /\ \E r \in RunIds :
          /\ txn.runs[r] = "absent" /\ \A u \in Territories : run[u] # r
          /\ run' = [run EXCEPT ![t] = r]
    /\ Await(t, "insert_run", "insert_run")
    /\ UNCHANGED <<store, rowid, result, cancelled, hub, process>>

\* await conn.execute(...) returned; the next line awaits conn.commit().
CommitAfter == [insert_run   |-> "commit_run",   insert_event |-> "commit_event",
                insert_prey  |-> "commit_capture", insert_error |-> "commit_error",
                update_run   |-> "commit_outcome", update_abort |-> "commit_abort"]

\* Mutant: append_event leaves its commit to a later one.
StatementReturnsUncommitted(t) ==
    /\ pc[t] \in DOMAIN CommitAfter
    /\ Resumed(t, pc[t])
    /\ IF pc[t] = "insert_event"
       THEN GoTo(t, "drive") /\ UNCHANGED queue
       ELSE Await(t, CommitAfter[pc[t]], "commit")
    /\ UNCHANGED <<store, run, rowid, result, cancelled, hub, process>>

\* Mutant: append_event publishes, then commits.
StatementReturnsPublished(t) ==
    /\ pc[t] \in DOMAIN CommitAfter
    /\ Resumed(t, pc[t])
    /\ Await(t, CommitAfter[pc[t]], "commit")
    /\ IF pc[t] = "insert_event" THEN Publish(t) ELSE UNCHANGED hub
    /\ UNCHANGED <<store, run, rowid, result, cancelled, process>>

StatementReturns(t) ==
    /\ pc[t] \in DOMAIN CommitAfter
    /\ Resumed(t, pc[t])
    /\ Await(t, CommitAfter[pc[t]], "commit")
    /\ UNCHANGED <<store, run, rowid, result, cancelled, hub, process>>

\* Mutant: the event goes through append_event, with a commit of its own.
CaptureRowNextCommits(t) ==
    /\ Resumed(t, "insert_capture")
    /\ GoTo(t, "insert_prey")
    /\ queue' = [queue EXCEPT ![t] = <<"commit", "insert_prey">>]
    /\ UNCHANGED <<store, run, rowid, result, cancelled, hub, process>>

\* capture_prey's first INSERT returned: submit the second, no commit between.
CaptureRowNext(t) ==
    /\ Resumed(t, "insert_capture")
    /\ Await(t, "insert_prey", "insert_prey")
    /\ UNCHANGED <<store, run, rowid, result, cancelled, hub, process>>

RunStarted(t) ==
    /\ Resumed(t, "commit_run")
    /\ GoTo(t, "drive")
    /\ UNCHANGED <<store, queue, run, rowid, result, cancelled, hub, process>>

(* The brain or a tool answered and _drive, _run_tool, _call_brain or the  *)
(* thinking sink appends one event.                                        *)
Record(t) ==
    /\ Resumed(t, "drive")
    /\ Len(txn.log) < MaxLog
    /\ Await(t, "insert_event", "insert_step")
    /\ UNCHANGED <<store, run, rowid, result, cancelled, hub, process>>

\* HuntComplete with a posting to capture.
Capture(t) ==
    /\ Resumed(t, "drive")
    /\ Len(txn.log) < MaxLog
    /\ Await(t, "insert_capture", "insert_capture")
    /\ UNCHANGED <<store, run, rowid, result, cancelled, hub, process>>

\* _drive returned: empty catch, NeedsHelp, or an abort reason.
Conclude(t) ==
    /\ Resumed(t, "drive")
    /\ \E o \in {"completed", "needs_help", "aborted"} : FinishRun(t, o)
    /\ UNCHANGED <<store, run, rowid, cancelled, hub, process>>

\* _drive raised: BrainParseError or anything unforeseen.
DriveRaises(t) ==
    /\ Resumed(t, "drive")
    /\ Await(t, "insert_error", "insert_step")
    /\ UNCHANGED <<store, run, rowid, result, cancelled, hub, process>>

EventCommitted(t) ==
    /\ Resumed(t, "commit_event")
    /\ Publish(t)
    /\ GoTo(t, "drive")
    /\ UNCHANGED <<store, queue, run, rowid, result, cancelled, process>>

\* Mutant: the second trajectory writer does not publish.
CaptureCommittedSilent(t) ==
    /\ Resumed(t, "commit_capture")
    /\ \/ /\ Len(txn.log) < MaxLog
          /\ Await(t, "insert_capture", "insert_capture")
          /\ UNCHANGED result
       \/ FinishRun(t, "completed")
    /\ UNCHANGED <<store, run, rowid, cancelled, hub, process>>

\* ... and the next posting of the catch, or the end of the hunt.
CaptureCommitted(t) ==
    /\ Resumed(t, "commit_capture")
    /\ Publish(t)
    /\ \/ /\ Len(txn.log) < MaxLog
          /\ Await(t, "insert_capture", "insert_capture")
          /\ UNCHANGED result
       \/ FinishRun(t, "completed")
    /\ UNCHANGED <<store, run, rowid, cancelled, process>>

\* Mutant: the error handler returns instead of falling through.
ErrorCommittedReturns(t) ==
    /\ Resumed(t, "commit_error")
    /\ Publish(t)
    /\ Await(t, "close", "close")
    /\ UNCHANGED <<store, run, rowid, result, cancelled, process>>

ErrorCommitted(t) ==
    /\ Resumed(t, "commit_error")
    /\ Publish(t)
    /\ FinishRun(t, "aborted")
    /\ UNCHANGED <<store, run, rowid, cancelled, process>>

OutcomeCommitted(t) ==
    /\ Resumed(t, "commit_outcome")
    /\ pulsed' = pulsed \cup {run[t]}
    /\ Await(t, "close", "close")
    /\ UNCHANGED <<store, run, rowid, result, cancelled, published, process>>

\* Mutant: no shield, the cancellation goes on while the commit is pending.
AbortUnshielded(t) ==
    /\ Alive /\ pc[t] = "commit_abort"
    /\ Await(t, "unwind", "close")
    /\ UNCHANGED <<store, run, rowid, result, cancelled, hub, process>>

\* The shielded finish_run is done: the cancellation goes on to the close.
AbortCommitted(t) ==
    /\ Resumed(t, "commit_abort")
    /\ Await(t, "unwind", "close")
    /\ UNCHANGED <<store, run, rowid, result, cancelled, hub, process>>

\* The connection is closed: back to sleep, or out of a cancelled task.
Closed(t) ==
    /\ \/ Resumed(t, "close") /\ GoTo(t, "sleep")
       \/ Resumed(t, "unwind") /\ GoTo(t, "ended")
    /\ run' = [run EXCEPT ![t] = None]
    /\ UNCHANGED <<store, queue, rowid, result, cancelled, hub, process>>

Drive(t) == Record(t) \/ Capture(t) \/ Conclude(t) \/ DriveRaises(t)

Resume(t) == \/ StatementReturns(t) \/ CaptureRowNext(t) \/ RunStarted(t)
             \/ EventCommitted(t) \/ CaptureCommitted(t) \/ ErrorCommitted(t)
             \/ OutcomeCommitted(t) \/ AbortCommitted(t) \/ Closed(t)

-----------------------------------------------------------------------------
(* A statement that fails in the thread: database is locked past the busy  *)
(* timeout, disk full.  Its own effect is undone, its transaction stays.   *)

Failing(t) == /\ Alive /\ faults < MaxFaults
              /\ queue[t] # <<>> /\ Head(queue[t]) \in Writes
              /\ faults' = faults + 1

\* The task that awaited the call was cancelled: nobody hears of it.
FailUnheard(t) ==
    /\ Failing(t) /\ Len(queue[t]) > 1
    /\ Pop(t)
    /\ UNCHANGED <<store, task, hub, daemon, bootHead, boots>>

\* The exception reaches run_hunt's backstop, which appends an ErrorEvent.
FailInTry(t) ==
    /\ Failing(t) /\ Len(queue[t]) = 1 /\ pc[t] \in InTry
    /\ GoTo(t, "insert_error")
    /\ queue' = [queue EXCEPT ![t] = <<"insert_step">>]
    /\ UNCHANGED <<store, run, rowid, result, cancelled, hub, daemon, bootHead, boots>>

\* Outside the try, or in the shielded cleanup, where it takes the place of
\* CancelledError: _bounded_hunt logs it, closes and returns to the loop.
FailEscapes(t) ==
    /\ Failing(t) /\ Len(queue[t]) = 1
    /\ pc[t] \in {"insert_run", "insert_error", "update_run", "update_abort"}
    /\ GoTo(t, "close")
    /\ queue' = [queue EXCEPT ![t] = <<"close">>]
    /\ UNCHANGED <<store, run, rowid, result, cancelled, hub, daemon, bootHead, boots>>

Fail(t) == FailUnheard(t) \/ FailInTry(t) \/ FailEscapes(t)

-----------------------------------------------------------------------------
(* The process: graceful shutdown, kill -9, boot.                          *)

\* The lifespan's finally cancels the scheduler, then waits for it.
Stop ==
    /\ GracefulStop /\ daemon = "running"
    /\ daemon' = "stopping"
    /\ UNCHANGED <<store, queue, task, hub, bootHead, boots, faults>>

\* Mutant: _bounded_hunt swallows CancelledError with the other exceptions.
CancelSwallowed(t) ==
    /\ daemon = "stopping" /\ t \notin cancelled
    /\ cancelled' = cancelled \cup {t}
    /\ \/ /\ pc[t] = "sleep"
          /\ GoTo(t, "ended")
          /\ UNCHANGED <<queue, result>>
       \/ /\ pc[t] \in InTry
          /\ Await(t, "update_abort", "update_run")
          /\ result' = [result EXCEPT ![t] = "shutdown"]
       \/ /\ pc[t] \in Unprotected
          /\ Await(t, "close", "close")
          /\ UNCHANGED result
       \/ /\ pc[t] = "close"
          /\ GoTo(t, "unwind")
          /\ UNCHANGED <<queue, result>>
    /\ UNCHANGED <<store, run, rowid, hub, process>>

(* The task group cancels each child once.  The call the task was awaiting *)
(* stays with the thread; CancelledError is raised at the await.           *)
Cancel(t) ==
    /\ daemon = "stopping" /\ t \notin cancelled
    /\ cancelled' = cancelled \cup {t}
    /\ \/ /\ pc[t] = "sleep"
          /\ GoTo(t, "ended")
          /\ UNCHANGED <<queue, result>>
       \/ /\ pc[t] \in InTry
          /\ Await(t, "update_abort", "update_run")
          /\ result' = [result EXCEPT ![t] = "shutdown"]
       \/ /\ pc[t] \in Unprotected
          /\ Await(t, "unwind", "close")
          /\ UNCHANGED result
       \/ /\ pc[t] = "close"
          /\ GoTo(t, "unwind")
          /\ UNCHANGED <<queue, result>>
    /\ UNCHANGED <<store, run, rowid, hub, process>>

\* Every child ended, the drained lifespan returns and the process exits.
Off ==
    /\ daemon = "stopping"
    /\ \A t \in Territories : pc[t] = "ended"
    /\ daemon' = "stopped"
    /\ UNCHANGED <<store, queue, task, hub, bootHead, boots, faults>>

\* kill -9: SQLite keeps the committed file, everything else is gone.
Crash ==
    /\ Alive /\ boots < MaxBoots
    /\ daemon' = "crashed"
    /\ txn' = db /\ writer' = None
    /\ queue' = [t \in Territories |-> <<>>]
    /\ pc' = [t \in Territories |-> "ended"]
    /\ run' = [t \in Territories |-> None]
    /\ UNCHANGED <<db, rowid, result, cancelled, hub, bootHead, boots, faults>>

\* Mutant: the sweep without WHERE outcome IS NULL.
BootSweepsAll ==
    /\ daemon \in {"stopped", "crashed"} /\ boots < MaxBoots
    /\ boots' = boots + 1
    /\ db' = [db EXCEPT !.runs = [r \in RunIds |->
                  IF db.runs[r] = "absent" THEN "absent" ELSE "crashed"]]
    /\ txn' = db'
    /\ daemon' = "running"
    /\ pc' = [t \in Territories |-> "sleep"]
    /\ cancelled' = {}
    /\ published' = <<>> /\ pulsed' = {}
    /\ bootHead' = Len(db.log)
    /\ UNCHANGED <<writer, queue, run, rowid, result, faults>>

\* mark_crashed_runs on a connection of its own, then the scheduler starts.
Boot ==
    /\ daemon \in {"stopped", "crashed"} /\ boots < MaxBoots
    /\ boots' = boots + 1
    /\ db' = [db EXCEPT !.runs = [r \in RunIds |->
                  IF db.runs[r] = "open" THEN "crashed" ELSE db.runs[r]]]
    /\ txn' = db'
    /\ daemon' = "running"
    /\ pc' = [t \in Territories |-> "sleep"]
    /\ cancelled' = {}
    /\ published' = <<>> /\ pulsed' = {}
    /\ bootHead' = Len(db.log)
    /\ UNCHANGED <<writer, queue, run, rowid, result, faults>>

Next == \/ Stop \/ Off \/ Crash \/ Boot
        \/ \E t \in Territories :
              Execute(t) \/ Launch(t) \/ Drive(t) \/ Resume(t) \/ Fail(t) \/ Cancel(t)

(* The threads run, the event loop resumes a task whose call returned and  *)
(* delivers a cancellation; nothing obliges a brain to answer or a hunt to *)
(* be launched.                                                            *)
Fairness == /\ WF_vars(Off)
            /\ \A t \in Territories : /\ WF_vars(Execute(t))
                                      /\ WF_vars(Resume(t))
                                      /\ WF_vars(Cancel(t))

Spec     == Init /\ [][Next]_vars
FairSpec == Spec /\ Fairness

-----------------------------------------------------------------------------
(* Type invariant: the values every variable ranges over.                  *)
TypeOK ==
    /\ db \in Store /\ txn \in Store
    /\ writer \in Territories \cup {None}
    /\ queue \in [Territories -> Seq(Calls)]
    /\ pc \in [Territories -> Awaits]
    /\ run \in [Territories -> RunIds \cup {None}]
    /\ rowid \in [Territories -> Nat]
    /\ result \in [Territories -> Outcomes]
    /\ cancelled \subseteq Territories
    /\ daemon \in {"running", "stopping", "stopped", "crashed"}
    /\ published \in Seq(Nat) /\ pulsed \subseteq RunIds
    /\ bootHead \in Nat /\ boots \in Nat /\ faults \in Nat

(* Invariant 7 (db.APPEND_EVENT_SQL): in the committed log the events of   *)
(* each run carry seq 0, 1, 2, ... in id order, whatever other hunts, half *)
(* executed transactions and rollbacks came between.                       *)
Gapless(log, r) ==
    \E n \in 0..Len(log) :
        /\ \A i \in DOMAIN log : log[i].run = r => log[i].seq < n
        /\ \A s \in 0..(n-1) : \E i \in DOMAIN log : log[i].run = r /\ log[i].seq = s
        /\ \A i, j \in DOMAIN log :
              /\ i < j
              /\ log[i].run = r /\ log[j].run = r
              => log[i].seq < log[j].seq

SeqGapless == \A r \in RunIds : Gapless(db.log, r)

(* Invariant 1, write-ahead (db.append_event, run_hunt's notify): no       *)
(* viewer hears of an event that is not committed, nor of the end of a run *)
(* whose outcome is not, not even when tasks are cancelled, statements     *)
(* fail or a task publishes the rowid of an earlier transaction.           *)
WriteAhead ==
    /\ \A k \in DOMAIN published : published[k] \in (bootHead + 1)..Len(db.log)
    /\ \A r \in pulsed : db.runs[r] \in Outcomes

(* A transaction is short: no hunt keeps the write lock while it waits for *)
(* its brain or a tool, or while it sleeps, where it would starve every    *)
(* other writer past the busy timeout (db.append_event, capture_prey).     *)
NoLockAcrossThink ==
    \A t \in Territories : pc[t] \in {"drive", "sleep", "ended"} => writer # t

(* The hub hears of every event committed since boot (append_event and     *)
(* capture_prey publish after their commit) unless its hunt is between the *)
(* commit and the publish.  Stated for a daemon that no fault and no       *)
(* shutdown disturbs.                                                      *)
EveryCommitReachesHub ==
    daemon = "running" /\ faults = 0 =>
        \A id \in (bootHead + 1)..Len(db.log) :
            \/ \E k \in DOMAIN published : published[k] = id
            \/ \E t \in Territories :
                  /\ pc[t] \in {"commit_event", "commit_capture", "commit_error"}
                  /\ queue[t] = <<>> /\ rowid[t] = id

(* verdicts.capture_prey, "the log and the pen never disagree about a      *)
(* capture": a committed PreyCapturedEvent has its prey row and a prey row *)
(* its event.                                                              *)
Captures == {i \in DOMAIN db.log : db.log[i].kind = "capture"}

CaptureAtomic == Captures = db.prey

(* What does hold of it: a crash never splits a capture and no prey row    *)
(* comes without its event; an event without its row is left only by a     *)
(* hunt that the shutdown aborted or, where a statement failed and the     *)
(* backstop's commit made the half durable, by one that never is recorded  *)
(* as a success.                                                           *)
Successes == {"completed", "needs_help"}

CaptureSplitOnlyByAbort ==
    /\ db.prey \subseteq Captures
    /\ \A i \in Captures \ db.prey :
          \/ db.runs[db.log[i].run] = "shutdown"
          \/ faults > 0 /\ db.runs[db.log[i].run] \notin Successes

(* server.snapshot_state lists the rows with outcome NULL as open runs:    *)
(* while the daemon serves, a hunt is at work on each, but for one that a  *)
(* failing finish_run left behind per failed statement, and there are      *)
(* never more of them than slots and such failures.                        *)
OpenRunsAreHunts ==
    daemon = "running" =>
        LET open == {r \in RunIds : db.runs[r] = "open"}
            left == {r \in open : \A t \in Hunting : run[t] = r => pc[t] = "close"}
        IN  /\ Cardinality(left) <= faults
            /\ Cardinality(open) <= MaxConcurrent + faults

(* server.lifespan: after a graceful shutdown no run is left with outcome  *)
(* NULL, which the next boot would record as crashed.                      *)
NoRunLeftOpen ==
    daemon = "stopped" => \A r \in RunIds : db.runs[r] # "open"

(* run_hunt's shielded cleanup: when it hands the cancellation on, the run *)
(* is committed as aborted by the shutdown, whatever statement or commit   *)
(* the cancellation interrupted and whatever failed on the way.            *)
CleanupCloses ==
    [][\A t \in Territories :
          pc[t] = "commit_abort" /\ pc'[t] = "unwind"
          => db.runs[run[t]] = "shutdown"]_vars

(* server.lifespan, scheduler: cancelling the daemon drains it; every hunt *)
(* ends and the process exits, even if a hunt starts at the last moment.   *)
Drains == daemon = "stopping" ~> daemon = "stopped"

(* The committed file behaves as TrajectoryLog promises: append-only,      *)
(* events only for open runs, outcomes written once.                       *)
Promise == INSTANCE TrajectoryLog WITH
    log  <- [i \in DOMAIN db.log |-> [run |-> db.log[i].run, seq |-> db.log[i].seq]],
    runs <- db.runs

ImplementsLog == Promise!Spec
=============================================================================
