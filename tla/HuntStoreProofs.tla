--------------------------- MODULE HuntStoreProofs ---------------------------
(***************************************************************************)
(* Theorems of HuntStore, for every set of territories and run ids and     *)
(* every bound.  The inductive invariant IInv adds to TypeOK what it takes *)
(* to type a row: the transaction in progress numbers its events as        *)
(* gaplessly as the committed log, and a connection with calls to execute  *)
(* belongs to a hunt that knows its run.  The parts after it build on IInv: *)
(* what each await of a task implies, and what the readers of the pen, of  *)
(* the run table and of the hub can count on.                              *)
(***************************************************************************)
EXTENDS HuntStore, FiniteSetTheorems, TLAPS

(* Gapless numbering up to n, the witness of Gapless named.                *)
Numbered(log, r, n) ==
    /\ \A i \in DOMAIN log : log[i].run = r => log[i].seq < n
    /\ \A s \in 0..(n-1) : \E i \in DOMAIN log : log[i].run = r /\ log[i].seq = s
    /\ \A i, j \in DOMAIN log :
          /\ i < j
          /\ log[i].run = r /\ log[j].run = r
          => log[i].seq < log[j].seq

(* APPEND_EVENT_SQL's scoped COALESCE(MAX(seq) + 1, 0) is the number of    *)
(* the run's next event.                                                   *)
LEMMA NextSeqIsNext ==
    ASSUME NEW log \in Seq(Row), NEW r \in RunIds, NEW n \in Nat,
           Numbered(log, r, n)
    PROVE  NextSeq(log, r) = n
<1> DEFINE seqs == {log[i].seq : i \in {j \in DOMAIN log : log[j].run = r}}
<1>1. seqs = 0..(n-1)
  <2>1. ASSUME NEW i \in DOMAIN log, log[i].run = r
        PROVE  log[i].seq \in 0..(n-1)
    <3>1. log[i] \in Row
      OBVIOUS
    <3> QED BY <2>1, <3>1 DEF Numbered, Row
  <2>2. ASSUME NEW s \in 0..(n-1)
        PROVE  \E i \in DOMAIN log : log[i].run = r /\ log[i].seq = s
    BY DEF Numbered
  <2> QED BY <2>1, <2>2
<1>2. NextSeq(log, r) = IF seqs = {} THEN 0 ELSE Max(seqs) + 1
  BY DEF NextSeq
<1> HIDE DEF seqs
<1>4. CASE n = 0
  BY <1>1, <1>2, <1>4
<1>3. CASE n > 0
  <2>1. n - 1 \in seqs
    BY <1>1, <1>3
  <2>2. \A y \in seqs : n - 1 >= y
    BY <1>1, <1>3
  <2>3. Max(seqs) \in seqs /\ \A y \in seqs : Max(seqs) >= y
    BY <2>1, <2>2 DEF Max
  <2>4. Max(seqs) = n - 1
    BY <2>1, <2>2, <2>3, <1>1
  <2> QED BY <2>1, <2>4, <1>2
<1> QED BY <1>3, <1>4

(* Appending an event numbered that way keeps every run gapless.           *)
LEMMA AppendGapless ==
    ASSUME NEW log \in Seq(Row), NEW q \in RunIds, NEW kind \in Kinds,
           \A r \in RunIds : Gapless(log, r)
    PROVE  LET row == [run |-> q, seq |-> NextSeq(log, q), kind |-> kind]
           IN  /\ row \in Row
               /\ \A r \in RunIds : Gapless(Append(log, row), r)
<1>1. PICK n \in 0..Len(log) : Numbered(log, q, n)
  BY DEF Gapless, Numbered
<1>2. NextSeq(log, q) = n
  BY <1>1, NextSeqIsNext
<1> DEFINE row == [run |-> q, seq |-> n, kind |-> kind]
           new == Append(log, row)
<1>3. row \in Row /\ row.run = q /\ row.seq = n
  BY DEF Row
<1>4. /\ Len(new) = Len(log) + 1 /\ DOMAIN new = 1..(Len(log) + 1)
      /\ DOMAIN log = 1..Len(log) /\ Len(log) \in Nat
      /\ new[Len(log) + 1] = row
      /\ \A i \in DOMAIN log : new[i] = log[i] /\ log[i] \in Row
  BY <1>3
<1> HIDE DEF row, new
<1>5. ASSUME NEW r \in RunIds
      PROVE  Gapless(new, r)
  <2>1. PICK m \in 0..Len(log) : Numbered(log, r, m)
    BY DEF Gapless, Numbered
  <2>2. CASE r = q
    <3>1. \A i \in DOMAIN new : new[i].run = r => new[i].seq < n + 1
      BY <1>1, <1>3, <1>4, <2>2 DEF Numbered, Row
    <3>2. \A s \in 0..n : \E i \in DOMAIN new : new[i].run = r /\ new[i].seq = s
      <4>1. ASSUME NEW s \in 0..n
            PROVE  \E i \in DOMAIN new : new[i].run = r /\ new[i].seq = s
        <5>1. CASE s = n
          BY <1>3, <1>4, <2>2, <5>1
        <5>2. CASE s # n
          <6>1. PICK i \in DOMAIN log : log[i].run = q /\ log[i].seq = s
            BY <1>1, <5>2 DEF Numbered
          <6> QED BY <6>1, <1>4, <2>2
        <5> QED BY <5>1, <5>2
      <4> QED BY <4>1
    <3>3. ASSUME NEW i \in DOMAIN new, NEW j \in DOMAIN new,
                 i < j, new[i].run = r, new[j].run = r
          PROVE  new[i].seq < new[j].seq
      <4>1. i \in DOMAIN log
        BY <1>4, <3>3
      <4>2. CASE j \in DOMAIN log
        BY <1>1, <1>4, <2>2, <3>3, <4>1, <4>2 DEF Numbered
      <4>3. CASE j = Len(log) + 1
        BY <1>1, <1>3, <1>4, <2>2, <3>3, <4>1, <4>3 DEF Numbered
      <4> QED BY <4>2, <4>3, <1>4
    <3>4. n + 1 \in 0..Len(new)
      BY <1>4
    <3>5. Numbered(new, r, n + 1)
      BY <3>1, <3>2, <3>3 DEF Numbered
    <3> QED BY <3>4, <3>5 DEF Gapless, Numbered
  <2>3. CASE r # q
    <3>1. \A i \in DOMAIN new : new[i].run = r => i \in DOMAIN log
      BY <1>3, <1>4, <2>3
    <3>2. m \in 0..Len(new)
      BY <1>4
    <3>3. \A i \in DOMAIN new : new[i].run = r => new[i].seq < m
      BY <1>4, <2>1, <3>1 DEF Numbered
    <3>4. \A s \in 0..(m-1) : \E i \in DOMAIN new : new[i].run = r /\ new[i].seq = s
      BY <1>4, <2>1 DEF Numbered
    <3>5. \A i, j \in DOMAIN new :
             /\ i < j
             /\ new[i].run = r /\ new[j].run = r
             => new[i].seq < new[j].seq
      BY <1>4, <2>1, <3>1 DEF Numbered
    <3> QED BY <3>2, <3>3, <3>4, <3>5 DEF Gapless
  <2> QED BY <2>2, <2>3
<1> QED BY <1>2, <1>3, <1>5 DEF row, new

-----------------------------------------------------------------------------
(* A task without a hunt has no call under way; any other knows its run.   *)
RunKnown ==
    \A t \in Territories :
        IF pc[t] \in {"sleep", "ended"} THEN queue[t] = <<>> ELSE run[t] \in RunIds

TxnGapless == \A r \in RunIds : Gapless(txn.log, r)

(* A process that is down has no task left.                                *)
DownIsEnded ==
    daemon \in {"stopped", "crashed"} => \A t \in Territories : pc[t] = "ended"

IInv == TypeOK /\ RunKnown /\ DownIsEnded /\ TxnGapless /\ SeqGapless

(* The initial state is typed and its empty log gapless.                   *)
LEMMA InitIInv == Init => IInv
<1> SUFFICES ASSUME Init PROVE IInv
  OBVIOUS
<1>1. /\ db.log = <<>> /\ db.runs = [r \in RunIds |-> "absent"] /\ db.prey = {}
      /\ db = [log |-> db.log, runs |-> db.runs, prey |-> db.prey]
      /\ txn = db
  BY DEF Init
<1>2. db \in Store /\ txn \in Store
  <2>1. <<>> \in Seq(Row) /\ [r \in RunIds |-> "absent"] \in [RunIds -> Status]
    BY DEF Status
  <2>2. [log |-> db.log, runs |-> db.runs, prey |-> db.prey] \in Store
    BY <1>1, <2>1 DEF Store
  <2> QED BY <1>1, <2>2
<1>3. TypeOK
  BY <1>2, HuntStoreAssumption DEF Init, TypeOK, Awaits, Outcomes
<1>4. RunKnown
  BY DEF Init, RunKnown
<1>5. \A r \in RunIds : Gapless(<<>>, r)
  BY DEF Gapless
<1>6. TxnGapless /\ SeqGapless
  BY <1>1, <1>5 DEF TxnGapless, SeqGapless
<1>7. DownIsEnded
  BY DEF Init, DownIsEnded
<1> QED BY <1>3, <1>4, <1>6, <1>7 DEF IInv

(* Popping or appending a call keeps a connection's queue a sequence of    *)
(* calls.                                                                  *)
LEMMA QueueTyped ==
    ASSUME NEW q \in [Territories -> Seq(Calls)], NEW t \in Territories
    PROVE  /\ q[t] # <<>> => [q EXCEPT ![t] = Tail(@)] \in [Territories -> Seq(Calls)]
           /\ \A op \in Calls : [q EXCEPT ![t] = Append(@, op)] \in [Territories -> Seq(Calls)]
           /\ \A op \in Calls : [q EXCEPT ![t] = <<op>>] \in [Territories -> Seq(Calls)]
<1>1. q[t] \in Seq(Calls)
  OBVIOUS
<1>2. q[t] # <<>> => Tail(q[t]) \in Seq(Calls)
  BY <1>1
<1>3. \A op \in Calls : Append(q[t], op) \in Seq(Calls) /\ <<op>> \in Seq(Calls)
  BY <1>1
<1> QED BY <1>2, <1>3

(* A store with another log is a store.                                    *)
LEMMA LogReplaced ==
    ASSUME NEW v \in Store, NEW l \in Seq(Row)
    PROVE  [v EXCEPT !.log = l] \in Store /\ [v EXCEPT !.log = l].log = l
BY DEF Store

(* ... and so is one with other runs, which keeps its log.                 *)
LEMMA RunsReplaced ==
    ASSUME NEW v \in Store, NEW f \in [RunIds -> Status]
    PROVE  [v EXCEPT !.runs = f] \in Store /\ [v EXCEPT !.runs = f].log = v.log
BY DEF Store

(* The same for the prey table.                                            *)
LEMMA PreyReplaced ==
    ASSUME NEW v \in Store, NEW p \in SUBSET Nat
    PROVE  [v EXCEPT !.prey = p] \in Store /\ [v EXCEPT !.prey = p].log = v.log
BY DEF Store

(* Executing one statement of a connection's thread.                       *)
LEMMA ExecuteIInv ==
    ASSUME IInv, NEW t \in Territories, Execute(t)
    PROVE  IInv'
<1> USE DEF IInv
<1>1. queue[t] # <<>> /\ queue' = [queue EXCEPT ![t] = Tail(@)] /\ UNCHANGED pc
      /\ UNCHANGED <<run, result, cancelled, hub, process>>
  BY DEF Execute, ExecInsertRun, ExecAppend, ExecInsertPrey, ExecUpdateRun,
         ExecCommit, ExecClose, Calling, Write, Pop, task
<1>2. queue' \in [Territories -> Seq(Calls)]
  BY <1>1, QueueTyped DEF TypeOK
<1>3. run[t] \in RunIds
  BY <1>1 DEF RunKnown
<1>4. RunKnown'
  BY <1>1 DEF RunKnown, TypeOK
<1>5. SUFFICES /\ db' \in Store /\ txn' \in Store
               /\ writer' \in Territories \cup {None}
               /\ rowid' \in [Territories -> Nat]
               /\ TxnGapless' /\ SeqGapless'
  BY <1>1, <1>2, <1>4 DEF TypeOK, DownIsEnded, hub, process
<1>6. /\ db \in Store /\ txn \in Store /\ rowid \in [Territories -> Nat]
      /\ txn.log \in Seq(Row) /\ txn.runs \in [RunIds -> Status]
      /\ txn.prey \in SUBSET Nat /\ result[t] \in Status /\ rowid[t] \in Nat
  BY DEF TypeOK, Store, Status
<1>7. CASE ExecInsertRun(t)
  <2>1. txn' = [txn EXCEPT !.runs = [txn.runs EXCEPT ![run[t]] = "open"]]
    BY <1>6, <1>7 DEF ExecInsertRun, Write, Store
  <2>2. txn' \in Store /\ txn'.log = txn.log
    <3>1. [txn.runs EXCEPT ![run[t]] = "open"] \in [RunIds -> Status]
      BY <1>6 DEF Status
    <3> QED BY <1>6, <2>1, <3>1, RunsReplaced
  <2> QED BY <1>6, <1>7, <2>1, <2>2 DEF ExecInsertRun, Write, TypeOK, TxnGapless, SeqGapless
<1>8. ASSUME NEW kind \in Kinds, ExecAppend(t, kind)
      PROVE  /\ db' \in Store /\ txn' \in Store
             /\ writer' \in Territories \cup {None}
             /\ rowid' \in [Territories -> Nat]
             /\ TxnGapless' /\ SeqGapless'
  <2> DEFINE row == [run |-> run[t], seq |-> NextSeq(txn.log, run[t]), kind |-> kind]
  <2>1. row \in Row /\ \A r \in RunIds : Gapless(Append(txn.log, row), r)
    BY <1>3, <1>6, AppendGapless DEF TxnGapless
  <2>2. txn' = [txn EXCEPT !.log = Append(txn.log, row)]
    BY <1>6, <1>8 DEF ExecAppend, Write, Store
  <2> HIDE DEF row
  <2>3. txn' \in Store /\ txn'.log = Append(txn.log, row)
    <3>1. Append(txn.log, row) \in Seq(Row)
      BY <1>6, <2>1
    <3> QED BY <1>6, <2>2, <3>1, LogReplaced
  <2>4. rowid' \in [Territories -> Nat]
    BY <1>6, <1>8 DEF ExecAppend
  <2> QED BY <1>8, <2>1, <2>3, <2>4 DEF ExecAppend, Write, TypeOK, TxnGapless, SeqGapless
<1>9. CASE ExecInsertPrey(t)
  <2>1. txn' = [txn EXCEPT !.prey = txn.prey \cup {rowid[t]}]
    BY <1>6, <1>9 DEF ExecInsertPrey, Write, Store
  <2>2. txn' \in Store /\ txn'.log = txn.log
    <3>1. txn.prey \cup {rowid[t]} \in SUBSET Nat
      BY <1>6
    <3> QED BY <1>6, <2>1, <3>1, PreyReplaced
  <2> QED BY <1>6, <1>9, <2>2 DEF ExecInsertPrey, Write, TypeOK, TxnGapless, SeqGapless
<1>10. CASE ExecUpdateRun(t)
  <2>1. \/ txn' = [txn EXCEPT !.runs = [txn.runs EXCEPT ![run[t]] = result[t]]]
        \/ txn' = txn
    BY <1>6, <1>10 DEF ExecUpdateRun, Write, Store
  <2>2. txn' \in Store /\ txn'.log = txn.log
    <3>1. [txn.runs EXCEPT ![run[t]] = result[t]] \in [RunIds -> Status]
      BY <1>6
    <3> QED BY <1>6, <2>1, <3>1, RunsReplaced
  <2> QED BY <1>6, <1>10, <2>2 DEF ExecUpdateRun, Write, TypeOK, TxnGapless, SeqGapless
<1>11. CASE ExecCommit(t)
  BY <1>11 DEF ExecCommit, TypeOK, TxnGapless, SeqGapless, task
<1>12. CASE ExecClose(t)
  BY <1>12 DEF ExecClose, TypeOK, TxnGapless, SeqGapless, task
<1> QED BY <1>7, <1>8, <1>9, <1>10, <1>11, <1>12 DEF Execute

(* What a step of a task alone has to keep.                                *)
TaskTyped ==
    /\ queue \in [Territories -> Seq(Calls)]
    /\ pc \in [Territories -> Awaits]
    /\ run \in [Territories -> RunIds \cup {None}]
    /\ result \in [Territories -> Outcomes]
    /\ cancelled \subseteq Territories
    /\ published \in Seq(Nat) /\ pulsed \subseteq RunIds
    /\ RunKnown

(* The task moves from an await with a hunt to another one, and its        *)
(* connection has a new queue.                                             *)
LEMMA Moves ==
    ASSUME IInv, NEW t \in Territories,
           NEW a \in Awaits \ {"sleep", "ended"}, NEW q \in Seq(Calls),
           run[t] \in RunIds, UNCHANGED run,
           GoTo(t, a), queue' = [queue EXCEPT ![t] = q]
    PROVE  /\ queue' \in [Territories -> Seq(Calls)]
           /\ pc' \in [Territories -> Awaits]
           /\ run' \in [Territories -> RunIds \cup {None}]
           /\ RunKnown'
BY DEF IInv, TypeOK, RunKnown, GoTo

(* What a task does between two awaits.                                    *)
LEMMA ResumeIInv ==
    ASSUME IInv, NEW t \in Territories, Launch(t) \/ Drive(t) \/ Resume(t)
    PROVE  TaskTyped'
<1> USE DEF IInv
<1>1. queue[t] \in Seq(Calls) /\ queue[t] = <<>>
  BY DEF TypeOK, Launch, Drive, Resume, Record, Capture, Conclude, DriveRaises,
         StatementReturns, CaptureRowNext, RunStarted, EventCommitted,
         CaptureCommitted, ErrorCommitted, OutcomeCommitted, AbortCommitted,
         Closed, Resumed
<1>2. \A op \in Calls : Append(queue[t], op) \in Seq(Calls)
  BY <1>1
<1>3. pc[t] \notin {"sleep", "ended"} => run[t] \in RunIds
  BY DEF RunKnown
<1>4. /\ run \in [Territories -> RunIds \cup {None}]
      /\ result \in [Territories -> Outcomes]
      /\ cancelled \subseteq Territories
      /\ published \in Seq(Nat) /\ pulsed \subseteq RunIds
      /\ rowid[t] \in Nat /\ pc \in [Territories -> Awaits]
      /\ queue \in [Territories -> Seq(Calls)]
  BY DEF TypeOK
<1>5. CASE Launch(t)
  <2>1. PICK r \in RunIds : run' = [run EXCEPT ![t] = r]
    BY <1>5 DEF Launch
  <2>2. /\ pc' = [pc EXCEPT ![t] = "insert_run"]
        /\ queue' = [queue EXCEPT ![t] = Append(@, "insert_run")]
        /\ UNCHANGED <<result, cancelled, published, pulsed>>
    BY <1>5 DEF Launch, Await, GoTo, Submit, hub
  <2>3. "insert_run" \in Awaits /\ "insert_run" \in Calls
    BY DEF Awaits, Unprotected, Calls, Writes
  <2>4. RunKnown'
    BY <1>4, <2>1, <2>2 DEF RunKnown
  <2> QED BY <1>2, <1>4, <2>1, <2>2, <2>3, <2>4 DEF TaskTyped
<1>6. ASSUME NEW a \in Awaits \ {"sleep", "ended"}, NEW op \in Calls,
             Await(t, a, op) \/ (GoTo(t, a) /\ UNCHANGED queue),
             run[t] \in RunIds, UNCHANGED run
      PROVE  /\ queue' \in [Territories -> Seq(Calls)]
             /\ pc' \in [Territories -> Awaits]
             /\ run' \in [Territories -> RunIds \cup {None}]
             /\ RunKnown'
  <2>1. CASE Await(t, a, op)
    <3>1. GoTo(t, a) /\ queue' = [queue EXCEPT ![t] = Append(queue[t], op)]
      BY <2>1 DEF Await, Submit
    <3> QED BY <1>2, <1>6, <3>1, Moves
  <2>2. CASE GoTo(t, a) /\ UNCHANGED queue
    <3>1. queue' = [queue EXCEPT ![t] = queue[t]]
      BY <1>4, <2>2
    <3> QED BY <1>1, <1>6, <2>2, <3>1, Moves
  <2> QED BY <1>6, <2>1, <2>2
<1>7. Publish(t) => published' \in Seq(Nat) /\ pulsed' = pulsed
  BY <1>4 DEF Publish
<1>8. \A o \in Outcomes : FinishRun(t, o) => /\ Await(t, "update_run", "update_run")
                                            /\ result' \in [Territories -> Outcomes]
  BY <1>4 DEF FinishRun
<1> HIDE DEF IInv
<1> USE DEF TaskTyped
<1>9. CASE Record(t) \/ Capture(t) \/ DriveRaises(t)
  <2>1. /\ Await(t, "insert_event", "insert_step")
           \/ Await(t, "insert_capture", "insert_capture")
           \/ Await(t, "insert_error", "insert_step")
        /\ pc[t] = "drive"
        /\ UNCHANGED <<run, result, cancelled, published, pulsed>>
    BY <1>9 DEF Record, Capture, DriveRaises, Resumed, hub
  <2> QED BY <1>3, <1>4, <1>6, <2>1 DEF Awaits, InTry, Unprotected, Calls, Writes
<1>10. CASE Conclude(t)
  <2>1. PICK o \in Outcomes : FinishRun(t, o)
    BY <1>10 DEF Conclude, Outcomes
  <2>2. pc[t] = "drive" /\ UNCHANGED <<run, cancelled, published, pulsed>>
    BY <1>10 DEF Conclude, Resumed, hub
  <2> QED BY <1>3, <1>4, <1>6, <1>8, <2>1, <2>2 DEF Awaits, Unprotected, Calls, Writes
<1>11. CASE StatementReturns(t)
  <2>1. /\ pc[t] \in DOMAIN CommitAfter /\ Await(t, CommitAfter[pc[t]], "commit")
        /\ UNCHANGED <<run, result, cancelled, published, pulsed>>
    BY <1>11 DEF StatementReturns, hub
  <2>2. pc[t] \notin {"sleep", "ended"} /\ CommitAfter[pc[t]] \in Awaits \ {"sleep", "ended"}
    BY <2>1 DEF CommitAfter, Awaits, InTry, Unprotected
  <2> QED BY <1>3, <1>4, <1>6, <2>1, <2>2 DEF Calls
<1>12. CASE CaptureRowNext(t) \/ OutcomeCommitted(t) \/ AbortCommitted(t)
  <2>1. /\ Await(t, "insert_prey", "insert_prey")
           \/ Await(t, "close", "close") \/ Await(t, "unwind", "close")
        /\ pc[t] \in {"insert_capture", "commit_outcome", "commit_abort"}
        /\ UNCHANGED <<run, result, cancelled, published>>
        /\ pulsed' = pulsed \/ pulsed' = pulsed \cup {run[t]}
    BY <1>12 DEF CaptureRowNext, OutcomeCommitted, AbortCommitted, Resumed, hub
  <2> QED BY <1>3, <1>4, <1>6, <2>1 DEF Awaits, InTry, Unprotected, Calls, Writes
<1>13. CASE RunStarted(t) \/ EventCommitted(t)
  <2>1. /\ GoTo(t, "drive") /\ UNCHANGED <<queue, run, result, cancelled>>
        /\ pc[t] \in {"commit_run", "commit_event"}
        /\ UNCHANGED <<published, pulsed>> \/ Publish(t)
    BY <1>13 DEF RunStarted, EventCommitted, Resumed, hub
  <2> QED BY <1>3, <1>4, <1>6, <1>7, <2>1 DEF Awaits, InTry, Unprotected, Calls, Writes
<1>14. CASE CaptureCommitted(t) \/ ErrorCommitted(t)
  <2>1. /\ \/ Await(t, "insert_capture", "insert_capture") /\ UNCHANGED result
           \/ FinishRun(t, "completed") \/ FinishRun(t, "aborted")
        /\ pc[t] \in {"commit_capture", "commit_error"}
        /\ Publish(t) /\ UNCHANGED <<run, cancelled>>
    BY <1>14 DEF CaptureCommitted, ErrorCommitted, Resumed
  <2>2. {"completed", "aborted"} \subseteq Outcomes
    BY DEF Outcomes
  <2> QED BY <1>3, <1>4, <1>6, <1>7, <1>8, <2>1, <2>2
          DEF Awaits, InTry, Unprotected, Calls, Writes
<1>15. CASE Closed(t)
  <2>1. /\ GoTo(t, "sleep") \/ GoTo(t, "ended")
        /\ run' = [run EXCEPT ![t] = None]
        /\ UNCHANGED <<queue, result, cancelled, published, pulsed>>
    BY <1>15 DEF Closed, hub
  <2>2. RunKnown'
    BY <1>1, <1>4, <2>1 DEF RunKnown, GoTo, IInv
  <2> QED BY <1>4, <2>1, <2>2 DEF GoTo, Awaits
<1> QED BY <1>5, <1>9, <1>10, <1>11, <1>12, <1>13, <1>14, <1>15 DEF Drive, Resume

(* A failing statement that its task, or nobody, hears of.                 *)
LEMMA FailIInv ==
    ASSUME IInv, NEW t \in Territories, Fail(t)
    PROVE  TaskTyped'
<1>1. /\ queue[t] \in Seq(Calls) /\ queue[t] # <<>>
      /\ UNCHANGED <<run, result, cancelled, published, pulsed>>
  BY DEF IInv, TypeOK, Fail, Failing, FailUnheard, FailInTry, FailEscapes, hub, task
<1>2. run[t] \in RunIds
  BY <1>1 DEF IInv, RunKnown
<1>3. {"insert_step", "close"} \subseteq Calls
  BY DEF Calls, Writes
<1>4. CASE FailUnheard(t)
  <2>1. queue' = [queue EXCEPT ![t] = Tail(@)] /\ UNCHANGED pc
    BY <1>4 DEF FailUnheard, Pop, task
  <2>2. queue' \in [Territories -> Seq(Calls)]
    BY <1>1, <2>1, QueueTyped DEF IInv, TypeOK
  <2>3. RunKnown'
    BY <1>1, <1>2, <2>1 DEF IInv, TypeOK, RunKnown
  <2> QED BY <1>1, <2>1, <2>2, <2>3 DEF TaskTyped, IInv, TypeOK
<1>5. CASE FailInTry(t)
  <2>1. GoTo(t, "insert_error") /\ queue' = [queue EXCEPT ![t] = <<"insert_step">>]
    BY <1>5 DEF FailInTry
  <2>2. <<"insert_step">> \in Seq(Calls) /\ "insert_error" \in Awaits \ {"sleep", "ended"}
    BY <1>3 DEF Awaits, Unprotected
  <2> QED BY <1>1, <1>2, <2>1, <2>2, Moves DEF TaskTyped, IInv, TypeOK
<1>6. CASE FailEscapes(t)
  <2>1. GoTo(t, "close") /\ queue' = [queue EXCEPT ![t] = <<"close">>]
    BY <1>6 DEF FailEscapes
  <2>2. <<"close">> \in Seq(Calls) /\ "close" \in Awaits \ {"sleep", "ended"}
    BY <1>3 DEF Awaits
  <2> QED BY <1>1, <1>2, <2>1, <2>2, Moves DEF TaskTyped, IInv, TypeOK
<1> QED BY <1>4, <1>5, <1>6 DEF Fail

(* A cancellation delivered at whichever await the task is suspended.      *)
LEMMA CancelIInv ==
    ASSUME IInv, NEW t \in Territories, Cancel(t)
    PROVE  TaskTyped'
<1>1. /\ queue \in [Territories -> Seq(Calls)] /\ queue[t] \in Seq(Calls)
      /\ pc \in [Territories -> Awaits]
      /\ UNCHANGED <<run, published, pulsed>>
      /\ cancelled' \subseteq Territories
  BY DEF IInv, TypeOK, Cancel, hub
<1>2. pc[t] \notin {"sleep", "ended"} => run[t] \in RunIds
  BY DEF IInv, RunKnown
<1>3. \A op \in {"update_run", "close"} : Append(queue[t], op) \in Seq(Calls)
  BY <1>1 DEF Calls, Writes
<1>4. CASE pc[t] = "sleep" /\ GoTo(t, "ended") /\ UNCHANGED <<queue, result>>
  <2>1. RunKnown'
    BY <1>1, <1>4 DEF IInv, RunKnown, GoTo
  <2> QED BY <1>1, <1>4, <2>1 DEF TaskTyped, GoTo, Awaits, IInv, TypeOK
<1>5. CASE /\ pc[t] \in InTry /\ Await(t, "update_abort", "update_run")
           /\ result' = [result EXCEPT ![t] = "shutdown"]
  <2>1. GoTo(t, "update_abort") /\ queue' = [queue EXCEPT ![t] = Append(queue[t], "update_run")]
    BY <1>5 DEF Await, Submit
  <2>2. run[t] \in RunIds /\ "update_abort" \in Awaits \ {"sleep", "ended"}
    BY <1>2, <1>5 DEF InTry, Awaits
  <2>3. result' \in [Territories -> Outcomes]
    BY <1>5 DEF IInv, TypeOK, Outcomes
  <2> QED BY <1>1, <1>3, <2>1, <2>2, <2>3, Moves DEF TaskTyped, IInv, TypeOK
<1>6. CASE pc[t] \in Unprotected /\ Await(t, "unwind", "close") /\ UNCHANGED result
  <2>1. GoTo(t, "unwind") /\ queue' = [queue EXCEPT ![t] = Append(queue[t], "close")]
    BY <1>6 DEF Await, Submit
  <2>2. run[t] \in RunIds /\ "unwind" \in Awaits \ {"sleep", "ended"}
    BY <1>2, <1>6 DEF Unprotected, Awaits
  <2> QED BY <1>1, <1>3, <1>6, <2>1, <2>2, Moves DEF TaskTyped, IInv, TypeOK
<1>7. CASE pc[t] = "close" /\ GoTo(t, "unwind") /\ UNCHANGED <<queue, result>>
  <2>1. queue' = [queue EXCEPT ![t] = queue[t]]
    BY <1>1, <1>7
  <2>2. run[t] \in RunIds /\ "unwind" \in Awaits \ {"sleep", "ended"}
    BY <1>2, <1>7 DEF Awaits
  <2> QED BY <1>1, <1>7, <2>1, <2>2, Moves DEF TaskTyped, IInv, TypeOK
<1> QED BY <1>4, <1>5, <1>6, <1>7 DEF Cancel

(* A step of a task leaves the store alone.                                *)
LEMMA TaskIInv ==
    ASSUME IInv, NEW t \in Territories,
           Launch(t) \/ Drive(t) \/ Resume(t) \/ Fail(t) \/ Cancel(t)
    PROVE  IInv'
<1>1. TaskTyped'
  BY ResumeIInv, FailIInv, CancelIInv
<1>2. UNCHANGED <<db, txn, writer, rowid, daemon, bootHead, boots>> /\ faults' \in Nat
  <2>1. CASE Fail(t)
    BY <2>1 DEF Fail, FailUnheard, FailInTry, FailEscapes, Failing, store, task, IInv, TypeOK
  <2>2. CASE Launch(t) \/ Drive(t) \/ Cancel(t)
    BY <2>2 DEF Launch, Drive, Record, Capture, Conclude, DriveRaises, Cancel,
                store, process, IInv, TypeOK
  <2>3. CASE Resume(t)
    BY <2>3 DEF Resume, StatementReturns, CaptureRowNext, RunStarted, EventCommitted,
                CaptureCommitted, ErrorCommitted, OutcomeCommitted, AbortCommitted,
                Closed, store, process, IInv, TypeOK
  <2> QED BY <2>1, <2>2, <2>3
<1>3. daemon \notin {"stopped", "crashed"}
  BY DEF Launch, Drive, Record, Capture, Conclude, DriveRaises, Resume,
         StatementReturns, CaptureRowNext, RunStarted, EventCommitted,
         CaptureCommitted, ErrorCommitted, OutcomeCommitted, AbortCommitted,
         Closed, Resumed, Fail, FailUnheard, FailInTry, FailEscapes, Failing,
         Cancel, Alive
<1> QED BY <1>1, <1>2, <1>3
        DEF TaskTyped, IInv, TypeOK, DownIsEnded, TxnGapless, SeqGapless

(* Shutdown, crash and boot.                                               *)
LEMMA ProcessIInv ==
    ASSUME IInv, Stop \/ Off \/ Crash \/ Boot
    PROVE  IInv'
<1>1. CASE Stop \/ Off
  BY <1>1 DEF Stop, Off, store, task, hub, IInv, TypeOK, RunKnown, DownIsEnded,
              TxnGapless, SeqGapless
<1>2. CASE Crash
  <2>1. TypeOK'
    BY <1>2 DEF Crash, IInv, TypeOK, hub, Awaits
  <2> QED BY <1>2, <2>1 DEF Crash, IInv, RunKnown, DownIsEnded, TxnGapless, SeqGapless
<1>3. CASE Boot
  <2> DEFINE swept == [r \in RunIds |-> IF db.runs[r] = "open" THEN "crashed" ELSE db.runs[r]]
  <2>1. db' = [db EXCEPT !.runs = swept] /\ txn' = db'
    BY <1>3 DEF Boot
  <2>2. swept \in [RunIds -> Status] /\ db \in Store
    BY DEF IInv, TypeOK, Store, Status
  <2> HIDE DEF swept
  <2>3. db' \in Store /\ db'.log = db.log
    BY <2>1, <2>2 DEF Store
  <2>4. db.log \in Seq(Row)
    BY <2>2 DEF Store
  <2>5. TypeOK'
    BY <1>3, <2>1, <2>3, <2>4 DEF Boot, IInv, TypeOK, Awaits
  <2>6. TxnGapless' /\ SeqGapless'
    BY <2>1, <2>3 DEF IInv, TxnGapless, SeqGapless
  <2>7. RunKnown'
    <3>1. \A t \in Territories : queue[t] = <<>>
      BY <1>3 DEF Boot, IInv, DownIsEnded, RunKnown
    <3> QED BY <1>3, <3>1 DEF Boot, RunKnown
  <2>8. DownIsEnded'
    BY <1>3 DEF Boot, DownIsEnded
  <2> QED BY <2>5, <2>6, <2>7, <2>8 DEF IInv
<1> QED BY <1>1, <1>2, <1>3

(* IInv is inductive.                                                      *)
LEMMA NextIInv == IInv /\ [Next]_vars => IInv'
<1> SUFFICES ASSUME IInv, [Next]_vars PROVE IInv'
  OBVIOUS
<1>1. CASE UNCHANGED vars
  BY <1>1 DEF vars, store, task, hub, process, IInv, TypeOK, RunKnown,
              DownIsEnded, TxnGapless, SeqGapless
<1>2. CASE Next
  BY <1>2, ExecuteIInv, TaskIInv, ProcessIInv DEF Next
<1> QED BY <1>1, <1>2

(* IInv holds in every reachable state of the write path.                  *)
THEOREM InvariantHolds == Spec => []IInv
BY InitIInv, NextIInv, PTL DEF Spec

(* Every variable keeps to its type in every behaviour.                    *)
THEOREM TypeCorrect == Spec => []TypeOK
<1>1. IInv => TypeOK
  BY DEF IInv
<1> QED BY <1>1, InvariantHolds, PTL

(* Invariant 7: whatever the interleaving of hunts, cancellations, failing *)
(* statements, crashes and boots, the committed events of every run are    *)
(* numbered 0, 1, 2, ... in id order (db.APPEND_EVENT_SQL).                *)
THEOREM RunsAreGapless == Spec => []SeqGapless
<1>1. IInv => SeqGapless
  BY DEF IInv
<1> QED BY <1>1, InvariantHolds, PTL

-----------------------------------------------------------------------------
(* Nothing is announced before it is committed, the write lock is never    *)
(* held over a brain call, and the shielded cleanup closes its run.  They  *)
(* follow from what each await of a task implies: which calls are queued on *)
(* its connection, whether that may hold the lock, where its latest event  *)
(* is, and what the status of its run is, in file and transaction.         *)

(* The one call a task submits on its way to an await.                     *)
Op == [insert_run     |-> "insert_run",     commit_run     |-> "commit",
       insert_event   |-> "insert_step",    commit_event   |-> "commit",
       insert_error   |-> "insert_step",    commit_error   |-> "commit",
       insert_capture |-> "insert_capture", insert_prey    |-> "insert_prey",
       commit_capture |-> "commit",
       update_run     |-> "update_run",     commit_outcome |-> "commit",
       commit_abort   |-> "commit",         close          |-> "close"]

(* What is queued on t's connection, by the await of its task: the call    *)
(* awaited, until it is executed; before it, at the two awaits a           *)
(* cancellation leads to, perhaps the call that it interrupted.            *)
Queued(t, before, op) ==
    queue[t] = <<>> \/ queue[t] = <<op>> \/ \E x \in before : queue[t] = <<x, op>>

Interrupted == {"insert_step", "insert_capture", "insert_prey", "commit"}

QueueShape(t) ==
    /\ pc[t] \in {"sleep", "drive", "ended"} => queue[t] = <<>>
    /\ pc[t] \in DOMAIN Op => Queued(t, {}, Op[pc[t]])
    /\ pc[t] = "update_abort" => Queued(t, Interrupted, "update_run")
    /\ pc[t] = "unwind" => Queued(t, Calls \ {"close"}, "close")

(* Where a task may be whose connection holds the write lock.              *)
Inserts == {"insert_run", "insert_event", "insert_error", "insert_capture", "insert_prey"}
Updates == {"update_run", "update_abort"}
Commits == {"commit_run", "commit_event", "commit_error", "commit_capture",
            "commit_outcome", "commit_abort"}

LockShape(t) ==
    writer = t => \/ pc[t] \in Inserts \cup Updates
                  \/ pc[t] \in Commits \cup {"close", "unwind"} /\ queue[t] # <<>>

(* The event t has inserted: in its transaction, then in the file.         *)
New(t, log) == bootHead < rowid[t] /\ rowid[t] <= Len(log)

EventShape(t) ==
    /\ \/ pc[t] \in {"insert_event", "insert_error", "insert_capture"} /\ queue[t] = <<>>
       \/ pc[t] = "insert_prey"
       => writer = t /\ New(t, txn.log)
    /\ pc[t] \in {"commit_event", "commit_error", "commit_capture"} =>
          IF queue[t] = <<>> THEN New(t, db.log) ELSE writer = t /\ New(t, txn.log)

(* The status of t's run, in the file and in the transaction.              *)
Is(t, s) == db.runs[run[t]] = s /\ txn.runs[run[t]] = s

Becomes(t, s) == writer = t /\ txn.runs[run[t]] = s

RunShape(t) ==
    /\ pc[t] = "insert_run" =>
          IF queue[t] = <<>> THEN Becomes(t, "open") ELSE Is(t, "absent")
    /\ pc[t] = "commit_run" =>
          IF queue[t] = <<>> THEN Is(t, "open") ELSE Becomes(t, "open")
    /\ pc[t] \in InTry \cup {"insert_error", "commit_error"} => Is(t, "open")
    /\ pc[t] \in Updates =>
          IF queue[t] = <<>> THEN Becomes(t, result[t]) ELSE Is(t, "open")
    /\ pc[t] \in {"commit_outcome", "commit_abort"} =>
          IF queue[t] = <<>> THEN db.runs[run[t]] = result[t] ELSE Becomes(t, result[t])
    /\ pc[t] \in {"update_abort", "commit_abort"} => result[t] = "shutdown"
    /\ pc[t] = "unwind" /\ queue[t] = <<"insert_run", "close">> => Is(t, "absent")

Shape(t) == QueueShape(t) /\ LockShape(t) /\ EventShape(t) /\ RunShape(t)

(* The transaction against the file.                                       *)
TxnOnFile ==
    /\ writer = None => txn = db
    /\ bootHead <= Len(db.log) /\ Len(db.log) <= Len(txn.log)
    /\ \A r \in RunIds : /\ txn.runs[r] = "absent" => db.runs[r] = "absent"
                         /\ db.runs[r] \in Outcomes => txn.runs[r] = db.runs[r]

RunsDiffer == \A t, u \in Territories : t # u /\ run[t] = run[u] => run[t] = None

WInv == /\ TxnOnFile /\ RunsDiffer /\ WriteAhead
        /\ \A t \in Territories : Shape(t)

-----------------------------------------------------------------------------
(* What popping and appending do to the short queues.                      *)
LEMMA Single ==
    ASSUME NEW x
    PROVE  /\ Head(<<x>>) = x /\ Tail(<<x>>) = <<>> /\ Len(<<x>>) = 1
           /\ <<x>> # <<>> /\ Append(<<>>, x) = <<x>>
<1>1. Head(<<x>>) = x
  OBVIOUS
<1>2. Tail(<<x>>) = <<>>
  OBVIOUS
<1>3. Len(<<x>>) = 1 /\ <<x>> # <<>>
  OBVIOUS
<1>4. Append(<<>>, x) = <<x>>
  OBVIOUS
<1> QED BY <1>1, <1>2, <1>3, <1>4

(* The same for two calls.                                                 *)
LEMMA Pair ==
    ASSUME NEW x, NEW y
    PROVE  /\ Head(<<x, y>>) = x /\ Tail(<<x, y>>) = <<y>> /\ Len(<<x, y>>) = 2
           /\ <<x, y>> # <<>> /\ \A z : <<x, y>> # <<z>>
           /\ Append(<<x>>, y) = <<x, y>>
<1>1. Head(<<x, y>>) = x
  OBVIOUS
<1>2. Tail(<<x, y>>) = <<y>>
  OBVIOUS
<1>3. Len(<<x, y>>) = 2 /\ <<x, y>> # <<>>
  OBVIOUS
<1>4. Append(<<x>>, y) = <<x, y>>
  <2>1. <<x>> \in Seq({x, y}) /\ Len(<<x>>) = 1 /\ <<x>>[1] = x
    OBVIOUS
  <2>2. /\ Append(<<x>>, y) \in Seq({x, y}) /\ Len(Append(<<x>>, y)) = 2
        /\ Append(<<x>>, y)[1] = x /\ Append(<<x>>, y)[2] = y
    BY <2>1
  <2>3. Append(<<x>>, y) = [i \in 1..2 |-> IF i = 1 THEN x ELSE y]
    BY <2>2
  <2>4. <<x, y>> = [i \in 1..2 |-> IF i = 1 THEN x ELSE y]
    OBVIOUS
  <2> QED BY <2>3, <2>4
<1>5. \A z : Len(<<z>>) = 1
  BY Single
<1> QED BY <1>1, <1>2, <1>3, <1>4, <1>5

(* The initial state: every loop sleeps, nothing is queued or locked.      *)
LEMMA InitWInv == Init => WInv
<1> SUFFICES ASSUME Init PROVE WInv
  OBVIOUS
<1>1. /\ pc = [t \in Territories |-> "sleep"] /\ queue = [t \in Territories |-> <<>>]
      /\ writer = None /\ txn = db /\ db.log = <<>> /\ bootHead = 0
      /\ run = [t \in Territories |-> None] /\ published = <<>> /\ pulsed = {}
      /\ db.runs = [r \in RunIds |-> "absent"]
  BY DEF Init
<1>2. ASSUME NEW t \in Territories PROVE Shape(t)
  <2>1. pc[t] = "sleep" /\ queue[t] = <<>> /\ writer # t
    BY <1>1, HuntStoreAssumption
  <2>2. "sleep" \notin DOMAIN Op \cup Inserts \cup Updates \cup Commits \cup InTry
    BY DEF Op, Inserts, Updates, Commits, InTry
  <2> QED BY <2>1, <2>2 DEF Shape, QueueShape, LockShape, EventShape, RunShape, Inserts, Updates,
             Commits
<1>3. TxnOnFile /\ RunsDiffer /\ WriteAhead
  BY <1>1 DEF TxnOnFile, RunsDiffer, WriteAhead, Outcomes
<1> QED BY <1>2, <1>3 DEF WInv

(* The call at the head of t's queue, and what is left when it is popped.  *)
LEMMA HeadCases ==
    ASSUME TypeOK, NEW t \in Territories, QueueShape(t), queue[t] # <<>>
    PROVE  \/ /\ pc[t] \in DOMAIN Op /\ Head(queue[t]) = Op[pc[t]]
              /\ Tail(queue[t]) = <<>> /\ Len(queue[t]) = 1
           \/ /\ pc[t] = "update_abort" /\ Head(queue[t]) = "update_run"
              /\ Tail(queue[t]) = <<>> /\ Len(queue[t]) = 1
           \/ /\ pc[t] = "update_abort" /\ Head(queue[t]) \in Interrupted
              /\ Tail(queue[t]) = <<"update_run">> /\ Len(queue[t]) = 2
           \/ /\ pc[t] = "unwind" /\ Head(queue[t]) = "close"
              /\ Tail(queue[t]) = <<>> /\ Len(queue[t]) = 1
           \/ /\ pc[t] = "unwind" /\ Head(queue[t]) \in Calls \ {"close"}
              /\ queue[t] = <<Head(queue[t]), "close">>
              /\ Tail(queue[t]) = <<"close">> /\ Len(queue[t]) = 2
<1>1. pc[t] \in Awaits
  BY DEF TypeOK
<1>2. pc[t] \in DOMAIN Op \cup {"update_abort", "unwind"}
  BY <1>1 DEF QueueShape, Awaits, InTry, Unprotected, Op
<1>3. CASE pc[t] \in DOMAIN Op
  <2>1. queue[t] = <<Op[pc[t]]>>
    BY <1>3 DEF QueueShape, Queued
  <2> QED BY <1>3, <2>1, Single
<1>4. CASE pc[t] = "update_abort"
  <2>1. queue[t] = <<"update_run">> \/ \E x \in Interrupted : queue[t] = <<x, "update_run">>
    BY <1>4 DEF QueueShape, Queued
  <2>2. CASE queue[t] = <<"update_run">>
    BY <1>4, <2>2, Single
  <2>3. ASSUME NEW x \in Interrupted, queue[t] = <<x, "update_run">>
        PROVE  /\ Head(queue[t]) \in Interrupted
               /\ Tail(queue[t]) = <<"update_run">> /\ Len(queue[t]) = 2
    BY <2>3, Pair
  <2> QED BY <1>4, <2>1, <2>2, <2>3
<1>5. CASE pc[t] = "unwind"
  <2>1. queue[t] = <<"close">> \/ \E x \in Calls \ {"close"} : queue[t] = <<x, "close">>
    BY <1>5 DEF QueueShape, Queued
  <2>2. CASE queue[t] = <<"close">>
    BY <1>5, <2>2, Single
  <2>3. ASSUME NEW x \in Calls \ {"close"}, queue[t] = <<x, "close">>
        PROVE  /\ Head(queue[t]) \in Calls \ {"close"}
               /\ queue[t] = <<Head(queue[t]), "close">>
               /\ Tail(queue[t]) = <<"close">> /\ Len(queue[t]) = 2
    BY <2>3, Pair
  <2> QED BY <1>5, <2>1, <2>2, <2>3
<1> QED BY <1>2, <1>3, <1>4, <1>5

(* Which awaits submit which call.                                         *)
LEMMA Submitters ==
    ASSUME NEW a \in DOMAIN Op
    PROVE  /\ Op[a] = "insert_run" => a = "insert_run"
           /\ Op[a] = "insert_step" => a \in {"insert_event", "insert_error"}
           /\ Op[a] = "insert_capture" => a = "insert_capture"
           /\ Op[a] = "insert_prey" => a = "insert_prey"
           /\ Op[a] = "update_run" => a = "update_run"
           /\ Op[a] = "commit" => a \in Commits
           /\ Op[a] = "close" => a = "close"
BY DEF Op, Commits

(* Popping a call leaves the queue in shape.                               *)
LEMMA PopCases ==
    ASSUME TypeOK, NEW t \in Territories, QueueShape(t), queue[t] # <<>>, Pop(t), pc' = pc
    PROVE  /\ QueueShape(t)'
           /\ \/ pc[t] \in DOMAIN Op /\ Head(queue[t]) = Op[pc[t]] /\ queue'[t] = <<>>
              \/ pc[t] = "update_abort" /\ Head(queue[t]) = "update_run" /\ queue'[t] = <<>>
              \/ /\ pc[t] = "update_abort" /\ Head(queue[t]) \in Interrupted
                 /\ queue'[t] = <<"update_run">>
              \/ pc[t] = "unwind" /\ Head(queue[t]) = "close" /\ queue'[t] = <<>>
              \/ /\ pc[t] = "unwind" /\ Head(queue[t]) \in Calls \ {"close"}
                 /\ queue[t] = <<Head(queue[t]), "close">> /\ queue'[t] = <<"close">>
<1>1. queue'[t] = Tail(queue[t])
  BY DEF Pop, TypeOK
<1>2. "update_abort" \notin DOMAIN Op /\ "unwind" \notin DOMAIN Op
      /\ DOMAIN Op \cap {"sleep", "drive", "ended"} = {}
  BY DEF Op
<1>3. \/ pc[t] \in DOMAIN Op /\ queue'[t] = <<>>
      \/ pc[t] = "update_abort" /\ queue'[t] \in {<<>>, <<"update_run">>}
      \/ pc[t] = "unwind" /\ queue'[t] \in {<<>>, <<"close">>}
  BY <1>1, HeadCases
<1>4. QueueShape(t)'
  BY <1>1, <1>2, <1>3 DEF QueueShape, Queued
<1> QED BY <1>1, <1>4, HeadCases

(* What the rest of the daemon may do without disturbing task u: move the  *)
(* lock between others, and write and commit rows that are not its own.    *)
Spared(u) ==
    /\ queue'[u] = queue[u] /\ pc'[u] = pc[u] /\ run'[u] = run[u]
    /\ rowid'[u] = rowid[u] /\ result'[u] = result[u]
    /\ writer' = u <=> writer = u
    /\ writer = u => txn' = txn
    /\ bootHead' = bootHead /\ Len(db.log) <= Len(db'.log)
    /\ run[u] \in RunIds =>
          /\ \A s \in {"open", "absent"} :
                Is(u, s) => db'.runs[run[u]] = s /\ txn'.runs[run[u]] = s
          /\ db.runs[run[u]] \in Outcomes => db'.runs[run[u]] = db.runs[run[u]]

(* A spared task keeps its shape.                                          *)
LEMMA SparedShape ==
    ASSUME TypeOK, TypeOK', RunKnown, NEW u \in Territories, Shape(u), Spared(u)
    PROVE  Shape(u)'
<1>1. QueueShape(u)' /\ LockShape(u)'
  BY DEF Shape, Spared, QueueShape, Queued, LockShape
<1>2. Len(db.log) \in Nat /\ Len(db'.log) \in Nat /\ rowid[u] \in Nat /\ result[u] \in Outcomes
  <2>1. db.log \in Seq(Row) /\ db'.log \in Seq(Row)
    BY DEF TypeOK, Store
  <2>2. Len(db.log) \in Nat /\ Len(db'.log) \in Nat
    BY <2>1
  <2> QED BY <2>2 DEF TypeOK
<1>3. New(u, db.log) => New(u, db.log)'
  BY <1>2 DEF New, Spared
<1>4. writer = u /\ New(u, txn.log) => writer' = u /\ New(u, txn.log)'
  BY DEF New, Spared
<1>5. EventShape(u)'
  <2>1. pc'[u] = pc[u] /\ queue'[u] = queue[u]
    BY DEF Spared
  <2> QED BY <1>3, <1>4, <2>1 DEF Shape, EventShape
<1>6. pc'[u] = pc[u] /\ queue'[u] = queue[u] /\ result'[u] = result[u]
  BY DEF Spared
<1>7. CASE run[u] \in RunIds
  <2>1. \A s \in {"open", "absent"} : Is(u, s) => Is(u, s)'
    BY <1>7 DEF Spared, Is
  <2>2. \A s : Becomes(u, s) => Becomes(u, s)'
    BY DEF Spared, Becomes
  <2>3. db.runs[run[u]] = result[u] => db'.runs[run'[u]] = result'[u]
    BY <1>2, <1>7 DEF Spared
  <2>4. RunShape(u)
    BY DEF Shape
  <2>5. RunShape(u)'
    BY <1>6, <2>1, <2>2, <2>3, <2>4 DEF RunShape
  <2> QED BY <1>1, <1>5, <2>5 DEF Shape
<1>8. CASE run[u] \notin RunIds
  <2>1. pc'[u] \in {"sleep", "ended"}
    BY <1>6, <1>8 DEF RunKnown
  <2>2. RunShape(u)'
    BY <2>1 DEF RunShape, InTry, Updates
  <2> QED BY <1>1, <1>5, <2>2 DEF Shape
<1> QED BY <1>7, <1>8


(* A write statement of t touches no row of another task's run.            *)
LEMMA WriteSpares ==
    ASSUME IInv, WInv, NEW t \in Territories, Pop(t),
           writer \in {None, t}, writer' = t,
           UNCHANGED <<db, pc, run, result, bootHead>>,
           \A u \in Territories \ {t} : rowid'[u] = rowid[u],
           run[t] \in RunIds,
           \A r \in RunIds \ {run[t]} : txn'.runs[r] = txn.runs[r]
    PROVE  \A u \in Territories \ {t} : Spared(u)
<1> SUFFICES ASSUME NEW u \in Territories \ {t} PROVE Spared(u)
  OBVIOUS
<1>1. run[u] \in RunIds => run[u] # run[t]
  BY HuntStoreAssumption DEF WInv, RunsDiffer
<1>2. queue'[u] = queue[u]
  BY DEF Pop, IInv, TypeOK
<1>3. writer # u /\ writer' # u
  BY HuntStoreAssumption
<1>4. db.log \in Seq(Row)
  BY DEF IInv, TypeOK, Store
<1>5. Len(db.log) \in Nat
  BY <1>4
<1> QED BY <1>1, <1>2, <1>3, <1>5 DEF Spared, Is

(* One statement of t's connection: t's own shape, and the others'.        *)
LEMMA InsertRunWInv ==
    ASSUME IInv, IInv', WInv, NEW t \in Territories, ExecInsertRun(t)
    PROVE  TxnOnFile' /\ WriteAhead' /\ Shape(t)'
           /\ \A u \in Territories \ {t} : Spared(u)
<1>1. /\ queue[t] # <<>> /\ Head(queue[t]) = "insert_run" /\ Pop(t)
      /\ writer \in {None, t} /\ writer' = t
      /\ txn' = [txn EXCEPT !.runs[run[t]] = "open"]
      /\ UNCHANGED <<db, pc, run, rowid, result, published, pulsed, bootHead>>
  BY DEF ExecInsertRun, Calling, Write, hub, process
<1>2. /\ txn.runs \in [RunIds -> Status] /\ txn.log \in Seq(Row) /\ db.log \in Seq(Row)
      /\ db.runs \in [RunIds -> Status] /\ run[t] \in RunIds /\ None \notin Territories
  BY <1>1, HuntStoreAssumption DEF IInv, TypeOK, RunKnown, Store
<1>3. /\ txn'.log = txn.log /\ txn'.runs = [txn.runs EXCEPT ![run[t]] = "open"]
  BY <1>1 DEF IInv, TypeOK, Store
<1>4. TypeOK /\ Shape(t) /\ TxnOnFile /\ WriteAhead /\ RunsDiffer
  BY DEF IInv, WInv
<1>5. \/ pc[t] = "insert_run" /\ queue'[t] = <<>>
      \/ pc[t] = "unwind" /\ queue[t] = <<"insert_run", "close">> /\ queue'[t] = <<"close">>
  <2>1. QueueShape(t)
    BY <1>4 DEF Shape
  <2> QED BY <1>1, <1>4, <2>1, PopCases, Submitters DEF Interrupted
<1>6. Is(t, "absent")
  BY <1>1, <1>4, <1>5 DEF Shape, RunShape
<1>7. TxnOnFile'
  BY <1>1, <1>2, <1>3, <1>4, <1>6 DEF TxnOnFile, Is, Outcomes
<1>8. WriteAhead'
  BY <1>1, <1>4 DEF WriteAhead
<1>9. Shape(t)'
  <2>1. QueueShape(t)'
    BY <1>1, <1>4, PopCases DEF Shape
  <2>2. /\ pc'[t] = pc[t]
        /\ pc[t] = "unwind" => queue'[t] # <<>> /\ queue'[t] # <<"insert_run", "close">>
    BY <1>1, <1>5, Single, Pair
  <2>3. LockShape(t)' /\ EventShape(t)'
    BY <1>5, <2>2 DEF LockShape, EventShape, Inserts, Commits
  <2>4. Becomes(t, "open")'
    BY <1>1, <1>2, <1>3 DEF Becomes
  <2>5. RunShape(t)'
    BY <1>5, <2>2, <2>4 DEF RunShape, InTry, Updates
  <2> QED BY <2>1, <2>3, <2>5 DEF Shape
<1>10. \A u \in Territories \ {t} : Spared(u)
  <2>1. \A r \in RunIds \ {run[t]} : txn'.runs[r] = txn.runs[r]
    BY <1>2, <1>3
  <2>2. /\ UNCHANGED <<db, pc, run, result, bootHead>>
        /\ \A u \in Territories \ {t} : rowid'[u] = rowid[u]
    BY <1>1
  <2> QED BY <1>1, <1>2, <2>1, <2>2, WriteSpares
<1> QED BY <1>7, <1>8, <1>9, <1>10

(* append_event's or capture_prey's INSERT: the row is new.                *)
LEMMA AppendWInv ==
    ASSUME IInv, IInv', WInv, NEW t \in Territories, NEW kind \in Kinds, ExecAppend(t, kind)
    PROVE  TxnOnFile' /\ WriteAhead' /\ Shape(t)'
           /\ \A u \in Territories \ {t} : Spared(u)
<1>1. /\ queue[t] # <<>> /\ Pop(t)
      /\ Head(queue[t]) \in {"insert_step", "insert_capture"}
      /\ writer \in {None, t} /\ writer' = t
      /\ rowid' = [rowid EXCEPT ![t] = Len(txn.log) + 1]
      /\ UNCHANGED <<db, pc, run, result, published, pulsed, bootHead>>
  BY DEF ExecAppend, Calling, Write, hub, process
<1>2. /\ txn.log \in Seq(Row) /\ db.log \in Seq(Row) /\ rowid \in [Territories -> Nat]
      /\ run[t] \in RunIds /\ bootHead \in Nat
  BY <1>1 DEF IInv, TypeOK, RunKnown, Store
<1>3. /\ txn'.runs = txn.runs
      /\ Len(txn'.log) = Len(txn.log) + 1
  <2> DEFINE row == [run |-> run[t], seq |-> NextSeq(txn.log, run[t]), kind |-> kind]
  <2>1. txn' = [txn EXCEPT !.log = Append(txn.log, row)]
    BY <1>2 DEF ExecAppend, Write, IInv, TypeOK, Store
  <2>2. Len(Append(txn.log, row)) = Len(txn.log) + 1
    BY <1>2
  <2> HIDE DEF row
  <2>3. txn'.runs = txn.runs /\ txn'.log = Append(txn.log, row)
    BY <2>1 DEF IInv, TypeOK, Store
  <2> QED BY <2>2, <2>3
<1>4. TypeOK /\ Shape(t) /\ QueueShape(t) /\ TxnOnFile /\ WriteAhead
  BY DEF IInv, WInv, Shape
<1>5. \/ pc[t] \in {"insert_event", "insert_error", "insert_capture"} /\ queue'[t] = <<>>
      \/ pc[t] = "update_abort" /\ queue'[t] = <<"update_run">>
      \/ pc[t] = "unwind" /\ queue'[t] = <<"close">>
  BY <1>1, <1>4, PopCases, Submitters
<1>6. Len(db.log) \in Nat /\ Len(txn.log) \in Nat
  BY <1>2
<1>7. TxnOnFile'
  BY <1>1, <1>3, <1>4, <1>6, HuntStoreAssumption DEF TxnOnFile
<1>8. WriteAhead'
  BY <1>1, <1>4 DEF WriteAhead
<1>9. Shape(t)'
  <2>1. QueueShape(t)'
    BY <1>1, <1>4, PopCases
  <2>2. pc'[t] = pc[t] /\ queue'[t] # <<"insert_run", "close">>
        /\ (pc[t] \in {"update_abort", "unwind"} => queue'[t] # <<>>)
    BY <1>1, <1>5, Single, Pair
  <2>3. LockShape(t)'
    BY <1>5, <2>2 DEF LockShape, Inserts, Updates
  <2>4. writer' = t /\ New(t, txn.log)'
    BY <1>1, <1>2, <1>3, <1>4, <1>6 DEF New, TxnOnFile
  <2>5. EventShape(t)'
    BY <1>5, <2>2, <2>4 DEF EventShape
  <2>6. RunShape(t) /\ queue[t] # <<>>
    BY <1>1, <1>4 DEF Shape
  <2>7. Is(t, "open") => Is(t, "open")'
    BY <1>1, <1>3 DEF Is
  <2>8. result'[t] = result[t]
    BY <1>1
  <2>9. RunShape(t)'
    BY <1>5, <2>2, <2>6, <2>7, <2>8 DEF RunShape, InTry, Updates
  <2> QED BY <2>1, <2>3, <2>5, <2>9 DEF Shape
<1>10. \A u \in Territories \ {t} : Spared(u)
  <2>1. /\ UNCHANGED <<db, pc, run, result, bootHead>>
        /\ \A u \in Territories \ {t} : rowid'[u] = rowid[u]
    BY <1>1, <1>2
  <2> QED BY <1>1, <1>2, <1>3, <2>1, WriteSpares
<1> QED BY <1>7, <1>8, <1>9, <1>10

(* capture_prey's second INSERT.                                           *)
LEMMA InsertPreyWInv ==
    ASSUME IInv, IInv', WInv, NEW t \in Territories, ExecInsertPrey(t)
    PROVE  TxnOnFile' /\ WriteAhead' /\ Shape(t)'
           /\ \A u \in Territories \ {t} : Spared(u)
<1>1. /\ queue[t] # <<>> /\ Pop(t) /\ Head(queue[t]) = "insert_prey"
      /\ writer \in {None, t} /\ writer' = t
      /\ UNCHANGED <<db, pc, run, rowid, result, published, pulsed, bootHead>>
  BY DEF ExecInsertPrey, Calling, Write, hub, process
<1>2. run[t] \in RunIds
  BY <1>1 DEF IInv, RunKnown
<1>3. txn'.runs = txn.runs /\ txn'.log = txn.log
  BY DEF ExecInsertPrey, Write, IInv, TypeOK, Store
<1>4. TypeOK /\ Shape(t) /\ QueueShape(t) /\ TxnOnFile /\ WriteAhead
  BY DEF IInv, WInv, Shape
<1>5. \/ pc[t] = "insert_prey" /\ queue'[t] = <<>>
      \/ pc[t] = "update_abort" /\ queue'[t] = <<"update_run">>
      \/ pc[t] = "unwind" /\ queue'[t] = <<"close">>
  BY <1>1, <1>4, PopCases, Submitters
<1>7. TxnOnFile'
  BY <1>1, <1>3, <1>4, HuntStoreAssumption DEF TxnOnFile
<1>8. WriteAhead'
  BY <1>1, <1>4 DEF WriteAhead
<1>9. Shape(t)'
  <2>1. QueueShape(t)'
    BY <1>1, <1>4, PopCases
  <2>2. pc'[t] = pc[t] /\ queue'[t] # <<"insert_run", "close">>
        /\ (pc[t] \in {"update_abort", "unwind"} => queue'[t] # <<>>)
    BY <1>1, <1>5, Single, Pair
  <2>3. LockShape(t)'
    BY <1>5, <2>2 DEF LockShape, Inserts, Updates
  <2>4. pc[t] = "insert_prey" => writer' = t /\ New(t, txn.log)'
    BY <1>1, <1>3, <1>4 DEF New, Shape, EventShape
  <2>5. EventShape(t)'
    BY <1>5, <2>2, <2>4 DEF EventShape
  <2>6. RunShape(t) /\ queue[t] # <<>>
    BY <1>1, <1>4 DEF Shape
  <2>7. Is(t, "open") => Is(t, "open")'
    BY <1>1, <1>3 DEF Is
  <2>8. result'[t] = result[t]
    BY <1>1
  <2>9. RunShape(t)'
    BY <1>5, <2>2, <2>6, <2>7, <2>8 DEF RunShape, InTry, Updates
  <2> QED BY <2>1, <2>3, <2>5, <2>9 DEF Shape
<1>10. \A u \in Territories \ {t} : Spared(u)
  <2>1. /\ UNCHANGED <<db, pc, run, result, bootHead>>
        /\ \A u \in Territories \ {t} : rowid'[u] = rowid[u]
    BY <1>1
  <2> QED BY <1>1, <1>2, <1>3, <2>1, WriteSpares
<1> QED BY <1>7, <1>8, <1>9, <1>10

(* finish_run's guarded UPDATE: an open run takes the outcome.             *)
LEMMA UpdateRunWInv ==
    ASSUME IInv, IInv', WInv, NEW t \in Territories, ExecUpdateRun(t)
    PROVE  TxnOnFile' /\ WriteAhead' /\ Shape(t)'
           /\ \A u \in Territories \ {t} : Spared(u)
<1>1. /\ queue[t] # <<>> /\ Pop(t) /\ Head(queue[t]) = "update_run"
      /\ writer \in {None, t} /\ writer' = t
      /\ UNCHANGED <<db, pc, run, rowid, result, published, pulsed, bootHead>>
  BY DEF ExecUpdateRun, Calling, Write, hub, process
<1>2. /\ txn.runs \in [RunIds -> Status] /\ db.runs \in [RunIds -> Status]
      /\ run[t] \in RunIds /\ result[t] \in Outcomes
  BY <1>1 DEF IInv, TypeOK, RunKnown, Store
<1>3. /\ txn'.log = txn.log
      /\ \A r \in RunIds \ {run[t]} : txn'.runs[r] = txn.runs[r]
      /\ txn'.runs[run[t]] = IF txn.runs[run[t]] = "open" THEN result[t] ELSE txn.runs[run[t]]
  <2>1. CASE txn.runs[run[t]] = "open"
    <3>1. txn' = [txn EXCEPT !.runs = [txn.runs EXCEPT ![run[t]] = result[t]]]
      BY <2>1 DEF ExecUpdateRun, Write, IInv, TypeOK, Store
    <3>2. txn'.log = txn.log /\ txn'.runs = [txn.runs EXCEPT ![run[t]] = result[t]]
      BY <3>1 DEF IInv, TypeOK, Store
    <3> QED BY <1>2, <2>1, <3>2
  <2>2. CASE txn.runs[run[t]] # "open"
    BY <2>2 DEF ExecUpdateRun, Write
  <2> QED BY <2>1, <2>2
<1>4. TypeOK /\ Shape(t) /\ QueueShape(t) /\ TxnOnFile /\ WriteAhead
  BY DEF IInv, WInv, Shape
<1>5. \/ pc[t] \in Updates /\ queue'[t] = <<>>
      \/ pc[t] = "unwind" /\ queue'[t] = <<"close">>
  BY <1>1, <1>4, PopCases, Submitters DEF Updates, Interrupted
<1>6. \A r \in RunIds : /\ txn'.runs[r] = "absent" => txn.runs[r] = "absent"
                        /\ txn.runs[r] # "open" => txn'.runs[r] = txn.runs[r]
  BY <1>2, <1>3 DEF Outcomes
<1>7. TxnOnFile'
  BY <1>1, <1>2, <1>3, <1>4, <1>6, HuntStoreAssumption DEF TxnOnFile, Outcomes
<1>8. WriteAhead'
  BY <1>1, <1>4 DEF WriteAhead
<1>9. Shape(t)'
  <2>1. QueueShape(t)'
    BY <1>1, <1>4, PopCases
  <2>2. pc'[t] = pc[t] /\ queue'[t] # <<"insert_run", "close">>
        /\ (pc[t] = "unwind" => queue'[t] # <<>>)
    <3>1. pc[t] = "unwind" => queue'[t] = <<"close">>
      BY <1>5 DEF Updates
    <3> QED BY <1>1, <1>5, <3>1, Single, Pair
  <2>3. LockShape(t)' /\ EventShape(t)'
    BY <1>5, <2>2 DEF LockShape, EventShape, Updates
  <2>4. RunShape(t) /\ queue[t] # <<>>
    BY <1>1, <1>4 DEF Shape
  <2>5. pc[t] \in Updates => Becomes(t, result[t])'
    <3>1. pc[t] \in Updates => txn.runs[run[t]] = "open"
      BY <2>4 DEF RunShape, Is
    <3> QED BY <1>1, <1>3, <3>1 DEF Becomes
  <2>6. result'[t] = result[t]
    BY <1>1
  <2>7. RunShape(t)'
    BY <1>5, <2>2, <2>4, <2>5, <2>6 DEF RunShape, InTry, Updates
  <2> QED BY <2>1, <2>3, <2>7 DEF Shape
<1>10. \A u \in Territories \ {t} : Spared(u)
  <2>1. /\ UNCHANGED <<db, pc, run, result, bootHead>>
        /\ \A u \in Territories \ {t} : rowid'[u] = rowid[u]
    BY <1>1
  <2> QED BY <1>1, <1>2, <1>3, <2>1, WriteSpares
<1> QED BY <1>7, <1>8, <1>9, <1>10

(* The commit: the file takes over the transaction, the lock is free.      *)
LEMMA CommitWInv ==
    ASSUME IInv, IInv', WInv, NEW t \in Territories, ExecCommit(t)
    PROVE  TxnOnFile' /\ WriteAhead' /\ Shape(t)'
           /\ \A u \in Territories \ {t} : Spared(u)
<1>1. /\ queue[t] # <<>> /\ Pop(t) /\ Head(queue[t]) = "commit"
      /\ writer = t /\ writer' = None /\ db' = txn /\ txn' = txn
      /\ UNCHANGED <<pc, run, rowid, result, published, pulsed, bootHead>>
  BY DEF ExecCommit, Calling, task, hub, process
<1>2. /\ db.log \in Seq(Row) /\ txn.log \in Seq(Row) /\ bootHead \in Nat
      /\ run[t] \in RunIds /\ result[t] \in Outcomes /\ pulsed \subseteq RunIds
  BY <1>1 DEF IInv, TypeOK, RunKnown, Store
<1>3. Len(db.log) \in Nat /\ Len(txn.log) \in Nat
  BY <1>2
<1>4. TypeOK /\ Shape(t) /\ QueueShape(t) /\ TxnOnFile /\ WriteAhead
  BY DEF IInv, WInv, Shape
<1>5. \/ pc[t] \in Commits /\ queue'[t] = <<>>
      \/ pc[t] = "update_abort" /\ queue'[t] = <<"update_run">>
      \/ pc[t] = "unwind" /\ queue'[t] = <<"close">>
  BY <1>1, <1>4, PopCases, Submitters
<1>6. TxnOnFile'
  BY <1>1, <1>2, <1>3, <1>4 DEF TxnOnFile
<1>7. WriteAhead'
  BY <1>1, <1>2, <1>3, <1>4 DEF WriteAhead, TxnOnFile
<1>8. Shape(t)'
  <2>1. QueueShape(t)'
    BY <1>1, <1>4, PopCases
  <2>2. pc'[t] = pc[t] /\ result'[t] = result[t] /\ queue'[t] # <<"insert_run", "close">>
    <3>1. queue'[t] \in {<<>>, <<"update_run">>, <<"close">>}
      BY <1>5
    <3> QED BY <1>1, <3>1, Pair
  <2>3. LockShape(t)'
    BY <1>1, HuntStoreAssumption DEF LockShape
  <2>4. EventShape(t) /\ RunShape(t) /\ queue[t] # <<>>
    BY <1>1, <1>4 DEF Shape
  <2>5. EventShape(t)'
    BY <1>1, <1>5, <2>2, <2>4 DEF EventShape, New, Commits
  <2>6. \A s : /\ Is(t, s) => Is(t, s)'
               /\ Becomes(t, s) => Is(t, s)'
    BY <1>1 DEF Is, Becomes
  <2>7. RunShape(t)'
    <3>1. CASE pc[t] \in Commits /\ queue'[t] = <<>>
      BY <2>2, <2>4, <2>6, <3>1 DEF RunShape, Commits, InTry, Updates, Is
    <3>2. CASE pc[t] = "update_abort" /\ queue'[t] = <<"update_run">>
      BY <2>2, <2>4, <2>6, <3>2, Single DEF RunShape, InTry, Updates
    <3>3. CASE pc[t] = "unwind" /\ queue'[t] = <<"close">>
      BY <2>2, <3>3 DEF RunShape, InTry, Updates
    <3> QED BY <1>5, <3>1, <3>2, <3>3
  <2> QED BY <2>1, <2>3, <2>5, <2>7 DEF Shape
<1>9. ASSUME NEW u \in Territories \ {t}
      PROVE  Spared(u)
  <2>1. queue'[u] = queue[u]
    BY <1>1 DEF Pop, IInv, TypeOK
  <2>2. writer # u /\ writer' # u
    BY <1>1, HuntStoreAssumption
  <2>3. run[u] \in RunIds /\ db.runs[run[u]] \in Outcomes => txn.runs[run[u]] = db.runs[run[u]]
    BY <1>4 DEF TxnOnFile
  <2>4. Len(db.log) <= Len(txn.log)
    BY <1>4 DEF TxnOnFile
  <2> QED BY <1>1, <2>1, <2>2, <2>3, <2>4 DEF Spared, Is
<1> QED BY <1>6, <1>7, <1>8, <1>9

(* The close: what t had not committed is gone.                            *)
LEMMA CloseWInv ==
    ASSUME IInv, IInv', WInv, NEW t \in Territories, ExecClose(t)
    PROVE  TxnOnFile' /\ WriteAhead' /\ Shape(t)'
           /\ \A u \in Territories \ {t} : Spared(u)
<1>1. /\ queue[t] # <<>> /\ Pop(t) /\ Head(queue[t]) = "close"
      /\ writer' = IF writer = t THEN None ELSE writer
      /\ txn' = IF writer = t THEN db ELSE txn
      /\ UNCHANGED <<db, pc, run, rowid, result, published, pulsed, bootHead>>
  BY DEF ExecClose, Calling, task, hub, process
<1>2. db.log \in Seq(Row)
  BY DEF IInv, TypeOK, Store
<1>3. Len(db.log) \in Nat
  BY <1>2
<1>4. TypeOK /\ Shape(t) /\ QueueShape(t) /\ TxnOnFile /\ WriteAhead
  BY DEF IInv, WInv, Shape
<1>5. pc[t] \in {"close", "unwind"} /\ queue'[t] = <<>>
  BY <1>1, <1>4, PopCases, Submitters DEF Interrupted
<1>6. TxnOnFile'
  BY <1>1, <1>3, <1>4 DEF TxnOnFile
<1>7. WriteAhead'
  BY <1>1, <1>4 DEF WriteAhead
<1>8. Shape(t)'
  <2>1. QueueShape(t)'
    BY <1>1, <1>4, PopCases
  <2>2. pc'[t] \in {"close", "unwind"} /\ queue'[t] # <<"insert_run", "close">>
    BY <1>1, <1>5, Pair
  <2>3. LockShape(t)'
    BY <1>1, HuntStoreAssumption DEF LockShape
  <2>4. EventShape(t)' /\ RunShape(t)'
    BY <2>2 DEF EventShape, RunShape, InTry, Updates
  <2> QED BY <2>1, <2>3, <2>4 DEF Shape
<1>9. ASSUME NEW u \in Territories \ {t}
      PROVE  Spared(u)
  <2>1. queue'[u] = queue[u]
    BY <1>1 DEF Pop, IInv, TypeOK
  <2>2. (writer' = u <=> writer = u) /\ (writer = u => txn' = txn)
    BY <1>1, HuntStoreAssumption
  <2>3. \A s : Is(u, s) => db'.runs[run[u]] = s /\ txn'.runs[run[u]] = s
    BY <1>1 DEF Is
  <2> QED BY <1>1, <1>3, <2>1, <2>2, <2>3 DEF Spared
<1> QED BY <1>6, <1>7, <1>8, <1>9

(* Executing one statement keeps WInv.                                     *)
LEMMA ExecuteWInv ==
    ASSUME IInv, WInv, NEW t \in Territories, Execute(t)
    PROVE  WInv'
<1>1. IInv'
  BY ExecuteIInv
<1>2. TxnOnFile' /\ WriteAhead' /\ Shape(t)' /\ \A u \in Territories \ {t} : Spared(u)
  BY <1>1, InsertRunWInv, AppendWInv, InsertPreyWInv, UpdateRunWInv, CommitWInv, CloseWInv
     DEF Execute
<1>3. \A u \in Territories \ {t} : Shape(u)'
  BY <1>1, <1>2, SparedShape DEF IInv, WInv
<1>4. UNCHANGED run
  BY DEF Execute, ExecInsertRun, ExecAppend, ExecInsertPrey, ExecUpdateRun, Write,
         ExecCommit, ExecClose, task
<1>5. RunsDiffer'
  BY <1>4 DEF WInv, RunsDiffer
<1> QED BY <1>2, <1>3, <1>5 DEF WInv

(* A step of t's task touches nothing of the other tasks and no row.       *)
LEMMA TaskSpares ==
    ASSUME TypeOK, NEW t \in Territories,
           UNCHANGED <<db, txn, writer, rowid, bootHead>>,
           \A u \in Territories \ {t} : /\ queue'[u] = queue[u] /\ pc'[u] = pc[u]
                                       /\ run'[u] = run[u] /\ result'[u] = result[u]
    PROVE  \A u \in Territories \ {t} : Spared(u)
<1>1. db.log \in Seq(Row)
  BY DEF TypeOK, Store
<1>2. Len(db.log) \in Nat
  BY <1>1
<1> QED BY <1>2 DEF Spared, Is

(* A hunt starts: its run is absent from the file and the transaction.     *)
LEMMA LaunchShape ==
    ASSUME IInv, WInv, NEW t \in Territories, Launch(t)
    PROVE  Shape(t)' /\ RunsDiffer'
<1>1. PICK r \in RunIds : /\ txn.runs[r] = "absent" /\ \A u \in Territories : run[u] # r
                         /\ run' = [run EXCEPT ![t] = r]
  BY DEF Launch
<1>2. /\ pc[t] = "sleep" /\ queue[t] = <<>>
      /\ pc' = [pc EXCEPT ![t] = "insert_run"]
      /\ queue' = [queue EXCEPT ![t] = Append(@, "insert_run")]
      /\ UNCHANGED <<db, txn, writer>>
  BY DEF Launch, Resumed, Await, GoTo, Submit, store
<1>3. pc'[t] = "insert_run" /\ queue'[t] = <<"insert_run">> /\ run'[t] = r
  BY <1>1, <1>2, Single DEF IInv, TypeOK
<1>4. RunsDiffer'
  BY <1>1 DEF IInv, TypeOK, WInv, RunsDiffer
<1>5. db.runs[r] = "absent"
  BY <1>1 DEF WInv, TxnOnFile
<1>6. Is(t, "absent")'
  BY <1>1, <1>2, <1>3, <1>5 DEF Is
<1>7. queue'[t] # <<>>
  BY <1>3, Single
<1>8. QueueShape(t)' /\ LockShape(t)' /\ EventShape(t)'
  BY <1>3, <1>7 DEF QueueShape, Queued, Op, LockShape, Inserts, EventShape
<1>9. RunShape(t)'
  BY <1>3, <1>6, <1>7 DEF RunShape, InTry, Updates
<1> QED BY <1>4, <1>8, <1>9 DEF Shape

(* From the think to a statement of an event, or to finish_run.            *)
LEMMA DriveShape ==
    ASSUME IInv, WInv, NEW t \in Territories, Drive(t)
    PROVE  Shape(t)'
<1>1. /\ pc[t] = "drive" /\ queue[t] = <<>>
      /\ UNCHANGED <<db, txn, writer, run, rowid, bootHead>>
  BY DEF Drive, Record, Capture, Conclude, DriveRaises, Resumed, store, process
<1>2. PICK a \in {"insert_event", "insert_capture", "update_run", "insert_error"} :
         Await(t, a, Op[a])
  BY DEF Drive, Record, Capture, Conclude, DriveRaises, FinishRun, Op
<1>3. pc'[t] = a /\ queue'[t] = <<Op[a]>>
  BY <1>1, <1>2, Single DEF Await, GoTo, Submit, IInv, TypeOK
<1>4. queue'[t] # <<>>
  BY <1>3, Single
<1>5. a \in DOMAIN Op /\ a \in Inserts \cup Updates
  BY DEF Op, Inserts, Updates
<1>6. QueueShape(t)' /\ LockShape(t)' /\ EventShape(t)'
  BY <1>3, <1>4, <1>5 DEF QueueShape, Queued, LockShape, EventShape
<1>7. Is(t, "open")'
  BY <1>1 DEF WInv, Shape, RunShape, InTry, Is
<1>8. RunShape(t)'
  BY <1>3, <1>4, <1>7 DEF RunShape, InTry, Updates
<1> QED BY <1>6, <1>8 DEF Shape

(* A call that was awaited is executed, and the task goes on to the next:  *)
(* what a resumed task knows.                                              *)
LEMMA StatementReturnsShape ==
    ASSUME IInv, WInv, NEW t \in Territories, StatementReturns(t) \/ CaptureRowNext(t)
    PROVE  Shape(t)'
<1>1. /\ pc[t] \in Inserts \cup Updates /\ queue[t] = <<>>
      /\ UNCHANGED <<db, txn, writer, run, rowid, result, bootHead>>
  BY DEF StatementReturns, CaptureRowNext, CommitAfter, Resumed, store, process,
         Inserts, Updates
<1>2. PICK a \in DOMAIN Op :
         /\ Await(t, a, Op[a])
         /\ \/ pc[t] = "insert_run" /\ a = "commit_run"
            \/ pc[t] = "insert_event" /\ a = "commit_event"
            \/ pc[t] = "insert_error" /\ a = "commit_error"
            \/ pc[t] = "insert_prey" /\ a = "commit_capture"
            \/ pc[t] = "insert_capture" /\ a = "insert_prey"
            \/ pc[t] = "update_run" /\ a = "commit_outcome"
            \/ pc[t] = "update_abort" /\ a = "commit_abort"
  <2>1. CASE StatementReturns(t)
    BY <2>1 DEF StatementReturns, CommitAfter, Op
  <2>2. CASE CaptureRowNext(t)
    BY <2>2 DEF CaptureRowNext, Resumed, Op
  <2> QED BY <2>1, <2>2
<1>3. pc'[t] = a /\ queue'[t] = <<Op[a]>>
  BY <1>1, <1>2, Single DEF Await, GoTo, Submit, IInv, TypeOK
<1>4. queue'[t] # <<>>
  BY <1>3, Single
<1>5. QueueShape(t)' /\ LockShape(t)'
  BY <1>2, <1>3, <1>4 DEF QueueShape, Queued, LockShape, Commits, Inserts
<1>6. EventShape(t) /\ RunShape(t)
  BY DEF WInv, Shape
<1>7. \A l : New(t, txn.log) => New(t, txn.log)'
  BY <1>1 DEF New
<1>8. EventShape(t)'
  BY <1>1, <1>2, <1>3, <1>4, <1>6, <1>7 DEF EventShape
<1>9. \A s : (Is(t, s) => Is(t, s)') /\ (Becomes(t, s) => Becomes(t, s)')
  BY <1>1 DEF Is, Becomes
<1>10. RunShape(t)'
  BY <1>1, <1>2, <1>3, <1>4, <1>6, <1>9 DEF RunShape, InTry, Updates
<1> QED BY <1>5, <1>8, <1>10 DEF Shape

(* A commit is done: on with the think, the next posting or finish_run.    *)
LEMMA CommittedShape ==
    ASSUME IInv, WInv, NEW t \in Territories,
           RunStarted(t) \/ EventCommitted(t) \/ CaptureCommitted(t) \/ ErrorCommitted(t)
    PROVE  Shape(t)'
<1>1. /\ pc[t] \in {"commit_run", "commit_event", "commit_capture", "commit_error"}
      /\ queue[t] = <<>> /\ UNCHANGED <<db, txn, writer, run, rowid, bootHead>>
  BY DEF RunStarted, EventCommitted, CaptureCommitted, ErrorCommitted, Resumed, store, process
<1>2. \/ GoTo(t, "drive") /\ UNCHANGED queue
      \/ \E a \in {"insert_capture", "update_run"} : Await(t, a, Op[a])
  BY DEF RunStarted, EventCommitted, CaptureCommitted, ErrorCommitted, FinishRun, Op
<1>3. \/ pc'[t] = "drive" /\ queue'[t] = <<>>
      \/ \E a \in {"insert_capture", "update_run"} : pc'[t] = a /\ queue'[t] = <<Op[a]>>
  BY <1>1, <1>2, Single DEF Await, GoTo, Submit, IInv, TypeOK
<1>4. pc'[t] # "drive" => queue'[t] # <<>>
  BY <1>3, Single
<1>5. writer # t
  BY <1>1 DEF WInv, Shape, LockShape, Inserts, Updates
<1>6. QueueShape(t)' /\ LockShape(t)' /\ EventShape(t)'
  BY <1>1, <1>3, <1>4, <1>5 DEF QueueShape, Queued, Op, LockShape, EventShape
<1>7. Is(t, "open")'
  BY <1>1 DEF WInv, Shape, RunShape, InTry, Is
<1>8. RunShape(t)'
  BY <1>3, <1>4, <1>7 DEF RunShape, InTry, Updates
<1> QED BY <1>6, <1>8 DEF Shape

(* The outcome is committed, or the connection closed: out of the hunt.    *)
LEMMA LeavingShape ==
    ASSUME IInv, WInv, NEW t \in Territories,
           OutcomeCommitted(t) \/ AbortCommitted(t) \/ Closed(t)
    PROVE  Shape(t)'
<1>1. /\ pc[t] \in {"commit_outcome", "commit_abort", "close", "unwind"}
      /\ queue[t] = <<>> /\ UNCHANGED writer
  BY DEF OutcomeCommitted, AbortCommitted, Closed, Resumed, store
<1>2. \/ Await(t, "close", "close") \/ Await(t, "unwind", "close")
      \/ GoTo(t, "sleep") /\ UNCHANGED queue
      \/ GoTo(t, "ended") /\ UNCHANGED queue
  BY DEF OutcomeCommitted, AbortCommitted, Closed
<1>3. \/ pc'[t] \in {"close", "unwind"} /\ queue'[t] = <<"close">>
      \/ pc'[t] \in {"sleep", "ended"} /\ queue'[t] = <<>>
  BY <1>1, <1>2, Single DEF Await, GoTo, Submit, IInv, TypeOK
<1>4. writer # t
  BY <1>1 DEF WInv, Shape, LockShape, Inserts, Updates
<1>5. queue'[t] # <<"insert_run", "close">>
  BY <1>3, Pair
<1>6. QueueShape(t)' /\ LockShape(t)'
  BY <1>1, <1>3, <1>4 DEF QueueShape, Queued, Op, LockShape
<1>7. EventShape(t)' /\ RunShape(t)'
  BY <1>3, <1>5 DEF EventShape, RunShape, InTry, Updates
<1> QED BY <1>6, <1>7 DEF Shape

(* A statement failed: into the error handler, or out to the close.        *)
LEMMA FailShape ==
    ASSUME IInv, WInv, NEW t \in Territories, Fail(t)
    PROVE  Shape(t)'
<1>1. /\ queue[t] # <<>> /\ Head(queue[t]) \in Writes
      /\ UNCHANGED <<db, txn, writer, run, rowid, result, bootHead>>
  BY DEF Fail, FailUnheard, FailInTry, FailEscapes, Failing, store, task
<1>2. TypeOK /\ QueueShape(t) /\ LockShape(t) /\ EventShape(t) /\ RunShape(t)
  BY DEF IInv, WInv, Shape
<1>3. \A s : Is(t, s) => Is(t, s)'
  BY <1>1 DEF Is
<1>4. CASE FailUnheard(t)
  <2>1. Pop(t) /\ pc' = pc /\ Len(queue[t]) > 1
    BY <1>4 DEF FailUnheard, task
  <2>2. \/ pc[t] = "update_abort" /\ queue'[t] = <<"update_run">>
        \/ pc[t] = "unwind" /\ queue'[t] = <<"close">>
    <3>1. Len(queue[t]) # 1
      <4>1. Len(queue[t]) > 1
        BY <2>1
      <4>2. queue[t] \in Seq(Calls)
        BY <1>2 DEF TypeOK
      <4>3. Len(queue[t]) \in Nat
        BY <4>2
      <4>4. \A n \in Nat : n > 1 => n # 1
        OBVIOUS
      <4> QED BY <4>1, <4>3, <4>4
    <3>2. queue'[t] = Tail(queue[t])
      BY <1>2, <2>1 DEF Pop, TypeOK
    <3> QED BY <1>1, <1>2, <3>1, <3>2, HeadCases
  <2>3. queue'[t] # <<>> /\ queue'[t] # <<"insert_run", "close">>
    BY <2>2, Single, Pair
  <2>4. QueueShape(t)'
    BY <1>1, <1>2, <2>1, PopCases
  <2>5. LockShape(t)' /\ EventShape(t)'
    BY <2>1, <2>2, <2>3 DEF LockShape, EventShape, Updates
  <2>6. RunShape(t)'
    BY <1>1, <1>2, <1>3, <2>1, <2>2, <2>3 DEF RunShape, InTry, Updates
  <2> QED BY <2>4, <2>5, <2>6 DEF Shape
<1>5. CASE FailInTry(t)
  <2>1. pc[t] \in InTry /\ pc'[t] = "insert_error" /\ queue'[t] = <<"insert_step">>
    BY <1>5 DEF FailInTry, GoTo, IInv, TypeOK
  <2>2. queue'[t] # <<>>
    BY <2>1, Single
  <2>3. QueueShape(t)' /\ LockShape(t)' /\ EventShape(t)'
    BY <2>1, <2>2 DEF QueueShape, Queued, Op, LockShape, Inserts, EventShape
  <2>4. RunShape(t)'
    BY <1>2, <1>3, <2>1, <2>2 DEF RunShape, InTry, Updates
  <2> QED BY <2>3, <2>4 DEF Shape
<1>6. CASE FailEscapes(t)
  <2>1. pc'[t] = "close" /\ queue'[t] = <<"close">>
    BY <1>6 DEF FailEscapes, GoTo, IInv, TypeOK
  <2>2. queue'[t] # <<>>
    BY <2>1, Single
  <2>3. QueueShape(t)' /\ LockShape(t)' /\ EventShape(t)' /\ RunShape(t)'
    BY <2>1, <2>2 DEF QueueShape, Queued, Op, LockShape, EventShape, RunShape, InTry, Updates
  <2> QED BY <2>3 DEF Shape
<1> QED BY <1>4, <1>5, <1>6 DEF Fail

(* CancelledError at the await: the call under way stays queued.           *)
LEMMA CancelShape ==
    ASSUME IInv, WInv, NEW t \in Territories, Cancel(t)
    PROVE  Shape(t)'
<1>1. UNCHANGED <<db, txn, writer, run, rowid, bootHead>>
  BY DEF Cancel, store, process
<1>2. TypeOK /\ QueueShape(t) /\ LockShape(t) /\ EventShape(t) /\ RunShape(t)
  BY DEF IInv, WInv, Shape
<1>3. \A s : Is(t, s) => Is(t, s)'
  BY <1>1 DEF Is
<1>4. CASE pc[t] = "sleep" /\ GoTo(t, "ended") /\ UNCHANGED <<queue, result>>
  <2>1. pc'[t] = "ended" /\ queue'[t] = <<>> /\ writer # t
    BY <1>2, <1>4 DEF GoTo, TypeOK, QueueShape, LockShape, Inserts, Updates, Commits
  <2> QED BY <1>1, <2>1 DEF Shape, QueueShape, Op, LockShape, EventShape, RunShape, InTry, Updates
<1>5. CASE pc[t] = "close" /\ GoTo(t, "unwind") /\ UNCHANGED <<queue, result>>
  <2>1. /\ pc'[t] = "unwind" /\ queue'[t] = queue[t]
        /\ queue[t] = <<>> \/ queue[t] = <<"close">>
    BY <1>2, <1>5 DEF GoTo, TypeOK, QueueShape, Queued, Op
  <2>2. queue'[t] # <<"insert_run", "close">>
    BY <2>1, Pair
  <2>3. QueueShape(t)' /\ LockShape(t)'
    BY <1>1, <1>2, <1>5, <2>1 DEF QueueShape, Queued, Op, LockShape, Inserts, Updates, Commits
  <2>4. EventShape(t)' /\ RunShape(t)'
    BY <2>1, <2>2 DEF EventShape, RunShape, InTry, Updates
  <2> QED BY <2>3, <2>4 DEF Shape
<1>6. CASE /\ pc[t] \in InTry /\ Await(t, "update_abort", "update_run")
           /\ result' = [result EXCEPT ![t] = "shutdown"]
  <2>1. /\ pc'[t] = "update_abort" /\ queue'[t] = Append(queue[t], "update_run")
        /\ result'[t] = "shutdown"
    BY <1>2, <1>6 DEF Await, GoTo, Submit, TypeOK
  <2>2. queue[t] = <<>> \/ \E x \in Interrupted : queue[t] = <<x>>
    BY <1>2, <1>6 DEF QueueShape, Queued, Op, InTry, Interrupted
  <2>3. queue'[t] = <<"update_run">> \/ \E x \in Interrupted : queue'[t] = <<x, "update_run">>
    <3>1. CASE queue[t] = <<>>
      BY <2>1, <3>1, Single
    <3>2. ASSUME NEW x \in Interrupted, queue[t] = <<x>>
          PROVE  queue'[t] = <<x, "update_run">>
      BY <2>1, <3>2, Pair
    <3> QED BY <2>2, <3>1, <3>2
  <2>4. queue'[t] # <<>>
    BY <2>3, Single, Pair
  <2>5. QueueShape(t)' /\ LockShape(t)' /\ EventShape(t)'
    BY <2>1, <2>3 DEF QueueShape, Queued, Op, LockShape, Updates, EventShape
  <2>6. RunShape(t)'
    BY <1>2, <1>3, <1>6, <2>1, <2>4 DEF RunShape, InTry, Updates
  <2> QED BY <2>5, <2>6 DEF Shape
<1>7. CASE pc[t] \in Unprotected /\ Await(t, "unwind", "close") /\ UNCHANGED result
  <2>1. pc'[t] = "unwind" /\ queue'[t] = Append(queue[t], "close")
    BY <1>2, <1>7 DEF Await, GoTo, Submit, TypeOK
  <2>2. \/ queue[t] = <<>>
        \/ /\ queue[t] = <<Op[pc[t]]>>
           /\ Op[pc[t]] \in Calls \ {"close"} /\ pc[t] \in DOMAIN Op
    BY <1>2, <1>7 DEF QueueShape, Queued, Op, Unprotected, Calls, Writes
  <2>3. \/ queue'[t] = <<"close">>
        \/ queue'[t] = <<Op[pc[t]], "close">> /\ queue[t] # <<>>
    <3>1. CASE queue[t] = <<>>
      BY <2>1, <3>1, Single
    <3>2. CASE queue[t] = <<Op[pc[t]]>>
      <4>1. queue'[t] = Append(<<Op[pc[t]]>>, "close") /\ queue[t] # <<>>
        BY <2>1, <3>2, Single
      <4> QED BY <4>1, Pair
    <3> QED BY <2>2, <3>1, <3>2
  <2>4. queue'[t] # <<>>
    BY <2>3, Single, Pair
  <2>5. queue'[t] = <<"insert_run", "close">> => pc[t] = "insert_run" /\ queue[t] # <<>>
    BY <2>2, <2>3, Pair, Submitters
  <2>6. QueueShape(t)'
    BY <2>1, <2>2, <2>3 DEF QueueShape, Queued, Op
  <2>7. LockShape(t)' /\ EventShape(t)'
    BY <2>1, <2>4 DEF LockShape, EventShape
  <2>8. RunShape(t)'
    BY <1>2, <1>3, <2>1, <2>5 DEF RunShape, InTry, Updates
  <2> QED BY <2>6, <2>7, <2>8 DEF Shape
<1> QED BY <1>4, <1>5, <1>6, <1>7 DEF Cancel

(* A task announces only what is committed.                                *)
LEMMA TaskWriteAhead ==
    ASSUME IInv, WInv, NEW t \in Territories,
           Launch(t) \/ Drive(t) \/ Resume(t) \/ Fail(t) \/ Cancel(t)
    PROVE  WriteAhead'
<1>1. UNCHANGED <<db, bootHead>>
  BY DEF Launch, Drive, Record, Capture, Conclude, DriveRaises, Cancel,
         Fail, FailUnheard, FailInTry, FailEscapes, Resume, StatementReturns,
         CaptureRowNext, RunStarted, EventCommitted, CaptureCommitted,
         ErrorCommitted, OutcomeCommitted, AbortCommitted, Closed, store, process
<1>2. \/ UNCHANGED <<published, pulsed>>
      \/ /\ EventCommitted(t) \/ CaptureCommitted(t) \/ ErrorCommitted(t)
         /\ Publish(t)
      \/ OutcomeCommitted(t)
  BY DEF Launch, Drive, Record, Capture, Conclude, DriveRaises, Cancel,
         Fail, FailUnheard, FailInTry, FailEscapes, Resume, StatementReturns,
         CaptureRowNext, RunStarted, EventCommitted, CaptureCommitted,
         ErrorCommitted, AbortCommitted, Closed, hub
<1>3. WriteAhead /\ Shape(t) /\ rowid[t] \in Nat /\ bootHead \in Nat /\ published \in Seq(Nat)
  BY DEF IInv, WInv, TypeOK
<1>4. CASE UNCHANGED <<published, pulsed>>
  BY <1>1, <1>3, <1>4 DEF WriteAhead
<1>5. CASE /\ EventCommitted(t) \/ CaptureCommitted(t) \/ ErrorCommitted(t)
           /\ Publish(t)
  <2>1. pc[t] \in {"commit_event", "commit_capture", "commit_error"} /\ queue[t] = <<>>
    BY <1>5 DEF EventCommitted, CaptureCommitted, ErrorCommitted, Resumed
  <2>2. New(t, db.log)
    BY <1>3, <2>1 DEF Shape, EventShape
  <2>3. db.log \in Seq(Row)
    BY DEF IInv, TypeOK, Store
  <2>4. rowid[t] \in (bootHead + 1)..Len(db.log)
    BY <1>3, <2>2, <2>3 DEF New
  <2>5. published' = Append(published, rowid[t]) /\ UNCHANGED pulsed
    BY <1>5 DEF Publish
  <2>6. \A k \in DOMAIN published' :
           \/ published'[k] = rowid[t]
           \/ k \in DOMAIN published /\ published'[k] = published[k]
    BY <1>3, <2>5
  <2> QED BY <1>1, <1>3, <2>4, <2>5, <2>6 DEF WriteAhead
<1>6. CASE OutcomeCommitted(t)
  <2>1. /\ pc[t] = "commit_outcome" /\ queue[t] = <<>>
        /\ pulsed' = pulsed \cup {run[t]} /\ UNCHANGED published
    BY <1>6 DEF OutcomeCommitted, Resumed
  <2>2. db.runs[run[t]] \in Outcomes
    BY <1>3, <2>1 DEF Shape, RunShape, IInv, TypeOK
  <2> QED BY <1>1, <1>3, <2>1, <2>2 DEF WriteAhead
<1> QED BY <1>2, <1>4, <1>5, <1>6

(* A step of a task leaves the store and the other tasks alone.            *)
LEMMA TaskTouchesOwn ==
    ASSUME IInv, NEW t \in Territories,
           Launch(t) \/ Drive(t) \/ Resume(t) \/ Fail(t) \/ Cancel(t)
    PROVE  /\ UNCHANGED <<db, txn, writer, rowid, bootHead>>
           /\ \A u \in Territories \ {t} : /\ queue'[u] = queue[u] /\ pc'[u] = pc[u]
                                          /\ run'[u] = run[u] /\ result'[u] = result[u]
<1>1. CASE Launch(t)
  BY <1>1 DEF Launch, Await, GoTo, Submit, store, process, IInv, TypeOK
<1>2. CASE Drive(t)
  BY <1>2 DEF Drive, Record, Capture, Conclude, DriveRaises, FinishRun, Await, GoTo, Submit,
              store, process, IInv, TypeOK
<1>3. CASE Resume(t)
  BY <1>3 DEF Resume, StatementReturns, CaptureRowNext, RunStarted, EventCommitted,
              CaptureCommitted, ErrorCommitted, OutcomeCommitted, AbortCommitted, Closed,
              FinishRun, Await, GoTo, Submit, store, process, IInv, TypeOK
<1>4. CASE Fail(t)
  BY <1>4 DEF Fail, FailUnheard, FailInTry, FailEscapes, Pop, GoTo, store, task, IInv, TypeOK
<1>5. CASE Cancel(t)
  BY <1>5 DEF Cancel, Await, GoTo, Submit, store, process, IInv, TypeOK
<1> QED BY <1>1, <1>2, <1>3, <1>4, <1>5

(* A step of a task keeps WInv.                                            *)
LEMMA TaskWInv ==
    ASSUME IInv, WInv, NEW t \in Territories,
           Launch(t) \/ Drive(t) \/ Resume(t) \/ Fail(t) \/ Cancel(t)
    PROVE  WInv'
<1>1. IInv' /\ TypeOK /\ RunKnown
  BY TaskIInv DEF IInv
<1>2. Shape(t)'
  BY LaunchShape, DriveShape, StatementReturnsShape, CommittedShape, LeavingShape,
     FailShape, CancelShape DEF Resume
<1>3. /\ UNCHANGED <<db, txn, writer, rowid, bootHead>>
      /\ \A u \in Territories \ {t} : /\ queue'[u] = queue[u] /\ pc'[u] = pc[u]
                                     /\ run'[u] = run[u] /\ result'[u] = result[u]
  BY <1>1, TaskTouchesOwn
<1>4. \A u \in Territories \ {t} : Shape(u)'
  <2>1. \A u \in Territories \ {t} : Spared(u)
    BY <1>1, <1>3, TaskSpares
  <2> QED BY <1>1, <2>1, SparedShape DEF IInv, WInv
<1>5. TxnOnFile'
  BY <1>3 DEF WInv, TxnOnFile
<1>6. RunsDiffer'
  <2>1. CASE Launch(t)
    BY <2>1, LaunchShape
  <2>2. CASE Closed(t)
    <3>1. run' = [run EXCEPT ![t] = None]
      BY <2>2 DEF Closed
    <3> QED BY <3>1 DEF WInv, RunsDiffer, IInv, TypeOK
  <2>3. CASE ~ Launch(t) /\ ~ Closed(t)
    <3>1. UNCHANGED run
      BY <2>3 DEF Drive, Record, Capture, Conclude, DriveRaises, Cancel,
             Fail, FailUnheard, FailInTry, FailEscapes, Resume, StatementReturns,
             CaptureRowNext, RunStarted, EventCommitted, CaptureCommitted,
             ErrorCommitted, OutcomeCommitted, AbortCommitted, task
    <3> QED BY <3>1 DEF WInv, RunsDiffer
  <2> QED BY <2>1, <2>2, <2>3
<1>7. WriteAhead'
  BY TaskWriteAhead
<1> QED BY <1>2, <1>4, <1>5, <1>6, <1>7 DEF WInv

(* Shutdown, crash and boot: a task that ended holds nothing.              *)
LEMMA ProcessWInv ==
    ASSUME IInv, WInv, Stop \/ Off \/ Crash \/ Boot
    PROVE  WInv'
<1>1. CASE Stop \/ Off
  BY <1>1 DEF Stop, Off, store, task, hub, WInv, TxnOnFile, RunsDiffer, WriteAhead, Shape,
              QueueShape, Queued, LockShape, EventShape, New, RunShape, Is, Becomes
<1>2. db.log \in Seq(Row) /\ db.runs \in [RunIds -> Status]
  BY DEF IInv, TypeOK, Store
<1>3. Len(db.log) \in Nat
  BY <1>2
<1>4. CASE Crash
  <2>1. /\ txn' = db /\ writer' = None /\ UNCHANGED <<db, published, pulsed, bootHead>>
        /\ \A t \in Territories : queue'[t] = <<>> /\ pc'[t] = "ended" /\ run'[t] = None
    BY <1>4 DEF Crash, hub
  <2>2. \A t \in Territories : writer' # t
    BY <2>1, HuntStoreAssumption
  <2>3. TxnOnFile' /\ RunsDiffer' /\ WriteAhead'
    BY <1>3, <2>1 DEF WInv, TxnOnFile, RunsDiffer, WriteAhead
  <2>4. \A t \in Territories : Shape(t)'
    BY <2>1, <2>2 DEF Shape, QueueShape, Op, LockShape, EventShape, RunShape, InTry, Updates
  <2> QED BY <2>3, <2>4 DEF WInv
<1>5. CASE Boot
  <2>1. \A t \in Territories : pc[t] = "ended"
    BY <1>5 DEF Boot, IInv, DownIsEnded
  <2>2. \A t \in Territories : queue[t] = <<>> /\ writer # t
    BY <2>1 DEF WInv, Shape, QueueShape, LockShape, Inserts, Updates, Commits
  <2>3. /\ txn' = db' /\ UNCHANGED <<writer, queue, run>>
        /\ \A t \in Territories : pc'[t] = "sleep"
        /\ published' = <<>> /\ pulsed' = {} /\ bootHead' = Len(db.log)
    BY <1>5 DEF Boot
  <2>4. db'.log = db.log
    BY <1>5 DEF Boot, IInv, TypeOK, Store
  <2>5. TxnOnFile' /\ RunsDiffer' /\ WriteAhead'
    BY <1>3, <2>3, <2>4 DEF WInv, TxnOnFile, RunsDiffer, WriteAhead
  <2>6. \A t \in Territories : Shape(t)'
    BY <2>2, <2>3 DEF Shape, QueueShape, Op, LockShape, EventShape, RunShape, InTry, Updates
  <2> QED BY <2>5, <2>6 DEF WInv
<1> QED BY <1>1, <1>4, <1>5

(* WInv is inductive, given IInv.                                          *)
LEMMA NextWInv == IInv /\ WInv /\ [Next]_vars => WInv'
<1> SUFFICES ASSUME IInv, WInv, [Next]_vars PROVE WInv'
  OBVIOUS
<1>1. CASE UNCHANGED vars
  BY <1>1 DEF vars, store, task, hub, process, WInv, TxnOnFile, RunsDiffer, WriteAhead, Shape,
              QueueShape, Queued, LockShape, EventShape, New, RunShape, Is, Becomes
<1>2. CASE Next
  BY <1>2, ExecuteWInv, TaskWInv, ProcessWInv DEF Next
<1> QED BY <1>1, <1>2

(* What every await of a task implies, in every reachable state.           *)
THEOREM AwaitsKeepShape == Spec => []WInv
BY InvariantHolds, InitWInv, NextWInv, PTL DEF Spec

(* Invariant 1, write-ahead: whatever is cancelled, fails, crashes or      *)
(* interleaves, the hub hears of no event and of no end of a run before it *)
(* is committed (db.append_event, run_hunt).                               *)
THEOREM AnnouncedIsCommitted == Spec => []WriteAhead
<1>1. WInv => WriteAhead
  BY DEF WInv
<1> QED BY <1>1, AwaitsKeepShape, PTL

(* No hunt holds the write lock while its brain thinks, a tool runs or its *)
(* loop sleeps.                                                            *)
THEOREM LockIsShort == Spec => []NoLockAcrossThink
<1>1. WInv => NoLockAcrossThink
  BY DEF WInv, Shape, LockShape, NoLockAcrossThink, Inserts, Updates, Commits
<1> QED BY <1>1, AwaitsKeepShape, PTL

(* run_hunt's shielded cleanup hands the cancellation on only when its run *)
(* is committed as aborted by the shutdown.                                *)
THEOREM CleanupIsDurable == Spec => CleanupCloses
<1> DEFINE Step == \A t \in Territories :
                      pc[t] = "commit_abort" /\ pc'[t] = "unwind"
                      => db.runs[run[t]] = "shutdown"
<1>1. IInv /\ WInv /\ [Next]_vars => Step
  <2> SUFFICES ASSUME IInv, WInv, [Next]_vars, NEW t \in Territories,
                      pc[t] = "commit_abort", pc'[t] = "unwind"
               PROVE  db.runs[run[t]] = "shutdown"
    OBVIOUS
  <2>1. queue[t] = <<>>
    <3>1. AbortCommitted(t)
      <4>1. PICK u \in Territories :
               Execute(u) \/ Launch(u) \/ Drive(u) \/ Resume(u) \/ Fail(u) \/ Cancel(u)
        BY DEF Next, vars, task, Stop, Off, Crash, Boot
      <4>2. CASE Execute(u)
        BY <4>2 DEF Execute, ExecInsertRun, ExecAppend, ExecInsertPrey, ExecUpdateRun, Write,
                    ExecCommit, ExecClose, task
      <4>3. CASE Launch(u) \/ Drive(u) \/ Fail(u)
        BY <4>3 DEF Launch, Drive, Record, Capture, Conclude, DriveRaises, FinishRun, Await,
                    GoTo, Fail, FailUnheard, FailInTry, FailEscapes, task, IInv, TypeOK
      <4>4. CASE Cancel(u)
        BY <4>4 DEF Cancel, Await, GoTo, InTry, Unprotected, IInv, TypeOK
      <4>5. CASE Resume(u)
        <5>1. pc \in [Territories -> Awaits]
          BY DEF IInv, TypeOK
        <5>2. \E a : pc' = [pc EXCEPT ![u] = a]
          BY <4>5 DEF Resume, StatementReturns, CaptureRowNext, RunStarted, EventCommitted,
                      CaptureCommitted, ErrorCommitted, OutcomeCommitted, AbortCommitted,
                      Closed, FinishRun, Await, GoTo
        <5>3. u = t
          BY <5>1, <5>2
        <5> QED BY <4>5, <5>3
                DEF Resume, StatementReturns, CaptureRowNext, RunStarted, EventCommitted,
                    CaptureCommitted, ErrorCommitted, OutcomeCommitted, Closed, Resumed,
                    CommitAfter
      <4> QED BY <4>1, <4>2, <4>3, <4>4, <4>5
    <3> QED BY <3>1 DEF AbortCommitted, Resumed
  <2> QED BY <2>1 DEF WInv, Shape, RunShape
<1>2. Spec => [][Step]_vars
  BY <1>1, InvariantHolds, AwaitsKeepShape, PTL DEF Spec
<1> QED BY <1>2 DEF CleanupCloses

-----------------------------------------------------------------------------
(* A capture is split only by an aborted hunt or a failed statement, and   *)
(* while nothing disturbs the daemon every open run has its hunt and every *)
(* commit reaches the hub.                                                 *)

(* The captures of a log, and those without their prey row.                *)
CapturesOf(s) == {i \in DOMAIN s.log : s.log[i].kind = "capture"}

SplitOf(s) == CapturesOf(s) \ s.prey

(* A hunt about to insert a prey row has the event in its transaction.     *)
InHand(t) ==
    /\ \/ pc[t] = "insert_capture" /\ queue[t] = <<>>
       \/ queue[t] # <<>> /\ Head(queue[t]) = "insert_prey"
       => writer = t /\ rowid[t] \in CapturesOf(txn)
    /\ pc[t] = "unwind" /\ queue[t] # <<>> =>
          Head(queue[t]) \notin {"insert_capture", "insert_prey"}

(* t is between capture_prey's two INSERTs, or was cancelled there and has *)
(* not yet written its outcome; the event is i.                            *)
AtHalf(t) ==
    IF queue[t] = <<>> THEN pc[t] = "insert_capture"
    ELSE /\ pc[t] \in {"insert_prey", "update_abort"}
         /\ Head(queue[t]) \in {"insert_prey", "update_run"}

Half(t, i) ==
    AtHalf(t) /\ writer = t /\ i = rowid[t] /\ txn.log[i].run = run[t]

ShutDown(s, i) == s.runs[s.log[i].run] = "shutdown"

SplitIsExcused ==
    faults = 0 =>
        /\ \A i \in SplitOf(db) : ShutDown(db, i)
        /\ \A i \in SplitOf(txn) :
              ShutDown(txn, i) \/ \E t \in Territories : Half(t, i)

PreyHasEvent == db.prey \subseteq CapturesOf(db) /\ txn.prey \subseteq CapturesOf(txn)

CInv == /\ PreyHasEvent /\ SplitIsExcused
        /\ \A t \in Territories : InHand(t)

-----------------------------------------------------------------------------
(* A spared task is where it was in its capture.                           *)
LEMMA SparedInHand ==
    ASSUME NEW u \in Territories, InHand(u), Spared(u)
    PROVE  InHand(u)'
BY DEF InHand, Spared, CapturesOf

(* The INSERT of a run: no capture is under way.                           *)
LEMMA InsertRunCaptures ==
    ASSUME IInv, WInv, CInv, NEW t \in Territories, ExecInsertRun(t)
    PROVE  PreyHasEvent' /\ SplitIsExcused' /\ InHand(t)'
<1>1. /\ queue[t] # <<>> /\ Head(queue[t]) = "insert_run" /\ Pop(t)
      /\ writer \in {None, t} /\ writer' = t
      /\ UNCHANGED <<db, pc, run, rowid, faults>>
  BY DEF ExecInsertRun, Calling, Write, process
<1>2. TypeOK /\ QueueShape(t) /\ RunShape(t) /\ run[t] \in RunIds
  BY <1>1 DEF IInv, RunKnown, WInv, Shape
<1>3. /\ txn'.log = txn.log /\ txn'.prey = txn.prey
      /\ txn'.runs = [txn.runs EXCEPT ![run[t]] = "open"]
  BY <1>2 DEF ExecInsertRun, Write, TypeOK, Store
<1>4. \/ pc[t] = "insert_run" /\ queue'[t] = <<>>
      \/ pc[t] = "unwind" /\ queue[t] = <<"insert_run", "close">> /\ queue'[t] = <<"close">>
  BY <1>1, <1>2, PopCases, Submitters DEF Interrupted
<1>5. txn.runs[run[t]] = "absent"
  BY <1>1, <1>2, <1>4 DEF RunShape, Is
<1>6. PreyHasEvent'
  BY <1>1, <1>3 DEF CInv, PreyHasEvent, CapturesOf
<1>7. \A u \in Territories : \A i : ~ Half(u, i)
  BY <1>1, HuntStoreAssumption DEF Half, AtHalf
<1>8. SplitIsExcused'
  <2> SUFFICES ASSUME faults = 0
               PROVE  /\ \A i \in SplitOf(db) : ShutDown(db, i)'
                      /\ \A i \in SplitOf(txn') : ShutDown(txn, i)'
    BY <1>1 DEF SplitIsExcused
  <2>1. \A i \in SplitOf(db) : ShutDown(db, i)'
    BY <1>1 DEF CInv, SplitIsExcused, ShutDown
  <2>2. ASSUME NEW i \in SplitOf(txn') PROVE ShutDown(txn, i)'
    <3>1. i \in SplitOf(txn) /\ i \in DOMAIN txn.log
      BY <1>3 DEF SplitOf, CapturesOf
    <3>2. txn.runs[txn.log[i].run] = "shutdown"
      BY <1>7, <3>1 DEF CInv, SplitIsExcused, ShutDown
    <3> QED BY <1>2, <1>3, <1>5, <3>1, <3>2 DEF ShutDown, TypeOK, Store
  <2> QED BY <2>1, <2>2
<1>9. InHand(t)'
  BY <1>1, <1>4, Single DEF InHand
<1> QED BY <1>6, <1>8, <1>9

(* The INSERT of an event: a capture is half in the log.                   *)
LEMMA AppendCaptures ==
    ASSUME IInv, WInv, CInv, NEW t \in Territories, NEW kind \in Kinds, ExecAppend(t, kind)
    PROVE  PreyHasEvent' /\ SplitIsExcused' /\ InHand(t)'
<1> DEFINE row == [run |-> run[t], seq |-> NextSeq(txn.log, run[t]), kind |-> kind]
           last == Len(txn.log) + 1
<1>1. /\ queue[t] # <<>> /\ Pop(t)
      /\ Head(queue[t]) = IF kind = "capture" THEN "insert_capture" ELSE "insert_step"
      /\ writer \in {None, t} /\ writer' = t
      /\ UNCHANGED <<db, pc, run, faults>>
  BY DEF ExecAppend, Calling, Write, process
<1>2. TypeOK /\ QueueShape(t) /\ txn.log \in Seq(Row) /\ rowid'[t] = last
  BY DEF IInv, WInv, Shape, TypeOK, Store, ExecAppend
<1>3. txn'.log = Append(txn.log, row) /\ txn'.prey = txn.prey /\ txn'.runs = txn.runs
  <2>1. txn' = [txn EXCEPT !.log = Append(txn.log, row)]
    BY DEF ExecAppend, Write, IInv, TypeOK, Store
  <2> HIDE DEF row
  <2> QED BY <2>1 DEF IInv, TypeOK, Store
<1>4. /\ Len(txn.log) \in Nat /\ DOMAIN txn.log = 1..Len(txn.log)
      /\ DOMAIN txn'.log = 1..last /\ txn'.log[last] = row
      /\ \A i \in DOMAIN txn.log : txn'.log[i] = txn.log[i]
  <2> HIDE DEF row
  <2> QED BY <1>2, <1>3
<1>5. row.run = run[t] /\ row.kind = kind
  OBVIOUS
<1> HIDE DEF row, last
<1>6. /\ last \in DOMAIN txn'.log
      /\ \A i \in DOMAIN txn'.log : i \in DOMAIN txn.log \/ i = last
      /\ DOMAIN txn.log \subseteq DOMAIN txn'.log
  BY <1>4 DEF last
<1>7. PreyHasEvent'
  BY <1>1, <1>3, <1>4, <1>6 DEF CInv, PreyHasEvent, CapturesOf
<1>8. \/ pc[t] \in {"insert_event", "insert_error", "insert_capture"} /\ queue'[t] = <<>>
      \/ pc[t] = "update_abort" /\ queue'[t] = <<"update_run">>
      \/ pc[t] = "unwind" /\ queue'[t] = <<"close">>
  BY <1>1, <1>2, PopCases, Submitters DEF IInv
<1>9. pc[t] = "insert_capture" => kind = "capture"
  BY <1>1, <1>2, HeadCases DEF Op
<1>10. kind = "capture" => last \in CapturesOf(txn')
  BY <1>4, <1>5, <1>6 DEF CapturesOf
<1>11. InHand(t)'
  <2>1. ~ (queue'[t] # <<>> /\ Head(queue'[t]) \in {"insert_capture", "insert_prey"})
    BY <1>8, Single
  <2> QED BY <1>1, <1>2, <1>9, <1>10, <2>1 DEF InHand
<1>12. \A u \in Territories : \A i : ~ Half(u, i)
  BY <1>1, HuntStoreAssumption DEF Half, AtHalf
<1>13. SplitIsExcused'
  <2> SUFFICES ASSUME faults = 0
               PROVE  /\ \A i \in SplitOf(db) : ShutDown(db, i)'
                      /\ \A i \in SplitOf(txn') :
                            ShutDown(txn, i)' \/ \E u \in Territories : Half(u, i)'
    BY <1>1 DEF SplitIsExcused
  <2>1. \A i \in SplitOf(db) : ShutDown(db, i)'
    BY <1>1 DEF CInv, SplitIsExcused, ShutDown
  <2>2. ASSUME NEW i \in SplitOf(txn')
        PROVE  ShutDown(txn, i)' \/ \E u \in Territories : Half(u, i)'
    <3>1. i \in DOMAIN txn'.log /\ txn'.log[i].kind = "capture" /\ i \notin txn.prey
      BY <1>3 DEF SplitOf, CapturesOf
    <3>2. CASE i \in DOMAIN txn.log
      <4>1. i \in SplitOf(txn)
        BY <1>4, <3>1, <3>2 DEF SplitOf, CapturesOf
      <4>2. ShutDown(txn, i)
        BY <1>12, <4>1 DEF CInv, SplitIsExcused
      <4> QED BY <1>3, <1>4, <3>2, <4>2 DEF ShutDown
    <3>3. CASE i = last
      <4>1. Head(queue[t]) = "insert_capture"
        BY <1>1, <1>4, <1>5, <3>1, <3>3
      <4>2. \/ pc[t] = "insert_capture" /\ queue'[t] = <<>>
            \/ pc[t] = "update_abort" /\ queue'[t] = <<"update_run">>
        <5>1. pc[t] # "unwind"
          BY <1>1, <4>1 DEF CInv, InHand
        <5>2. pc[t] \in DOMAIN Op => pc[t] = "insert_capture"
          BY <1>1, <1>2, <4>1, HeadCases, Submitters DEF Op
        <5>3. {"insert_event", "insert_error", "insert_capture"} \subseteq DOMAIN Op
          BY DEF Op
        <5> QED BY <1>8, <5>1, <5>2, <5>3
      <4>3. AtHalf(t)'
        BY <1>1, <4>2, Single DEF AtHalf
      <4>4. Half(t, i)'
        BY <1>1, <1>2, <1>4, <1>5, <3>3, <4>3 DEF Half
      <4> QED BY <4>4
    <3> QED BY <1>6, <3>1, <3>2, <3>3
  <2> QED BY <2>1, <2>2
<1> QED BY <1>7, <1>11, <1>13

(* The INSERT of the prey row completes the capture.                       *)
LEMMA InsertPreyCaptures ==
    ASSUME IInv, WInv, CInv, NEW t \in Territories, ExecInsertPrey(t)
    PROVE  PreyHasEvent' /\ SplitIsExcused' /\ InHand(t)'
<1>1. /\ queue[t] # <<>> /\ Head(queue[t]) = "insert_prey" /\ Pop(t)
      /\ writer \in {None, t} /\ writer' = t
      /\ UNCHANGED <<db, pc, run, rowid, faults>>
  BY DEF ExecInsertPrey, Calling, Write, process
<1>2. TypeOK /\ QueueShape(t)
  BY DEF IInv, WInv, Shape
<1>3. txn'.log = txn.log /\ txn'.runs = txn.runs /\ txn'.prey = txn.prey \cup {rowid[t]}
  BY <1>2 DEF ExecInsertPrey, Write, TypeOK, Store
<1>4. rowid[t] \in CapturesOf(txn)
  BY <1>1 DEF CInv, InHand
<1>5. PreyHasEvent'
  BY <1>1, <1>3, <1>4 DEF CInv, PreyHasEvent, CapturesOf
<1>6. \/ pc[t] = "insert_prey" /\ queue'[t] = <<>>
      \/ pc[t] = "update_abort" /\ queue'[t] = <<"update_run">>
      \/ pc[t] = "unwind" /\ queue'[t] = <<"close">>
  BY <1>1, <1>2, PopCases, Submitters
<1>7. InHand(t)'
  BY <1>1, <1>6, Single DEF InHand
<1>8. \A u \in Territories : \A i : Half(u, i) => i = rowid[t]
  BY <1>1, HuntStoreAssumption DEF Half
<1>9. SplitIsExcused'
  <2> SUFFICES ASSUME faults = 0
               PROVE  /\ \A i \in SplitOf(db) : ShutDown(db, i)'
                      /\ \A i \in SplitOf(txn') : ShutDown(txn, i)'
    BY <1>1 DEF SplitIsExcused
  <2>1. \A i \in SplitOf(db) : ShutDown(db, i)'
    BY <1>1 DEF CInv, SplitIsExcused, ShutDown
  <2>2. ASSUME NEW i \in SplitOf(txn') PROVE ShutDown(txn, i)'
    <3>1. i \in SplitOf(txn) /\ i # rowid[t]
      BY <1>3 DEF SplitOf, CapturesOf
    <3> QED BY <1>3, <1>8, <3>1 DEF CInv, SplitIsExcused, ShutDown
  <2> QED BY <2>1, <2>2
<1> QED BY <1>5, <1>7, <1>9

(* The UPDATE: of a capture that was interrupted, the shutdown's.          *)
LEMMA UpdateRunCaptures ==
    ASSUME IInv, WInv, CInv, NEW t \in Territories, ExecUpdateRun(t)
    PROVE  PreyHasEvent' /\ SplitIsExcused' /\ InHand(t)'
<1>1. /\ queue[t] # <<>> /\ Head(queue[t]) = "update_run" /\ Pop(t)
      /\ writer \in {None, t} /\ writer' = t
      /\ UNCHANGED <<db, pc, run, rowid, faults>>
  BY DEF ExecUpdateRun, Calling, Write, process
<1>2. TypeOK /\ QueueShape(t) /\ RunShape(t) /\ run[t] \in RunIds
      /\ txn.runs \in [RunIds -> Status]
  BY <1>1 DEF IInv, TypeOK, Store, RunKnown, WInv, Shape
<1>3. /\ txn'.log = txn.log /\ txn'.prey = txn.prey
      /\ txn'.runs = IF txn.runs[run[t]] = "open"
                     THEN [txn.runs EXCEPT ![run[t]] = result[t]] ELSE txn.runs
  BY DEF ExecUpdateRun, Write, IInv, TypeOK, Store
<1>4. PreyHasEvent'
  BY <1>1, <1>3 DEF CInv, PreyHasEvent, CapturesOf
<1>5. \/ pc[t] \in Updates /\ queue'[t] = <<>>
      \/ pc[t] = "unwind" /\ queue'[t] = <<"close">>
  BY <1>1, <1>2, PopCases, Submitters DEF Updates, Interrupted
<1>6. InHand(t)'
  BY <1>1, <1>5, Single DEF InHand, Updates
<1>7. ASSUME NEW u \in Territories, NEW i \in DOMAIN txn.log, Half(u, i)
      PROVE  ShutDown(txn, i)'
  <2>1. u = t /\ AtHalf(t) /\ txn.log[i].run = run[t]
    BY <1>1, <1>7, HuntStoreAssumption DEF Half
  <2>2. pc[t] = "update_abort"
    BY <1>1, <1>5, <2>1 DEF AtHalf, Updates
  <2>3. txn.runs[run[t]] = "open" /\ result[t] = "shutdown"
    BY <1>1, <1>2, <2>2 DEF RunShape, Updates, Is
  <2> QED BY <1>2, <1>3, <2>1, <2>3 DEF ShutDown
<1>8. ASSUME NEW i \in DOMAIN txn.log, ShutDown(txn, i)
      PROVE  ShutDown(txn, i)'
  <2>1. txn.log[i] \in Row
    BY <1>2 DEF TypeOK, Store
  <2>2. txn.log[i].run \in RunIds
    BY <2>1 DEF Row
  <2> QED BY <1>2, <1>3, <1>8, <2>2 DEF ShutDown
<1>9. SplitIsExcused'
  <2>1. SplitOf(txn') = SplitOf(txn) /\ SplitOf(txn) \subseteq DOMAIN txn.log
    BY <1>3 DEF SplitOf, CapturesOf
  <2>2. faults = 0 => \A i \in SplitOf(db) : ShutDown(db, i)'
    BY <1>1 DEF CInv, SplitIsExcused, ShutDown
  <2>3. faults = 0 => \A i \in SplitOf(txn') : ShutDown(txn, i)'
    BY <1>7, <1>8, <2>1 DEF CInv, SplitIsExcused
  <2> QED BY <1>1, <2>2, <2>3 DEF SplitIsExcused
<1> QED BY <1>4, <1>6, <1>9

(* Commit and close: a half capture has neither at the head of its queue.  *)
LEMMA ReleaseCaptures ==
    ASSUME IInv, WInv, CInv, NEW t \in Territories, ExecCommit(t) \/ ExecClose(t)
    PROVE  PreyHasEvent' /\ InHand(t)'
           /\ ((\A u \in Territories \ {t} : Spared(u)) => SplitIsExcused')
<1>1. /\ queue[t] # <<>> /\ Head(queue[t]) \in {"commit", "close"} /\ Pop(t)
      /\ UNCHANGED <<pc, run, rowid, faults>>
  BY DEF ExecCommit, ExecClose, Calling, task, process
<1>2. \/ writer = t /\ db' = txn /\ txn' = txn
      \/ db' = db /\ writer = t /\ txn' = db
      \/ db' = db /\ writer # t /\ writer' = writer /\ txn' = txn
  BY DEF ExecCommit, ExecClose
<1>3. TypeOK /\ QueueShape(t)
  BY DEF IInv, WInv, Shape
<1>4. PreyHasEvent'
  BY <1>2 DEF CInv, PreyHasEvent, CapturesOf
<1>5. /\ queue'[t] \in {<<>>, <<"update_run">>, <<"close">>}
      /\ pc[t] # "insert_capture"
  <2>1. "insert_capture" \in DOMAIN Op /\ Op["insert_capture"] = "insert_capture"
        /\ "update_abort" # "insert_capture"
    BY DEF Op
  <2> QED BY <1>1, <1>3, <2>1, PopCases
<1>6. InHand(t)'
  BY <1>1, <1>5, Single DEF InHand
<1>7. \A i : ~ Half(t, i)
  BY <1>1 DEF Half, AtHalf
<1>8. ASSUME \A u \in Territories \ {t} : Spared(u)
      PROVE  SplitIsExcused'
  <2> SUFFICES ASSUME faults = 0
               PROVE  /\ \A i \in SplitOf(db') : ShutDown(db, i)'
                      /\ \A i \in SplitOf(txn') :
                            ShutDown(txn, i)' \/ \E u \in Territories : Half(u, i)'
    BY <1>1 DEF SplitIsExcused
  <2>1. \A i \in SplitOf(db) : ShutDown(db, i)
    BY DEF CInv, SplitIsExcused
  <2>2. \A i \in SplitOf(txn) : ShutDown(txn, i) \/ \E u \in Territories : Half(u, i)
    BY DEF CInv, SplitIsExcused
  <2>3. CASE writer = t
    <3>1. \A i \in SplitOf(txn) : ShutDown(txn, i)
      BY <1>7, <2>2, <2>3 DEF Half
    <3> QED BY <1>2, <2>1, <2>3, <3>1 DEF SplitOf, CapturesOf, ShutDown
  <2>4. CASE writer # t
    <3>1. db' = db /\ txn' = txn
      BY <1>2, <2>4
    <3>2. \A u \in Territories : \A i : Half(u, i) => Half(u, i)'
      BY <1>7, <1>8, <3>1 DEF Half, AtHalf, Spared
    <3> QED BY <2>1, <2>2, <3>1, <3>2 DEF SplitOf, CapturesOf, ShutDown
  <2> QED BY <2>3, <2>4
<1> QED BY <1>4, <1>6, <1>8

(* Executing one statement keeps CInv.                                     *)
LEMMA ExecuteCInv ==
    ASSUME IInv, WInv, CInv, NEW t \in Territories, Execute(t)
    PROVE  CInv'
<1>1. \A u \in Territories \ {t} : Spared(u)
  BY ExecuteIInv, InsertRunWInv, AppendWInv, InsertPreyWInv, UpdateRunWInv, CommitWInv,
     CloseWInv DEF Execute
<1>2. PreyHasEvent' /\ SplitIsExcused' /\ InHand(t)'
  BY <1>1, InsertRunCaptures, AppendCaptures, InsertPreyCaptures, UpdateRunCaptures,
     ReleaseCaptures DEF Execute
<1>3. \A u \in Territories \ {t} : InHand(u)'
  BY <1>1, SparedInHand DEF CInv
<1> QED BY <1>2, <1>3 DEF CInv

(* A task that resumes: only the one between the INSERTs is at half.       *)
LEMMA ResumeCaptures ==
    ASSUME IInv, WInv, CInv, NEW t \in Territories,
           Launch(t) \/ Drive(t) \/ Resume(t)
    PROVE  InHand(t)' /\ \A i : Half(t, i) => Half(t, i)'
<1>1. /\ queue[t] = <<>> /\ pc \in [Territories -> Awaits]
      /\ queue \in [Territories -> Seq(Calls)]
  BY DEF Launch, Drive, Record, Capture, Conclude, DriveRaises, Resume, StatementReturns,
         CaptureRowNext, RunStarted, EventCommitted, CaptureCommitted, ErrorCommitted,
         OutcomeCommitted, AbortCommitted, Closed, Resumed, IInv, TypeOK
<1>2. UNCHANGED <<txn, writer, rowid>>
  BY TaskTouchesOwn
<1>3. CASE CaptureRowNext(t)
  <2>1. /\ pc[t] = "insert_capture" /\ pc'[t] = "insert_prey"
        /\ queue'[t] = Append(queue[t], "insert_prey") /\ run'[t] = run[t]
    BY <1>1, <1>3 DEF CaptureRowNext, Resumed, Await, GoTo, Submit
  <2>2. queue'[t] # <<>> /\ Head(queue'[t]) = "insert_prey"
    BY <1>1, <2>1, Single
  <2>3. writer = t /\ rowid[t] \in CapturesOf(txn)
    BY <1>1, <2>1 DEF CInv, InHand
  <2>4. InHand(t)'
    BY <1>2, <2>1, <2>3 DEF InHand, CapturesOf
  <2>5. AtHalf(t)'
    BY <2>1, <2>2 DEF AtHalf
  <2> QED BY <1>2, <2>1, <2>4, <2>5 DEF Half
<1>4. CASE ~ CaptureRowNext(t)
  <2>1. pc[t] # "insert_capture"
    BY <1>4 DEF Launch, Drive, Record, Capture, Conclude, DriveRaises, Resume,
            StatementReturns, RunStarted, EventCommitted, CaptureCommitted, ErrorCommitted,
            OutcomeCommitted, AbortCommitted, Closed, Resumed, CommitAfter
  <2>2. ~ AtHalf(t)
    BY <1>1, <2>1 DEF AtHalf
  <2>3. \/ queue'[t] = queue[t] /\ pc'[t] \in {"drive", "sleep", "ended"}
        \/ \E op \in Calls \ {"insert_prey"} :
              /\ queue'[t] = Append(queue[t], op)
              /\ pc'[t] = "unwind" => op = "close"
    <3>1. CASE RunStarted(t) \/ EventCommitted(t) \/ Closed(t)
      BY <1>1, <3>1 DEF RunStarted, EventCommitted, Closed, GoTo
    <3>2. CASE StatementReturns(t)
      <4>1. /\ queue'[t] = Append(queue[t], "commit") /\ pc[t] \in DOMAIN CommitAfter
            /\ pc'[t] = CommitAfter[pc[t]]
        BY <1>1, <3>2 DEF StatementReturns, Await, GoTo, Submit
      <4>2. CommitAfter[pc[t]] # "unwind"
        BY <4>1 DEF CommitAfter
      <4> QED BY <4>1, <4>2 DEF Calls
    <3>3. CASE Launch(t) \/ Drive(t)
      BY <1>1, <3>3 DEF Launch, Drive, Record, Capture, Conclude, DriveRaises, FinishRun,
                        Await, GoTo, Submit, Calls, Writes
    <3>4. CASE CaptureCommitted(t) \/ ErrorCommitted(t)
      BY <1>1, <3>4 DEF CaptureCommitted, ErrorCommitted, FinishRun, Await, GoTo, Submit,
                        Calls, Writes
    <3>5. CASE OutcomeCommitted(t) \/ AbortCommitted(t)
      BY <1>1, <3>5 DEF OutcomeCommitted, AbortCommitted, Await, GoTo, Submit, Calls, Writes
    <3> QED BY <1>4, <3>1, <3>2, <3>3, <3>4, <3>5 DEF Resume
  <2>4. InHand(t)'
    BY <1>1, <2>3, Single DEF InHand
  <2> QED BY <2>2, <2>4 DEF Half
<1> QED BY <1>3, <1>4

(* A statement that fails: what is left behind is no capture's.            *)
LEMMA FailCaptures ==
    ASSUME IInv, WInv, CInv, NEW t \in Territories, Fail(t)
    PROVE  InHand(t)' /\ faults' # 0
<1>1. faults' # 0
  BY DEF Fail, FailUnheard, FailInTry, FailEscapes, Failing, IInv, TypeOK
<1>2. TypeOK /\ QueueShape(t) /\ queue[t] # <<>>
  BY DEF IInv, WInv, Shape, Fail, FailUnheard, FailInTry, FailEscapes, Failing
<1>3. \/ queue'[t] \in {<<"update_run">>, <<"close">>}
      \/ queue'[t] = <<"insert_step">>
  <2>1. CASE FailUnheard(t)
    <3>1. queue'[t] = Tail(queue[t]) /\ Len(queue[t]) > 1
      BY <1>2, <2>1 DEF FailUnheard, Pop, TypeOK
    <3>2. Len(queue[t]) # 1
      <4>1. queue[t] \in Seq(Calls)
        BY <1>2 DEF TypeOK
      <4>2. Len(queue[t]) \in Nat
        BY <4>1
      <4>3. \A n \in Nat : n > 1 => n # 1
        OBVIOUS
      <4> QED BY <3>1, <4>2, <4>3
    <3> QED BY <1>2, <3>1, <3>2, HeadCases
  <2>2. CASE FailInTry(t)
    BY <1>2, <2>2 DEF FailInTry, TypeOK
  <2>3. CASE FailEscapes(t)
    BY <1>2, <2>3 DEF FailEscapes, TypeOK
  <2> QED BY <2>1, <2>2, <2>3 DEF Fail
<1>4. InHand(t)'
  BY <1>3, Single DEF InHand
<1> QED BY <1>1, <1>4

(* A cancellation between the INSERTs leads to the hunt's outcome.         *)
LEMMA CancelCaptures ==
    ASSUME IInv, WInv, CInv, NEW t \in Territories, Cancel(t)
    PROVE  InHand(t)' /\ \A i : Half(t, i) => Half(t, i)'
<1>1. TypeOK /\ QueueShape(t) /\ queue[t] \in Seq(Calls) /\ InHand(t)
  BY DEF IInv, WInv, Shape, TypeOK, CInv
<1>2. UNCHANGED <<txn, writer, rowid, run>>
  BY DEF Cancel, store
<1>3. \/ pc[t] = "sleep" /\ pc'[t] = "ended" /\ queue'[t] = queue[t]
      \/ /\ pc[t] \in InTry /\ pc'[t] = "update_abort"
         /\ queue'[t] = Append(queue[t], "update_run")
      \/ /\ pc[t] \in Unprotected /\ pc'[t] = "unwind"
         /\ queue'[t] = Append(queue[t], "close")
      \/ pc[t] = "close" /\ pc'[t] = "unwind" /\ queue'[t] = queue[t]
  BY <1>1 DEF Cancel, Await, GoTo, Submit, TypeOK
<1>4. \A op : /\ queue[t] # <<>> => Head(Append(queue[t], op)) = Head(queue[t])
              /\ Append(queue[t], op) # <<>>
  <2> TAKE op
  <2>1. queue[t] # <<>> => Head(Append(queue[t], op)) = Head(queue[t])
    BY <1>1
  <2>2. Len(Append(queue[t], op)) = Len(queue[t]) + 1 /\ Len(queue[t]) \in Nat
    BY <1>1
  <2>3. Append(queue[t], op) # <<>>
    <3>1. Len(Append(queue[t], op)) # 0 /\ Len(<<>>) = 0
      BY <2>2
    <3> QED BY <3>1, Zenon
  <2> QED BY <2>1, <2>3
<1>5. \A op : queue[t] = <<>> => Head(Append(queue[t], op)) = op
  BY Single
<1>6. ASSUME queue'[t] # <<>>, Head(queue'[t]) = "insert_prey"
      PROVE  writer = t /\ rowid[t] \in CapturesOf(txn)
  BY <1>1, <1>3, <1>4, <1>5, <1>6 DEF InHand
<1>7. ASSUME pc'[t] = "unwind", queue'[t] # <<>>
      PROVE  Head(queue'[t]) \notin {"insert_capture", "insert_prey"}
  <2>1. CASE queue[t] = <<>>
    BY <1>3, <1>5, <1>7, <2>1
  <2>2. CASE queue[t] # <<>>
    <3>1. Head(queue'[t]) = Head(queue[t]) /\ pc[t] \in Unprotected \cup {"close"}
      BY <1>3, <1>4, <1>7, <2>2
    <3>2. pc[t] \in DOMAIN Op /\ Head(queue[t]) = Op[pc[t]]
      BY <1>1, <2>2, <3>1, HeadCases DEF Unprotected
    <3> QED BY <3>1, <3>2 DEF Op, Unprotected
  <2> QED BY <2>1, <2>2
<1>8. pc'[t] # "insert_capture"
  BY <1>3
<1>9. InHand(t)'
  BY <1>2, <1>6, <1>7, <1>8 DEF InHand, CapturesOf
<1>10. AtHalf(t) => AtHalf(t)'
  <2>1. AtHalf(t) => pc[t] \in InTry \/ pc[t] = "update_abort"
    BY DEF AtHalf, InTry
  <2>2. AtHalf(t) => pc'[t] = "update_abort" /\ queue'[t] = Append(queue[t], "update_run")
    BY <1>3, <2>1 DEF InTry, Unprotected
  <2> QED BY <1>4, <1>5, <2>2 DEF AtHalf
<1>11. \A i : Half(t, i) => Half(t, i)'
  BY <1>2, <1>10 DEF Half
<1> QED BY <1>9, <1>11

(* A step of a task keeps CInv.                                            *)
LEMMA TaskCInv ==
    ASSUME IInv, WInv, CInv, NEW t \in Territories,
           Launch(t) \/ Drive(t) \/ Resume(t) \/ Fail(t) \/ Cancel(t)
    PROVE  CInv'
<1>1. /\ UNCHANGED <<db, txn, writer, rowid, bootHead>>
      /\ \A u \in Territories \ {t} : /\ queue'[u] = queue[u] /\ pc'[u] = pc[u]
                                     /\ run'[u] = run[u] /\ result'[u] = result[u]
  BY TaskTouchesOwn
<1>2. InHand(t)' /\ (faults' # 0 \/ \A i : Half(t, i) => Half(t, i)')
  BY ResumeCaptures, FailCaptures, CancelCaptures
<1>3. \A u \in Territories \ {t} : InHand(u)' /\ \A i : Half(u, i) => Half(u, i)'
  <2>1. \A u \in Territories \ {t} : Spared(u)
    BY <1>1, TaskSpares DEF IInv
  <2> QED BY <1>1, <2>1, SparedInHand DEF CInv, Half, AtHalf
<1>4. PreyHasEvent'
  BY <1>1 DEF CInv, PreyHasEvent, CapturesOf
<1>5. faults' = 0 => faults = 0
  BY FailCaptures
     DEF Launch, Drive, Record, Capture, Conclude, DriveRaises, Resume, StatementReturns,
         CaptureRowNext, RunStarted, EventCommitted, CaptureCommitted, ErrorCommitted,
         OutcomeCommitted, AbortCommitted, Closed, Cancel, process
<1>6. SplitIsExcused'
  <2> SUFFICES ASSUME faults' = 0
               PROVE  /\ \A i \in SplitOf(db') : ShutDown(db, i)'
                      /\ \A i \in SplitOf(txn') :
                            ShutDown(txn, i)' \/ \E u \in Territories : Half(u, i)'
    BY DEF SplitIsExcused
  <2>1. \A i \in SplitOf(db) : ShutDown(db, i)
    BY <1>5 DEF CInv, SplitIsExcused
  <2>2. \A i \in SplitOf(txn) : ShutDown(txn, i) \/ \E u \in Territories : Half(u, i)
    BY <1>5 DEF CInv, SplitIsExcused
  <2>3. \A u \in Territories : \A i : Half(u, i) => Half(u, i)'
    BY <1>2, <1>3
  <2> QED BY <1>1, <2>1, <2>2, <2>3 DEF SplitOf, CapturesOf, ShutDown
<1> QED BY <1>2, <1>3, <1>4, <1>6 DEF CInv

(* Shutdown, crash and boot: a crash loses both halves or none.            *)
LEMMA ProcessCInv ==
    ASSUME IInv, WInv, CInv, Stop \/ Off \/ Crash \/ Boot
    PROVE  CInv'
<1>1. CASE Stop \/ Off
  <2>1. UNCHANGED <<db, txn, writer, queue, pc, run, rowid, faults>>
    BY <1>1 DEF Stop, Off, store, task
  <2> QED BY <2>1 DEF CInv, PreyHasEvent, SplitIsExcused, InHand, SplitOf, CapturesOf,
                      ShutDown, Half, AtHalf
<1>2. CASE Crash
  <2>1. /\ txn' = db /\ UNCHANGED <<db, faults>>
        /\ \A t \in Territories : queue'[t] = <<>> /\ pc'[t] = "ended"
    BY <1>2 DEF Crash
  <2>2. \A t \in Territories : InHand(t)'
    BY <2>1 DEF InHand
  <2>3. PreyHasEvent' /\ SplitIsExcused'
    BY <2>1 DEF CInv, PreyHasEvent, SplitIsExcused, SplitOf, CapturesOf, ShutDown
  <2> QED BY <2>2, <2>3 DEF CInv
<1>3. CASE Boot
  <2>1. \A t \in Territories : pc[t] = "ended"
    BY <1>3 DEF Boot, IInv, DownIsEnded
  <2>2. \A t \in Territories : queue'[t] = <<>> /\ pc'[t] = "sleep"
    BY <1>3, <2>1 DEF Boot, WInv, Shape, QueueShape
  <2>3. /\ txn' = db' /\ UNCHANGED faults /\ db'.log = db.log /\ db'.prey = db.prey
        /\ db'.runs = [r \in RunIds |->
                          IF db.runs[r] = "open" THEN "crashed" ELSE db.runs[r]]
    BY <1>3 DEF Boot, IInv, TypeOK, Store
  <2>4. \A t \in Territories : InHand(t)'
    BY <2>2 DEF InHand
  <2>5. PreyHasEvent'
    BY <2>3 DEF CInv, PreyHasEvent, CapturesOf
  <2>6. ASSUME NEW i \in DOMAIN db.log, ShutDown(db, i) PROVE ShutDown(db, i)'
    <3>1. db.log[i] \in Row
      BY DEF IInv, TypeOK, Store
    <3>2. db.log[i].run \in RunIds
      BY <3>1 DEF Row
    <3> QED BY <2>3, <2>6, <3>2 DEF ShutDown
  <2>7. SplitIsExcused'
    <3>1. SplitOf(db') = SplitOf(db) /\ SplitOf(db) \subseteq DOMAIN db.log
      BY <2>3 DEF SplitOf, CapturesOf
    <3>2. faults = 0 => \A i \in SplitOf(db) : ShutDown(db, i)
      BY DEF CInv, SplitIsExcused
    <3>3. faults' = 0 => \A i \in SplitOf(db') : ShutDown(db, i)'
      BY <2>3, <2>6, <3>1, <3>2
    <3> QED BY <2>3, <3>3 DEF SplitIsExcused, SplitOf, CapturesOf, ShutDown
  <2> QED BY <2>4, <2>5, <2>7 DEF CInv
<1> QED BY <1>1, <1>2, <1>3

(* CInv is inductive, given IInv and WInv.                                 *)
LEMMA NextCInv == IInv /\ WInv /\ CInv /\ [Next]_vars => CInv'
<1> SUFFICES ASSUME IInv, WInv, CInv, [Next]_vars PROVE CInv'
  OBVIOUS
<1>1. CASE UNCHANGED vars
  <2>1. UNCHANGED <<db, txn, writer, queue, pc, run, rowid, faults>>
    BY <1>1 DEF vars, store, task, process
  <2> QED BY <2>1 DEF CInv, PreyHasEvent, SplitIsExcused, InHand, SplitOf, CapturesOf,
                      ShutDown, Half, AtHalf
<1>2. CASE Next
  BY <1>2, ExecuteCInv, TaskCInv, ProcessCInv DEF Next
<1> QED BY <1>1, <1>2

(* The initial log and pen are empty.                                      *)
LEMMA InitCInv == Init => CInv
<1> SUFFICES ASSUME Init PROVE CInv
  OBVIOUS
<1>1. /\ db.log = <<>> /\ db.prey = {} /\ txn = db
      /\ pc = [t \in Territories |-> "sleep"] /\ queue = [t \in Territories |-> <<>>]
  BY DEF Init
<1>2. SplitOf(db) = {} /\ SplitOf(txn) = {}
  BY <1>1 DEF SplitOf, CapturesOf
<1> QED BY <1>1, <1>2 DEF CInv, PreyHasEvent, SplitIsExcused, InHand

(* Where every capture stands, in every reachable state.                   *)
THEOREM CapturesAreTracked == Spec => []CInv
BY InvariantHolds, AwaitsKeepShape, InitCInv, NextCInv, PTL DEF Spec

-----------------------------------------------------------------------------
(* Where a statement failed, the backstop's commit may make a half capture *)
(* durable; the hunt it belongs to comes to no success any more.           *)

(* The half captures of t's own run.                                       *)
Splits(s, t) == {i \in SplitOf(s) : s.log[i].run = run[t]}

(* t may still record a success.                                           *)
Hopeful(t) ==
    \/ pc[t] \in {"insert_run", "commit_run"} \cup InTry
    \/ /\ result[t] \in Successes
       /\ \/ pc[t] \in {"update_run", "commit_outcome"}
          \/ pc[t] = "unwind" /\ queue[t] # <<>> /\ Head(queue[t]) = "update_run"

(* t is between the two INSERTs of a capture, its event being rowid[t].    *)
Midway(t) == IF queue[t] = <<>> THEN pc[t] = "insert_capture" ELSE pc[t] = "insert_prey"

Unbroken(t) ==
    Hopeful(t) => /\ Splits(db, t) = {}
                  /\ \A i \in Splits(txn, t) : Midway(t) /\ i = rowid[t]

(* A capture belongs to a run that was started, a half one to no success.  *)
Rooted(s) == \A i \in CapturesOf(s) : s.runs[s.log[i].run] # "absent"

Unrewarded(s) == \A i \in SplitOf(s) : s.runs[s.log[i].run] \notin Successes

EInv == /\ Rooted(db) /\ Rooted(txn) /\ Unrewarded(db) /\ Unrewarded(txn)
        /\ \A t \in Territories : Unbroken(t)

(* A hunt with hope has all its captures whole but the one under way.      *)
LEMMA KeepsUnbroken ==
    ASSUME NEW t \in Territories, Unbroken(t),
           Hopeful(t)' => Hopeful(t),
           Hopeful(t) /\ Midway(t) /\ Splits(txn, t)' # {} => Midway(t)' /\ rowid'[t] = rowid[t],
           Splits(db, t)' \subseteq Splits(db, t), Splits(txn, t)' \subseteq Splits(txn, t)
    PROVE  Unbroken(t)'
BY DEF Unbroken

(* Nobody is between two INSERTs who does not hold the write lock.         *)
LEMMA MidwayLocks ==
    ASSUME WInv, NEW t \in Territories, Midway(t)
    PROVE  writer = t
BY DEF WInv, Shape, EventShape, Midway

(* The INSERT and the UPDATE of a run, the INSERT of a prey row: they add  *)
(* no event, and a success is recorded for whole captures only.            *)
LEMMA RowsEInv ==
    ASSUME IInv, WInv, EInv, NEW t \in Territories,
           ExecInsertRun(t) \/ ExecInsertPrey(t) \/ ExecUpdateRun(t)
    PROVE  EInv'
<1>1. /\ queue[t] # <<>> /\ Pop(t) /\ writer \in {None, t}
      /\ UNCHANGED <<db, pc, run, rowid, result>>
  BY DEF ExecInsertRun, ExecInsertPrey, ExecUpdateRun, Calling, Write
<1>2. /\ TypeOK /\ QueueShape(t) /\ RunShape(t) /\ run[t] \in RunIds
      /\ queue \in [Territories -> Seq(Calls)]
  BY <1>1 DEF IInv, RunKnown, WInv, Shape, TypeOK
<1>3. txn'.log = txn.log /\ txn.prey \subseteq txn'.prey
  BY <1>2 DEF ExecInsertRun, ExecInsertPrey, ExecUpdateRun, Write, TypeOK, Store
<1>4. /\ CapturesOf(txn') = CapturesOf(txn) /\ SplitOf(txn') \subseteq SplitOf(txn)
      /\ SplitOf(txn') \subseteq CapturesOf(txn) /\ CapturesOf(txn) \subseteq DOMAIN txn.log
  BY <1>3 DEF CapturesOf, SplitOf
<1>5. \A i \in DOMAIN txn.log : txn.log[i].run \in RunIds
  <2>1. \A i \in DOMAIN txn.log : txn.log[i] \in Row
    BY <1>2 DEF TypeOK, Store
  <2> QED BY <2>1 DEF Row
<1>6. \A u \in Territories : /\ Splits(db, u)' = Splits(db, u)
                             /\ Splits(txn, u)' \subseteq Splits(txn, u)
  BY <1>1, <1>3, <1>4 DEF Splits
<1>7. \A u \in Territories \ {t} : Unbroken(u)'
  <2> SUFFICES ASSUME NEW u \in Territories \ {t} PROVE Unbroken(u)'
    OBVIOUS
  <2>1. queue'[u] = queue[u] /\ pc'[u] = pc[u] /\ result'[u] = result[u] /\ rowid'[u] = rowid[u]
    BY <1>1, <1>2 DEF Pop
  <2>2. (Hopeful(u)' <=> Hopeful(u)) /\ (Midway(u)' <=> Midway(u))
    BY <2>1 DEF Hopeful, Midway
  <2> QED BY <1>6, <2>1, <2>2, KeepsUnbroken DEF EInv
<1>8. CASE ExecInsertRun(t)
  <2>1. txn'.runs = [txn.runs EXCEPT ![run[t]] = "open"] /\ Head(queue[t]) = "insert_run"
    BY <1>2, <1>8 DEF ExecInsertRun, Calling, Write, TypeOK, Store
  <2>2. \/ pc[t] = "insert_run" /\ queue'[t] = <<>>
        \/ pc[t] = "unwind" /\ queue'[t] = <<"close">>
    BY <1>1, <1>2, <2>1, PopCases, Submitters DEF Interrupted
  <2>3. Hopeful(t)' => Hopeful(t)
    BY <1>1, <2>2, Single DEF Hopeful, InTry
  <2>4. ~ Midway(t)
    BY <1>1, <2>2 DEF Midway
  <2>5. Unbroken(t)'
    BY <1>6, <2>3, <2>4, KeepsUnbroken DEF EInv
  <2>6. Rooted(txn') /\ Unrewarded(txn')
    BY <1>2, <1>3, <1>4, <1>5, <2>1 DEF EInv, Rooted, Unrewarded, TypeOK, Store, Successes
  <2> QED BY <1>1, <1>7, <2>5, <2>6 DEF EInv, Rooted, Unrewarded, CapturesOf, SplitOf
<1>9. CASE ExecInsertPrey(t)
  <2>1. /\ txn'.runs = txn.runs /\ Head(queue[t]) = "insert_prey"
        /\ txn'.prey = txn.prey \cup {rowid[t]}
    BY <1>2, <1>9 DEF ExecInsertPrey, Calling, Write, TypeOK, Store
  <2>2. \/ pc[t] = "insert_prey" /\ queue'[t] = <<>>
        \/ pc[t] = "update_abort" /\ queue'[t] = <<"update_run">>
        \/ pc[t] = "unwind" /\ queue'[t] = <<"close">>
    BY <1>1, <1>2, <2>1, PopCases, Submitters
  <2>3. Hopeful(t)' => pc[t] = "insert_prey"
    BY <1>1, <2>2, Single DEF Hopeful, InTry
  <2>4. rowid[t] \notin Splits(txn, t)'
    BY <2>1 DEF Splits, SplitOf
  <2>5. pc[t] = "insert_prey" => Splits(db, t) = {} /\ \A i \in Splits(txn, t) : i = rowid[t]
    BY DEF EInv, Unbroken, Hopeful, InTry
  <2>6. pc[t] = "insert_prey" => Splits(db, t)' = {} /\ Splits(txn, t)' = {}
    BY <1>6, <2>4, <2>5
  <2>7. Unbroken(t)'
    BY <2>3, <2>6 DEF Unbroken
  <2>8. Rooted(txn') /\ Unrewarded(txn')
    BY <1>3, <1>4, <2>1 DEF EInv, Rooted, Unrewarded
  <2> QED BY <1>1, <1>7, <2>7, <2>8 DEF EInv, Rooted, Unrewarded, CapturesOf, SplitOf
<1>10. CASE ExecUpdateRun(t)
  <2>1. /\ Head(queue[t]) = "update_run"
        /\ txn'.runs = IF txn.runs[run[t]] = "open"
                       THEN [txn.runs EXCEPT ![run[t]] = result[t]] ELSE txn.runs
    BY <1>2, <1>10 DEF ExecUpdateRun, Calling, Write, TypeOK, Store
  <2>2. \/ pc[t] \in Updates /\ queue'[t] = <<>>
        \/ pc[t] = "unwind" /\ queue'[t] = <<"close">>
    BY <1>1, <1>2, <2>1, PopCases, Submitters DEF Updates, Interrupted
  <2>3. pc[t] = "update_abort" => result[t] = "shutdown"
    BY <1>2 DEF RunShape
  <2>4. Hopeful(t)' => Hopeful(t)
    BY <1>1, <2>2, Single DEF Hopeful, InTry, Updates
  <2>5. ~ Midway(t)
    BY <1>1, <2>2 DEF Midway, Updates
  <2>6. Unbroken(t)'
    BY <1>6, <2>4, <2>5, KeepsUnbroken DEF EInv
  <2>7. result[t] \in Successes => Splits(txn, t) = {}
    <3>1. result[t] \in Successes => Hopeful(t)
      BY <1>1, <2>1, <2>2, <2>3 DEF Hopeful, Updates, Successes
    <3> QED BY <2>5, <3>1 DEF EInv, Unbroken
  <2>8. Rooted(txn') /\ Unrewarded(txn')
    <3>1. result[t] \in Outcomes /\ "absent" \notin Outcomes
      BY <1>2 DEF TypeOK, Outcomes
    <3>2. Rooted(txn')
      BY <1>2, <1>3, <1>4, <1>5, <2>1, <3>1 DEF EInv, Rooted, TypeOK, Store
    <3>3. ASSUME NEW i \in SplitOf(txn')
          PROVE  txn'.runs[txn'.log[i].run] \notin Successes
      <4>1. i \in SplitOf(txn) /\ txn'.log[i] = txn.log[i] /\ txn.log[i].run \in RunIds
        BY <1>3, <1>4, <1>5
      <4>2. txn.runs[txn.log[i].run] \notin Successes
        BY <4>1 DEF EInv, Unrewarded
      <4>3. txn.log[i].run = run[t] => result[t] \notin Successes
        BY <2>7, <4>1 DEF Splits
      <4> QED BY <1>2, <2>1, <4>1, <4>2, <4>3 DEF TypeOK, Store
    <3> QED BY <3>2, <3>3 DEF Unrewarded
  <2> QED BY <1>1, <1>7, <2>6, <2>8 DEF EInv, Rooted, Unrewarded, CapturesOf, SplitOf
<1> QED BY <1>8, <1>9, <1>10

(* The INSERT of an event: the half capture it may begin is t's own.       *)
LEMMA AppendEInv ==
    ASSUME IInv, WInv, CInv, EInv, NEW t \in Territories, NEW kind \in Kinds, ExecAppend(t, kind)
    PROVE  EInv'
<1> DEFINE row == [run |-> run[t], seq |-> NextSeq(txn.log, run[t]), kind |-> kind]
           last == Len(txn.log) + 1
<1>1. /\ queue[t] # <<>> /\ Pop(t)
      /\ Head(queue[t]) = IF kind = "capture" THEN "insert_capture" ELSE "insert_step"
      /\ writer \in {None, t} /\ writer' = t
      /\ UNCHANGED <<db, pc, run, result>>
  BY DEF ExecAppend, Calling, Write
<1>2. /\ TypeOK /\ QueueShape(t) /\ RunShape(t) /\ txn.log \in Seq(Row) /\ run[t] \in RunIds
      /\ queue \in [Territories -> Seq(Calls)] /\ rowid \in [Territories -> Nat]
      /\ rowid' = [rowid EXCEPT ![t] = last]
  BY <1>1 DEF IInv, RunKnown, WInv, Shape, TypeOK, Store, ExecAppend
<1>3. txn'.log = Append(txn.log, row) /\ txn'.prey = txn.prey /\ txn'.runs = txn.runs
  <2>1. txn' = [txn EXCEPT !.log = Append(txn.log, row)]
    BY DEF ExecAppend, Write, IInv, TypeOK, Store
  <2> HIDE DEF row
  <2> QED BY <2>1 DEF IInv, TypeOK, Store
<1>4. /\ DOMAIN txn'.log = 1..last /\ txn'.log[last] = row
      /\ DOMAIN txn.log = 1..Len(txn.log) /\ Len(txn.log) \in Nat
      /\ \A i \in DOMAIN txn.log : txn'.log[i] = txn.log[i]
  <2> HIDE DEF row
  <2>1. txn.log \in Seq(Row)
    BY <1>2
  <2> QED BY <1>3, <2>1
<1>5. row.run = run[t] /\ row.kind = kind
  OBVIOUS
<1> HIDE DEF row
<1>6. \A i \in DOMAIN txn'.log : i \in DOMAIN txn.log \/ i = last
  BY <1>4
<1> HIDE DEF last
<1>7. ASSUME NEW i \in CapturesOf(txn')
      PROVE  \/ i \in CapturesOf(txn) /\ txn'.log[i] = txn.log[i]
             \/ i = last /\ kind = "capture" /\ txn'.log[i].run = run[t]
  BY <1>4, <1>5, <1>6 DEF CapturesOf
<1>8. ASSUME NEW i \in SplitOf(txn')
      PROVE  \/ i \in SplitOf(txn) /\ txn'.log[i] = txn.log[i]
             \/ i = last /\ kind = "capture" /\ txn'.log[i].run = run[t]
  BY <1>3, <1>7 DEF SplitOf
<1>9. /\ kind = "capture" => pc[t] \in {"insert_capture", "update_abort"}
      /\ \/ pc[t] \in {"insert_event", "insert_error", "insert_capture"} /\ queue'[t] = <<>>
         \/ pc[t] = "update_abort" /\ queue'[t] = <<"update_run">>
         \/ pc[t] = "unwind" /\ queue'[t] = <<"close">>
      /\ pc[t] = "insert_capture" => kind = "capture"
  <2>1. kind = "capture" => pc[t] # "unwind"
    BY <1>1 DEF CInv, InHand
  <2>2. kind = "capture" /\ pc[t] \in DOMAIN Op => pc[t] = "insert_capture"
    BY <1>1, <1>2, HeadCases, Submitters DEF Op
  <2>3. \/ pc[t] \in {"insert_event", "insert_error", "insert_capture"} /\ queue'[t] = <<>>
        \/ pc[t] = "update_abort" /\ queue'[t] = <<"update_run">>
        \/ pc[t] = "unwind" /\ queue'[t] = <<"close">>
    BY <1>1, <1>2, PopCases, Submitters DEF IInv
  <2>4. pc[t] = "insert_capture" => kind = "capture"
    <3>1. TypeOK /\ QueueShape(t)
      BY <1>2
    <3> QED BY <1>1, <3>1, HeadCases DEF Op
  <2>5. {"insert_event", "insert_error", "insert_capture"} \subseteq DOMAIN Op
    BY DEF Op
  <2> QED BY <2>1, <2>2, <2>3, <2>4, <2>5
<1>10. kind = "capture" => txn.runs[run[t]] = "open"
  BY <1>1, <1>2, <1>9 DEF RunShape, InTry, Updates, Is
<1>11. Rooted(txn') /\ Unrewarded(txn')
  BY <1>3, <1>7, <1>8, <1>10 DEF EInv, Rooted, Unrewarded, Successes
<1>12. \A u \in Territories : Splits(db, u)' = Splits(db, u)
  BY <1>1 DEF Splits
<1>13. ASSUME NEW u \in Territories \ {t} PROVE Unbroken(u)'
  <2>1. queue'[u] = queue[u] /\ pc'[u] = pc[u] /\ result'[u] = result[u]
    BY <1>1, <1>2 DEF Pop
  <2>2. Hopeful(u)' <=> Hopeful(u)
    BY <2>1 DEF Hopeful
  <2>3. ~ Midway(u)
    BY <1>1, MidwayLocks, HuntStoreAssumption
  <2>4. run[u] # run[t]
    BY <1>2, HuntStoreAssumption DEF WInv, RunsDiffer
  <2>5. Splits(txn, u)' \subseteq Splits(txn, u)
    BY <1>1, <1>8, <2>4 DEF Splits
  <2> QED BY <1>12, <2>2, <2>3, <2>5, KeepsUnbroken DEF EInv
<1>14. Unbroken(t)'
  <2>1. Hopeful(t)' => pc[t] \in {"insert_event", "insert_capture"} /\ queue'[t] = <<>>
    BY <1>1, <1>9, Single DEF Hopeful, InTry
  <2>2. pc[t] \in {"insert_event", "insert_capture"} =>
           Splits(db, t) = {} /\ Splits(txn, t) = {}
    <3>1. pc[t] \in {"insert_event", "insert_capture"} => Hopeful(t) /\ ~ Midway(t)
      BY <1>1 DEF Hopeful, Midway, InTry
    <3> QED BY <3>1 DEF EInv, Unbroken
  <2>3. ASSUME NEW i \in Splits(txn, t)'
        PROVE  \/ i \in Splits(txn, t)
               \/ i = last /\ kind = "capture"
    <3>1. i \in SplitOf(txn') /\ txn'.log[i].run = run[t]
      BY <1>1 DEF Splits, SplitOf, CapturesOf
    <3>2. \/ i \in SplitOf(txn) /\ txn'.log[i] = txn.log[i]
          \/ i = last /\ kind = "capture"
      BY <1>8, <3>1
    <3> QED BY <3>1, <3>2 DEF Splits
  <2>4. rowid'[t] = last
    BY <1>2
  <2>5. ASSUME Hopeful(t)', NEW i \in Splits(txn, t)'
        PROVE  Midway(t)' /\ i = rowid'[t]
    BY <1>1, <1>9, <2>1, <2>2, <2>3, <2>4, <2>5 DEF Midway
  <2> QED BY <1>12, <2>1, <2>2, <2>5 DEF Unbroken
<1> QED BY <1>1, <1>11, <1>13, <1>14 DEF EInv, Rooted, Unrewarded, CapturesOf, SplitOf

(* Commit and close: nobody is midway in a capture when they execute.      *)
LEMMA ReleaseEInv ==
    ASSUME IInv, WInv, EInv, NEW t \in Territories, ExecCommit(t) \/ ExecClose(t)
    PROVE  EInv'
<1>1. /\ queue[t] # <<>> /\ Head(queue[t]) \in {"commit", "close"} /\ Pop(t)
      /\ UNCHANGED <<pc, run, rowid, result>>
  BY DEF ExecCommit, ExecClose, Calling, task
<1>2. \/ writer = t /\ db' = txn /\ txn' = txn
      \/ db' = db /\ writer = t /\ txn' = db
      \/ db' = db /\ writer # t /\ txn' = txn
  BY DEF ExecCommit, ExecClose
<1>3. TypeOK /\ QueueShape(t) /\ queue \in [Territories -> Seq(Calls)]
  BY DEF IInv, WInv, Shape, TypeOK
<1>4. Rooted(db') /\ Rooted(txn') /\ Unrewarded(db') /\ Unrewarded(txn')
  BY <1>2 DEF EInv
<1>5. ASSUME NEW u \in Territories \ {t} PROVE Unbroken(u)'
  <2>1. queue'[u] = queue[u] /\ pc'[u] = pc[u] /\ result'[u] = result[u] /\ rowid'[u] = rowid[u]
    BY <1>1, <1>3 DEF Pop
  <2>2. (Hopeful(u)' <=> Hopeful(u)) /\ (Midway(u)' <=> Midway(u))
    BY <2>1 DEF Hopeful, Midway
  <2>3. CASE writer = t
    <3>1. ~ Midway(u)
      BY <2>3, MidwayLocks
    <3>2. Hopeful(u) => Splits(db, u) = {} /\ Splits(txn, u) = {}
      BY <3>1 DEF EInv, Unbroken
    <3> QED BY <1>1, <1>2, <2>2, <2>3, <3>2 DEF Unbroken, Splits
  <2>4. CASE writer # t
    BY <1>1, <1>2, <2>1, <2>2, <2>4 DEF EInv, Unbroken, Splits
  <2> QED BY <2>3, <2>4
<1>6. Unbroken(t)'
  <2>1. \/ pc[t] \in Commits \cup {"close"} /\ queue'[t] = <<>>
        \/ pc[t] = "update_abort" /\ queue'[t] = <<"update_run">>
        \/ pc[t] = "unwind" /\ queue'[t] \in {<<>>, <<"close">>}
    <3>1. "update_run" \notin {"commit", "close"}
      OBVIOUS
    <3> QED BY <1>1, <1>3, <3>1, PopCases, Submitters
  <2>2. Hopeful(t)' => Hopeful(t) /\ pc[t] \in Commits
    BY <1>1, <2>1, Single DEF Hopeful, InTry, Commits
  <2>3. pc[t] \in Commits => ~ Midway(t)
    BY <1>1 DEF Midway, Commits
  <2>4. Hopeful(t)' => Splits(db, t) = {} /\ Splits(txn, t) = {}
    BY <2>2, <2>3 DEF EInv, Unbroken
  <2> QED BY <1>1, <1>2, <2>4 DEF Unbroken, Splits
<1> QED BY <1>4, <1>5, <1>6 DEF EInv, Rooted, Unrewarded, CapturesOf, SplitOf

(* A hunt that starts has no capture; any other keeps its hope or loses it.*)
LEMMA LaunchUnbroken ==
    ASSUME IInv, EInv, WInv, NEW t \in Territories, Launch(t)
    PROVE  Unbroken(t)'
<1>1. PICK r \in RunIds : txn.runs[r] = "absent" /\ run' = [run EXCEPT ![t] = r]
  BY DEF Launch
<1>2. run'[t] = r /\ db.runs[r] = "absent" /\ UNCHANGED <<db, txn>>
  BY <1>1 DEF IInv, TypeOK, WInv, TxnOnFile, Launch, store
<1>3. \A i \in SplitOf(db) : db.log[i].run # r
  BY <1>2 DEF EInv, Rooted, SplitOf
<1>4. \A i \in SplitOf(txn) : txn.log[i].run # r
  BY <1>1 DEF EInv, Rooted, SplitOf
<1>5. Splits(db, t)' = {} /\ Splits(txn, t)' = {}
  BY <1>2, <1>3, <1>4 DEF Splits, SplitOf, CapturesOf
<1> QED BY <1>5 DEF Unbroken

LEMMA HopeGoesOn ==
    ASSUME IInv, WInv, NEW t \in Territories,
           Drive(t) \/ Resume(t), Hopeful(t)'
    PROVE  run'[t] = run[t] /\ Hopeful(t) /\ (Midway(t) => Midway(t)')
<1>1. /\ queue[t] = <<>> /\ pc \in [Territories -> Awaits]
      /\ queue \in [Territories -> Seq(Calls)] /\ result \in [Territories -> Outcomes]
  BY DEF Drive, Record, Capture, Conclude, DriveRaises, Resume, StatementReturns,
         CaptureRowNext, RunStarted, EventCommitted, CaptureCommitted, ErrorCommitted,
         OutcomeCommitted, AbortCommitted, Closed, Resumed, IInv, TypeOK
<1>2. CASE StatementReturns(t)
  <2>1. /\ pc[t] \in DOMAIN CommitAfter /\ pc'[t] = CommitAfter[pc[t]]
        /\ result'[t] = result[t] /\ run'[t] = run[t]
    BY <1>1, <1>2 DEF StatementReturns, Await, GoTo
  <2>2. pc[t] \in {"insert_run", "insert_event", "insert_prey", "update_run"}
        /\ (pc[t] = "update_run" => result[t] \in Successes)
    BY <2>1 DEF CommitAfter, Hopeful, InTry
  <2> QED BY <1>1, <2>1, <2>2 DEF Hopeful, InTry, Midway
<1>3. CASE CaptureRowNext(t)
  <2>1. /\ pc[t] = "insert_capture" /\ pc'[t] = "insert_prey" /\ run'[t] = run[t]
        /\ queue'[t] = Append(queue[t], "insert_prey")
    BY <1>1, <1>3 DEF CaptureRowNext, Resumed, Await, GoTo, Submit
  <2>2. queue'[t] # <<>>
    BY <1>1, <2>1, Single
  <2> QED BY <2>1, <2>2 DEF Hopeful, InTry, Midway
<1>4. CASE RunStarted(t) \/ EventCommitted(t) \/ CaptureCommitted(t) \/ Drive(t)
  <2>1. pc[t] \in {"commit_run", "commit_event", "commit_capture", "drive"} /\ run'[t] = run[t]
    BY <1>4 DEF RunStarted, EventCommitted, CaptureCommitted, Drive, Record, Capture, Conclude,
                DriveRaises, Resumed
  <2> QED BY <1>1, <2>1 DEF Hopeful, InTry, Midway
<1>5. CASE ErrorCommitted(t)
  <2>1. pc'[t] = "update_run" /\ result'[t] = "aborted"
    BY <1>1, <1>5 DEF ErrorCommitted, FinishRun, Await, GoTo
  <2> QED BY <2>1 DEF Hopeful, InTry, Successes
<1>6. CASE OutcomeCommitted(t) \/ AbortCommitted(t)
  <2>1. pc'[t] \in {"close", "unwind"} /\ queue'[t] = <<"close">>
    BY <1>1, <1>6, Single DEF OutcomeCommitted, AbortCommitted, Await, GoTo, Submit
  <2> QED BY <2>1, Single DEF Hopeful, InTry
<1>7. CASE Closed(t)
  <2>1. pc'[t] \in {"sleep", "ended"}
    BY <1>1, <1>7 DEF Closed, GoTo
  <2> QED BY <2>1 DEF Hopeful, InTry
<1> QED BY <1>2, <1>3, <1>4, <1>5, <1>6, <1>7 DEF Resume

(* A failed statement ends every hope; a cancellation at the final UPDATE  *)
(* leaves that statement queued, which was submitted with whole captures.  *)
LEMMA HopeLost ==
    ASSUME IInv, WInv, NEW t \in Territories, Fail(t) \/ Cancel(t), Hopeful(t)'
    PROVE  Hopeful(t) /\ ~ Midway(t) /\ run'[t] = run[t]
<1>1. TypeOK /\ QueueShape(t) /\ queue[t] \in Seq(Calls) /\ pc \in [Territories -> Awaits]
      /\ run'[t] = run[t]
  BY DEF IInv, WInv, Shape, TypeOK, Fail, FailUnheard, FailInTry, FailEscapes, Cancel, task
<1>2. CASE Fail(t)
  <2>1. CASE FailUnheard(t)
    <3>1. /\ queue[t] # <<>> /\ queue'[t] = Tail(queue[t]) /\ Len(queue[t]) > 1
          /\ pc'[t] = pc[t]
      BY <1>1, <2>1 DEF FailUnheard, Failing, Pop, task, TypeOK
    <3>2. Len(queue[t]) # 1
      <4>1. Len(queue[t]) \in Nat
        BY <1>1
      <4>2. \A n \in Nat : n > 1 => n # 1
        OBVIOUS
      <4> QED BY <3>1, <4>1, <4>2
    <3>3. \/ pc[t] = "update_abort"
          \/ pc[t] = "unwind" /\ queue'[t] = <<"close">>
      BY <1>1, <3>1, <3>2, HeadCases
    <3> QED BY <3>1, <3>3, Single DEF Hopeful, InTry
  <2>2. CASE FailInTry(t) \/ FailEscapes(t)
    <3>1. pc'[t] \in {"insert_error", "close"}
      BY <1>1, <2>2 DEF FailInTry, FailEscapes, GoTo
    <3> QED BY <3>1 DEF Hopeful, InTry
  <2> QED BY <1>2, <2>1, <2>2 DEF Fail
<1>3. CASE Cancel(t)
  <2>1. \/ pc'[t] \in {"ended", "update_abort"}
        \/ /\ pc[t] \in Unprotected /\ pc'[t] = "unwind" /\ result'[t] = result[t]
           /\ queue'[t] = Append(queue[t], "close")
        \/ pc[t] = "close" /\ pc'[t] = "unwind" /\ queue'[t] = queue[t]
    BY <1>1, <1>3 DEF Cancel, Await, GoTo, Submit, TypeOK
  <2>2. CASE pc'[t] \in {"ended", "update_abort"}
    BY <2>2 DEF Hopeful, InTry
  <2>3. CASE pc[t] = "close" /\ pc'[t] = "unwind" /\ queue'[t] = queue[t]
    <3>1. queue[t] # <<>> => Head(queue[t]) = "close"
      BY <1>1, <2>3, HeadCases DEF Op
    <3> QED BY <2>3, <3>1 DEF Hopeful, InTry
  <2>4. CASE /\ pc[t] \in Unprotected /\ pc'[t] = "unwind" /\ result'[t] = result[t]
             /\ queue'[t] = Append(queue[t], "close")
    <3>1. result[t] \in Successes /\ Head(queue'[t]) = "update_run"
      BY <2>4 DEF Hopeful, InTry
    <3>2. queue[t] # <<>>
      BY <2>4, <3>1, Single
    <3>3. Head(queue[t]) = "update_run"
      BY <1>1, <2>4, <3>1, <3>2
    <3>4. pc[t] = "update_run"
      <4>1. pc[t] \in DOMAIN Op
        BY <2>4 DEF Op, Unprotected
      <4>2. pc[t] \notin {"update_abort", "unwind"}
        BY <2>4 DEF Unprotected
      <4> QED BY <1>1, <3>2, <3>3, <4>1, <4>2, HeadCases, Submitters
    <3> QED BY <1>1, <3>1, <3>2, <3>4 DEF Hopeful, Midway
  <2> QED BY <2>1, <2>2, <2>3, <2>4
<1> QED BY <1>2, <1>3

(* A step of a task keeps EInv.                                            *)
LEMMA TaskEInv ==
    ASSUME IInv, WInv, EInv, NEW t \in Territories,
           Launch(t) \/ Drive(t) \/ Resume(t) \/ Fail(t) \/ Cancel(t)
    PROVE  EInv'
<1>1. /\ UNCHANGED <<db, txn, writer, rowid, bootHead>>
      /\ \A u \in Territories \ {t} : /\ queue'[u] = queue[u] /\ pc'[u] = pc[u]
                                     /\ run'[u] = run[u] /\ result'[u] = result[u]
  BY TaskTouchesOwn
<1>2. \A u \in Territories \ {t} : Unbroken(u)'
  BY <1>1 DEF EInv, Unbroken, Hopeful, Midway, Splits
<1>3. Unbroken(t)'
  <2>1. CASE Launch(t)
    BY <2>1, LaunchUnbroken
  <2>2. CASE Drive(t) \/ Resume(t) \/ Fail(t) \/ Cancel(t)
    <3>1. Hopeful(t)' => run'[t] = run[t] /\ Hopeful(t) /\ (Midway(t) => Midway(t)')
      BY <2>2, HopeGoesOn, HopeLost
    <3> QED BY <1>1, <3>1 DEF EInv, Unbroken, Splits
  <2> QED BY <2>1, <2>2
<1> QED BY <1>1, <1>2, <1>3 DEF EInv, Rooted, Unrewarded, CapturesOf, SplitOf

(* Shutdown, crash and boot, which records no success.                     *)
LEMMA ProcessEInv ==
    ASSUME IInv, WInv, EInv, Stop \/ Off \/ Crash \/ Boot
    PROVE  EInv'
<1>1. CASE Stop \/ Off
  <2>1. UNCHANGED <<db, txn, queue, pc, run, rowid, result>>
    BY <1>1 DEF Stop, Off, store, task
  <2> QED BY <2>1 DEF EInv, Rooted, Unrewarded, CapturesOf, SplitOf, Unbroken, Hopeful, Midway,
                      Splits
<1>2. CASE Crash \/ Boot
  <2>1. \A t \in Territories : pc'[t] \in {"sleep", "ended"}
    BY <1>2 DEF Crash, Boot
  <2>2. \A t \in Territories : Unbroken(t)'
    BY <2>1 DEF Unbroken, Hopeful, InTry
  <2>3. /\ txn' = db' /\ db'.log = db.log /\ db'.prey = db.prey
        /\ \/ db'.runs = db.runs
           \/ db'.runs = [r \in RunIds |-> IF db.runs[r] = "open" THEN "crashed" ELSE db.runs[r]]
    BY <1>2 DEF Crash, Boot, IInv, TypeOK, Store
  <2>4. \A i \in DOMAIN db.log : db.log[i].run \in RunIds
    <3>1. \A i \in DOMAIN db.log : db.log[i] \in Row
      BY DEF IInv, TypeOK, Store
    <3> QED BY <3>1 DEF Row
  <2>5. Rooted(db') /\ Unrewarded(db')
    BY <2>3, <2>4 DEF EInv, Rooted, Unrewarded, CapturesOf, SplitOf, Successes
  <2> QED BY <2>2, <2>3, <2>5 DEF EInv, Rooted, Unrewarded, CapturesOf, SplitOf
<1> QED BY <1>1, <1>2

(* EInv is inductive, given the invariants before it.                      *)
LEMMA NextEInv == IInv /\ WInv /\ CInv /\ EInv /\ [Next]_vars => EInv'
<1> SUFFICES ASSUME IInv, WInv, CInv, EInv, [Next]_vars PROVE EInv'
  OBVIOUS
<1>1. CASE UNCHANGED vars
  <2>1. UNCHANGED <<db, txn, queue, pc, run, rowid, result>>
    BY <1>1 DEF vars, store, task
  <2> QED BY <2>1 DEF EInv, Rooted, Unrewarded, CapturesOf, SplitOf, Unbroken, Hopeful, Midway,
                      Splits
<1>2. CASE Next
  BY <1>2, RowsEInv, AppendEInv, ReleaseEInv, TaskEInv, ProcessEInv DEF Next, Execute
<1> QED BY <1>1, <1>2

LEMMA InitEInv == Init => EInv
<1> SUFFICES ASSUME Init PROVE EInv
  OBVIOUS
<1>1. db.log = <<>> /\ txn = db
  BY DEF Init
<1>2. CapturesOf(db) = {} /\ CapturesOf(txn) = {}
  BY <1>1 DEF CapturesOf
<1> QED BY <1>2 DEF EInv, Rooted, Unrewarded, SplitOf, Unbroken, Splits

(* No hunt with a half capture in the log is recorded as a success.        *)
THEOREM HalvesAreNoSuccess == Spec => []EInv
BY InvariantHolds, AwaitsKeepShape, CapturesAreTracked, InitEInv, NextEInv, PTL DEF Spec

(* verdicts.capture_prey: however hunts interleave and whatever crashes, a *)
(* committed event without its prey row belongs to a hunt that the         *)
(* shutdown aborted, or a statement failed and the hunt is no success; and *)
(* no row lacks its event.                                                 *)
THEOREM SplitsAreAborts == Spec => []CaptureSplitOnlyByAbort
<1>1. IInv /\ CInv /\ EInv => CaptureSplitOnlyByAbort
  <2> SUFFICES ASSUME IInv, CInv, EInv PROVE CaptureSplitOnlyByAbort
    OBVIOUS
  <2>1. Captures = CapturesOf(db) /\ faults \in Nat
    BY DEF Captures, CapturesOf, IInv, TypeOK
  <2>2. \A i \in SplitOf(db) : db.runs[db.log[i].run] \notin Successes
    BY DEF EInv, Unrewarded
  <2>3. faults = 0 => \A i \in SplitOf(db) : db.runs[db.log[i].run] = "shutdown"
    BY DEF CInv, SplitIsExcused, ShutDown
  <2>4. faults = 0 \/ faults > 0
    BY <2>1
  <2> QED BY <2>1, <2>2, <2>3, <2>4 DEF CInv, PreyHasEvent, SplitOf, CaptureSplitOnlyByAbort
<1> QED BY <1>1, InvariantHolds, CapturesAreTracked, HalvesAreNoSuccess, PTL

-----------------------------------------------------------------------------
(* The daemon while nothing fails and nobody stops it.                     *)
Calm == daemon = "running" /\ faults = 0

(* The awaits at which a transaction holds one event the file has not.     *)
Recording == {"insert_event", "insert_error", "insert_capture", "insert_prey",
              "commit_event", "commit_error", "commit_capture"}

Undisturbed(t) ==
    /\ pc[t] \notin {"update_abort", "commit_abort", "unwind", "ended"}
    /\ writer = t =>
          IF pc[t] \in Recording
          THEN Len(txn.log) = Len(db.log) + 1 /\ rowid[t] = Len(txn.log)
          ELSE Len(txn.log) = Len(db.log)
    /\ writer = t /\ pc[t] \in {"insert_event", "insert_error", "insert_capture"}
       => queue[t] = <<>>

(* The event id was published, or its hunt is about to.                    *)
Heard(id) ==
    \/ \E k \in DOMAIN published : published[k] = id
    \/ \E t \in Territories : /\ pc[t] \in {"commit_event", "commit_capture", "commit_error"}
                              /\ queue[t] = <<>> /\ rowid[t] = id

AllHeard == \A id \in (bootHead + 1)..Len(db.log) : Heard(id)

KInv == Calm => AllHeard /\ \A t \in Territories : Undisturbed(t)

-----------------------------------------------------------------------------
(* A spared task stays undisturbed.                                        *)
LEMMA SparedUndisturbed ==
    ASSUME NEW u \in Territories, Undisturbed(u), Spared(u), writer = u => db' = db
    PROVE  Undisturbed(u)'
<1>1. /\ queue'[u] = queue[u] /\ pc'[u] = pc[u] /\ run'[u] = run[u] /\ rowid'[u] = rowid[u]
      /\ writer' = u <=> writer = u
      /\ writer = u => txn' = txn /\ db' = db
  BY DEF Spared
<1> QED BY <1>1 DEF Undisturbed

(* One statement of an undisturbed hunt.                                   *)
LEMMA WriteUndisturbed ==
    ASSUME IInv, WInv, NEW t \in Territories, Undisturbed(t),
           \/ ExecInsertRun(t) \/ (\E kind \in Kinds : ExecAppend(t, kind))
           \/ ExecInsertPrey(t) \/ ExecUpdateRun(t)
    PROVE  Undisturbed(t)' /\ db' = db
<1>1. /\ queue[t] # <<>> /\ Pop(t)
      /\ writer \in {None, t} /\ UNCHANGED <<db, pc, run>>
  BY DEF ExecInsertRun, ExecAppend, ExecInsertPrey, ExecUpdateRun, Calling, Write
<1>2. TypeOK /\ QueueShape(t) /\ EventShape(t) /\ LockShape(t)
      /\ txn.log \in Seq(Row) /\ db.log \in Seq(Row)
  BY DEF IInv, TypeOK, Store, WInv, Shape
<1>3. /\ Len(txn.log) \in Nat /\ Len(db.log) \in Nat
      /\ writer = None => txn = db
  BY <1>2 DEF WInv, TxnOnFile
<1>4. pc[t] \in DOMAIN Op /\ Head(queue[t]) = Op[pc[t]] /\ queue'[t] = <<>>
  BY <1>1, <1>2, PopCases DEF Undisturbed
<1>5. CASE ExecInsertRun(t) \/ ExecUpdateRun(t)
  <2>1. Head(queue[t]) \in {"insert_run", "update_run"} /\ txn'.log = txn.log
    BY <1>2, <1>5 DEF ExecInsertRun, ExecUpdateRun, Calling, Write, TypeOK, Store
  <2>2. pc[t] \in {"insert_run", "update_run"}
    BY <1>4, <2>1, Submitters
  <2>3. Len(txn.log) = Len(db.log)
    BY <1>1, <1>3, <2>2 DEF Undisturbed, Recording
  <2> QED BY <1>1, <1>3, <2>1, <2>2, <2>3 DEF Undisturbed, Recording
<1>6. ASSUME NEW kind \in Kinds, ExecAppend(t, kind)
      PROVE  Undisturbed(t)'
  <2> DEFINE row == [run |-> run[t], seq |-> NextSeq(txn.log, run[t]), kind |-> kind]
  <2>1. /\ Head(queue[t]) \in {"insert_step", "insert_capture"}
        /\ rowid'[t] = Len(txn.log) + 1
        /\ txn' = [txn EXCEPT !.log = Append(txn.log, row)]
    BY <1>2, <1>6 DEF ExecAppend, Calling, Write, TypeOK, Store
  <2>2. Len(Append(txn.log, row)) = Len(txn.log) + 1
    BY <1>2
  <2> HIDE DEF row
  <2>3. txn'.log = Append(txn.log, row)
    BY <1>2, <2>1 DEF TypeOK, Store
  <2>4. pc[t] \in {"insert_event", "insert_error", "insert_capture"}
    BY <1>4, <2>1, Submitters
  <2>5. txn = db
    BY <1>1, <1>3, <2>4 DEF Undisturbed
  <2> QED BY <1>1, <1>3, <1>4, <2>1, <2>2, <2>3, <2>4, <2>5 DEF Undisturbed, Recording
<1>7. CASE ExecInsertPrey(t)
  <2>1. Head(queue[t]) = "insert_prey" /\ txn'.log = txn.log /\ UNCHANGED rowid
    BY <1>2, <1>7 DEF ExecInsertPrey, Calling, Write, TypeOK, Store
  <2>2. pc[t] = "insert_prey"
    BY <1>4, <2>1, Submitters
  <2>3. writer = t
    BY <1>2, <2>2 DEF EventShape
  <2> QED BY <1>1, <1>3, <2>1, <2>2, <2>3 DEF Undisturbed, Recording
<1> QED BY <1>1, <1>5, <1>6, <1>7

(* The commit: the file takes over at most one event, which its hunt is    *)
(* about to publish.                                                       *)
LEMMA CommitHeard ==
    ASSUME IInv, WInv, NEW t \in Territories, ExecCommit(t), Undisturbed(t), AllHeard
    PROVE  Undisturbed(t)' /\ AllHeard'
<1>1. /\ queue[t] # <<>> /\ Pop(t) /\ Head(queue[t]) = "commit"
      /\ writer = t /\ writer' = None /\ db' = txn
      /\ UNCHANGED <<pc, run, rowid, published, bootHead>>
  BY DEF ExecCommit, Calling, task, hub, process
<1>2. TypeOK /\ QueueShape(t) /\ txn.log \in Seq(Row) /\ db.log \in Seq(Row)
      /\ bootHead \in Nat /\ queue \in [Territories -> Seq(Calls)]
  BY DEF IInv, TypeOK, Store, WInv, Shape
<1>3. Len(txn.log) \in Nat /\ Len(db.log) \in Nat
  BY <1>2
<1>4. pc[t] \in Commits /\ queue'[t] = <<>>
  BY <1>1, <1>2, PopCases, Submitters DEF Undisturbed
<1>5. Undisturbed(t)'
  BY <1>1, <1>4, HuntStoreAssumption DEF Undisturbed, Commits
<1>6. ASSUME NEW id \in (bootHead + 1)..Len(db.log)
      PROVE  Heard(id)'
  <2>1. CASE \E k \in DOMAIN published : published[k] = id
    BY <1>1, <2>1 DEF Heard
  <2>2. ASSUME NEW u \in Territories,
               pc[u] \in {"commit_event", "commit_capture", "commit_error"},
               queue[u] = <<>>, rowid[u] = id
        PROVE  Heard(id)'
    <3>1. u # t /\ queue'[u] = queue[u]
      BY <1>1, <1>2, <2>2 DEF Pop
    <3> QED BY <1>1, <2>2, <3>1 DEF Heard
  <2> QED BY <2>1, <2>2 DEF AllHeard, Heard
<1>7. ASSUME NEW id, id = Len(txn.log), pc[t] \in Recording
      PROVE  Heard(id)'
  <2>1. pc'[t] \in {"commit_event", "commit_capture", "commit_error"}
    BY <1>1, <1>4, <1>7 DEF Recording, Commits
  <2>2. rowid'[t] = id
    BY <1>1, <1>7 DEF Undisturbed
  <2> QED BY <1>4, <2>1, <2>2 DEF Heard
<1>8. ASSUME NEW id \in (bootHead + 1)..Len(txn.log)
      PROVE  Heard(id)'
  <2>1. \/ pc[t] \in Recording /\ Len(txn.log) = Len(db.log) + 1
        \/ Len(txn.log) = Len(db.log)
    BY <1>1 DEF Undisturbed
  <2>2. \/ id \in (bootHead + 1)..Len(db.log)
        \/ id = Len(txn.log) /\ pc[t] \in Recording
    BY <1>2, <1>3, <2>1
  <2> QED BY <1>6, <1>7, <2>2
<1>9. AllHeard'
  BY <1>1, <1>8 DEF AllHeard, Heard
<1> QED BY <1>5, <1>9

(* The close of a hunt that committed its outcome loses nothing.           *)
LEMMA CloseUndisturbed ==
    ASSUME IInv, WInv, NEW t \in Territories, ExecClose(t), Undisturbed(t)
    PROVE  Undisturbed(t)' /\ db' = db
<1>1. /\ db' = db /\ writer' # t /\ queue[t] # <<>> /\ UNCHANGED <<pc, run>>
  BY HuntStoreAssumption DEF ExecClose, Calling, task
<1> QED BY <1>1 DEF Undisturbed

(* What others have still to publish does not depend on t's queue.         *)
LEMMA HeardStays ==
    ASSUME NEW t \in Territories, queue[t] # <<>>, queue \in [Territories -> Seq(Calls)],
           Pop(t), UNCHANGED <<db, pc, published, bootHead>>, AllHeard,
           \A u \in Territories \ {t} : rowid'[u] = rowid[u]
    PROVE  AllHeard'
<1> SUFFICES ASSUME NEW id \in (bootHead + 1)..Len(db.log) PROVE Heard(id)'
  BY DEF AllHeard
<1>1. CASE \E k \in DOMAIN published : published[k] = id
  BY <1>1 DEF Heard
<1>2. ASSUME NEW u \in Territories,
             pc[u] \in {"commit_event", "commit_capture", "commit_error"},
             queue[u] = <<>>, rowid[u] = id
      PROVE  Heard(id)'
  <2>1. u # t /\ queue'[u] = queue[u] /\ rowid'[u] = rowid[u]
    BY <1>2 DEF Pop
  <2> QED BY <1>2, <2>1 DEF Heard
<1> QED BY <1>1, <1>2 DEF AllHeard, Heard

(* Executing one statement keeps KInv.                                     *)
LEMMA ExecuteKInv ==
    ASSUME IInv, WInv, KInv, NEW t \in Territories, Execute(t)
    PROVE  KInv'
<1>1. UNCHANGED <<pc, run, published, bootHead, daemon, faults>> /\ Pop(t) /\ queue[t] # <<>>
  BY DEF Execute, ExecInsertRun, ExecAppend, ExecInsertPrey, ExecUpdateRun, ExecCommit,
         ExecClose, Write, Calling, task, hub, process
<1> SUFFICES ASSUME Calm
             PROVE  AllHeard' /\ \A u \in Territories : Undisturbed(u)'
  BY <1>1 DEF KInv, Calm
<1>2. AllHeard /\ \A u \in Territories : Undisturbed(u)
  BY DEF KInv
<1>4. \A u \in Territories \ {t} : Undisturbed(u)'
  <2>1. \A u \in Territories \ {t} : Spared(u)
    BY ExecuteIInv, InsertRunWInv, AppendWInv, InsertPreyWInv, UpdateRunWInv, CommitWInv,
       CloseWInv DEF Execute
  <2>2. \A u \in Territories \ {t} : writer = u => db' = db
    BY DEF Execute, ExecInsertRun, ExecAppend, ExecInsertPrey, ExecUpdateRun, ExecCommit,
           ExecClose, Write
  <2> QED BY <1>2, <2>1, <2>2, SparedUndisturbed
<1>5. \A u \in Territories \ {t} : rowid'[u] = rowid[u]
  BY DEF Execute, ExecInsertRun, ExecAppend, ExecInsertPrey, ExecUpdateRun, ExecCommit,
         ExecClose, task, IInv, TypeOK
<1>6. queue \in [Territories -> Seq(Calls)]
  BY DEF IInv, TypeOK
<1>7. CASE ExecCommit(t)
  BY <1>2, <1>4, <1>7, CommitHeard
<1>8. CASE ExecClose(t)
  <2>1. db' = db /\ Undisturbed(t)'
    BY <1>2, <1>8, CloseUndisturbed
  <2>2. AllHeard'
    BY <1>1, <1>2, <1>5, <1>6, <2>1, HeardStays
  <2> QED BY <1>4, <2>1, <2>2
<1>9. CASE ~ ExecCommit(t) /\ ~ ExecClose(t)
  <2>1. \/ ExecInsertRun(t) \/ (\E kind \in Kinds : ExecAppend(t, kind))
        \/ ExecInsertPrey(t) \/ ExecUpdateRun(t)
    BY <1>9 DEF Execute
  <2>2. Undisturbed(t)' /\ db' = db
    BY <1>2, <2>1, WriteUndisturbed
  <2>3. AllHeard'
    BY <1>1, <1>2, <1>5, <1>6, <2>2, HeardStays
  <2> QED BY <1>4, <2>2, <2>3
<1> QED BY <1>7, <1>8, <1>9

(* Which steps a task takes while the daemon is calm.                      *)
LEMMA CalmSteps ==
    ASSUME IInv, NEW t \in Territories, Calm',
           Launch(t) \/ Drive(t) \/ Resume(t) \/ Fail(t) \/ Cancel(t)
    PROVE  Calm /\ (Launch(t) \/ Drive(t) \/ Resume(t))
<1>1. CASE Fail(t)
  BY <1>1 DEF Fail, FailUnheard, FailInTry, FailEscapes, Failing, IInv, TypeOK, Calm
<1>2. CASE Cancel(t)
  BY <1>2 DEF Cancel, process, Calm
<1>3. CASE Launch(t) \/ Drive(t) \/ Resume(t)
  BY <1>3 DEF Launch, Drive, Record, Capture, Conclude, DriveRaises, Resume, StatementReturns,
              CaptureRowNext, RunStarted, EventCommitted, CaptureCommitted, ErrorCommitted,
              OutcomeCommitted, AbortCommitted, Closed, process, Calm
<1> QED BY <1>1, <1>2, <1>3

(* A task that resumes holds the lock only between a statement and the     *)
(* submission of the next.                                                 *)
LEMMA ResumeUndisturbed ==
    ASSUME IInv, WInv, NEW t \in Territories, Undisturbed(t),
           Launch(t) \/ Drive(t) \/ Resume(t)
    PROVE  Undisturbed(t)'
<1>1. /\ queue[t] = <<>> /\ pc \in [Territories -> Awaits]
      /\ queue \in [Territories -> Seq(Calls)]
  BY DEF Launch, Drive, Record, Capture, Conclude, DriveRaises, Resume, StatementReturns,
         CaptureRowNext, RunStarted, EventCommitted, CaptureCommitted, ErrorCommitted,
         OutcomeCommitted, AbortCommitted, Closed, Resumed, IInv, TypeOK
<1>2. UNCHANGED <<db, txn, writer, rowid>>
  BY TaskTouchesOwn
<1>3. LockShape(t) /\ RunShape(t)
  BY DEF WInv, Shape
<1>4. CASE StatementReturns(t)
  <2>1. pc[t] \in DOMAIN CommitAfter /\ pc'[t] = CommitAfter[pc[t]]
    BY <1>1, <1>4 DEF StatementReturns, Await, GoTo
  <2>2. /\ pc[t] \in Recording <=> pc'[t] \in Recording
        /\ pc'[t] \in Commits \ {"commit_abort"}
    BY <2>1 DEF CommitAfter, Recording, Commits, Undisturbed
  <2> QED BY <1>2, <2>2 DEF Undisturbed, Commits
<1>5. CASE CaptureRowNext(t)
  <2>1. pc[t] = "insert_capture" /\ pc'[t] = "insert_prey"
    BY <1>1, <1>5 DEF CaptureRowNext, Resumed, Await, GoTo
  <2> QED BY <1>2, <2>1 DEF Undisturbed, Recording
<1>6. CASE ~ StatementReturns(t) /\ ~ CaptureRowNext(t)
  <2>1. pc[t] \notin Inserts \cup Updates
    BY <1>6 DEF Launch, Drive, Record, Capture, Conclude, DriveRaises, Resume, RunStarted,
            EventCommitted, CaptureCommitted, ErrorCommitted, OutcomeCommitted,
            AbortCommitted, Closed, Resumed, Inserts, Updates
  <2>2. writer' # t
    BY <1>1, <1>2, <1>3, <2>1 DEF LockShape
  <2>3. pc'[t] \in Awaits \ {"update_abort", "commit_abort", "unwind", "ended"}
    BY <1>1, <1>6
       DEF Launch, Drive, Record, Capture, Conclude, DriveRaises, Resume, RunStarted,
           EventCommitted, CaptureCommitted, ErrorCommitted, OutcomeCommitted, AbortCommitted,
           Closed, Resumed, FinishRun, Await, GoTo, Undisturbed, Awaits, InTry, Unprotected
  <2> QED BY <2>2, <2>3 DEF Undisturbed
<1> QED BY <1>4, <1>5, <1>6

(* A task that leaves a commit has published its event.                    *)
LEMMA ResumeHeard ==
    ASSUME IInv, NEW t \in Territories, AllHeard, Launch(t) \/ Drive(t) \/ Resume(t)
    PROVE  AllHeard'
<1>1. /\ UNCHANGED <<db, rowid, bootHead>> /\ published \in Seq(Nat) /\ rowid[t] \in Nat
      /\ \A u \in Territories \ {t} : queue'[u] = queue[u] /\ pc'[u] = pc[u]
  BY TaskTouchesOwn DEF IInv, TypeOK
<1>2. \/ published' = published
      \/ published' = Append(published, rowid[t])
  BY DEF Launch, Drive, Record, Capture, Conclude, DriveRaises, Resume, StatementReturns,
         CaptureRowNext, RunStarted, EventCommitted, CaptureCommitted, ErrorCommitted,
         OutcomeCommitted, AbortCommitted, Closed, Publish, hub
<1>3. pc[t] \in {"commit_event", "commit_capture", "commit_error"} =>
         published' = Append(published, rowid[t])
  BY DEF Launch, Drive, Record, Capture, Conclude, DriveRaises, Resume, StatementReturns,
         CaptureRowNext, RunStarted, EventCommitted, CaptureCommitted, ErrorCommitted,
         OutcomeCommitted, AbortCommitted, Closed, Resumed, Publish, CommitAfter
<1>4. /\ Len(published) + 1 \in DOMAIN Append(published, rowid[t])
      /\ Append(published, rowid[t])[Len(published) + 1] = rowid[t]
      /\ \A k \in DOMAIN published : /\ k \in DOMAIN Append(published, rowid[t])
                                     /\ Append(published, rowid[t])[k] = published[k]
  BY <1>1
<1>5. ASSUME NEW id \in (bootHead + 1)..Len(db.log)
      PROVE  Heard(id)'
  <2>1. CASE \E k \in DOMAIN published : published[k] = id
    BY <1>2, <1>4, <2>1 DEF Heard
  <2>2. ASSUME NEW u \in Territories,
               pc[u] \in {"commit_event", "commit_capture", "commit_error"},
               queue[u] = <<>>, rowid[u] = id
        PROVE  Heard(id)'
    <3>1. CASE u = t
      BY <1>3, <1>4, <2>2, <3>1 DEF Heard
    <3>2. CASE u # t
      BY <1>1, <2>2, <3>2 DEF Heard
    <3> QED BY <3>1, <3>2
  <2> QED BY <2>1, <2>2 DEF AllHeard, Heard
<1> QED BY <1>1, <1>5 DEF AllHeard, Heard

(* A step of a task keeps KInv.                                            *)
LEMMA TaskKInv ==
    ASSUME IInv, WInv, KInv, NEW t \in Territories,
           Launch(t) \/ Drive(t) \/ Resume(t) \/ Fail(t) \/ Cancel(t)
    PROVE  KInv'
<1> SUFFICES ASSUME Calm'
             PROVE  AllHeard' /\ \A u \in Territories : Undisturbed(u)'
  BY DEF KInv
<1>1. Calm /\ (Launch(t) \/ Drive(t) \/ Resume(t))
  BY CalmSteps
<1>2. AllHeard /\ \A u \in Territories : Undisturbed(u)
  BY <1>1 DEF KInv
<1>3. /\ UNCHANGED <<db, txn, writer, rowid, bootHead>>
      /\ \A u \in Territories \ {t} : /\ queue'[u] = queue[u] /\ pc'[u] = pc[u]
                                     /\ run'[u] = run[u] /\ result'[u] = result[u]
  BY TaskTouchesOwn
<1>4. \A u \in Territories \ {t} : Undisturbed(u)'
  <2>1. \A u \in Territories \ {t} : Spared(u)
    BY <1>3, TaskSpares DEF IInv
  <2> QED BY <1>2, <1>3, <2>1, SparedUndisturbed
<1>5. Undisturbed(t)'
  BY <1>1, <1>2, ResumeUndisturbed
<1>6. AllHeard'
  BY <1>1, <1>2, ResumeHeard
<1> QED BY <1>4, <1>5, <1>6

(* Only a boot makes the daemon calm, and it starts with nothing at all.   *)
LEMMA ProcessKInv ==
    ASSUME IInv, WInv, KInv, Stop \/ Off \/ Crash \/ Boot
    PROVE  KInv'
<1>1. CASE Stop \/ Off \/ Crash
  BY <1>1 DEF Stop, Off, Crash, KInv, Calm
<1>2. CASE Boot
  <2>1. \A t \in Territories : pc[t] = "ended"
    BY <1>2 DEF Boot, IInv, DownIsEnded
  <2>2. \A t \in Territories : writer # t
    BY <2>1 DEF WInv, Shape, LockShape, Inserts, Updates, Commits
  <2>3. /\ txn' = db' /\ UNCHANGED writer /\ bootHead' = Len(db.log)
        /\ \A t \in Territories : pc'[t] = "sleep"
        /\ db'.log = db.log
        /\ db'.runs = [r \in RunIds |->
                          IF db.runs[r] = "open" THEN "crashed" ELSE db.runs[r]]
    BY <1>2 DEF Boot, IInv, TypeOK, Store
  <2>4. \A t \in Territories : Undisturbed(t)'
    BY <2>2, <2>3 DEF Undisturbed
  <2>5. AllHeard'
    <3>1. db.log \in Seq(Row)
      BY DEF IInv, TypeOK, Store
    <3>2. Len(db.log) \in Nat
      BY <3>1
    <3> QED BY <2>3, <3>2 DEF AllHeard
  <2> QED BY <2>4, <2>5 DEF KInv
<1> QED BY <1>1, <1>2

(* KInv is inductive, given IInv and WInv.                                 *)
LEMMA NextKInv == IInv /\ WInv /\ KInv /\ [Next]_vars => KInv'
<1> SUFFICES ASSUME IInv, WInv, KInv, [Next]_vars PROVE KInv'
  OBVIOUS
<1>1. CASE UNCHANGED vars
  BY <1>1 DEF vars, store, task, hub, process, KInv, Calm, Undisturbed, AllHeard, Heard
<1>2. CASE Next
  BY <1>2, ExecuteKInv, TaskKInv, ProcessKInv DEF Next
<1> QED BY <1>1, <1>2

(* At first every loop sleeps, and the log is empty.                       *)
LEMMA InitKInv == Init => KInv
<1> SUFFICES ASSUME Init PROVE KInv
  OBVIOUS
<1>1. /\ db.log = <<>> /\ db.runs = [r \in RunIds |-> "absent"] /\ txn = db
      /\ pc = [t \in Territories |-> "sleep"] /\ writer = None /\ bootHead = 0
  BY DEF Init
<1>2. \A t \in Territories : Undisturbed(t)
  BY <1>1, HuntStoreAssumption DEF Undisturbed
<1>3. AllHeard
  BY <1>1 DEF AllHeard
<1> QED BY <1>2, <1>3 DEF KInv

(* A daemon that nothing disturbs, in every reachable state.               *)
THEOREM CalmIsKept == Spec => []KInv
BY InvariantHolds, AwaitsKeepShape, InitKInv, NextKInv, PTL DEF Spec

(* append_event and capture_prey publish after their commit: while nothing *)
(* fails and nobody stops the daemon, every committed event was published  *)
(* or is about to be, however the hunts interleave.                        *)
THEOREM CommitsReachHub == Spec => []EveryCommitReachesHub
<1>1. KInv => EveryCommitReachesHub
  BY DEF KInv, Calm, AllHeard, Heard, EveryCommitReachesHub
<1> QED BY <1>1, CalmIsKept, PTL

-----------------------------------------------------------------------------
(* The runs shown as open that no hunt will close: none is at work on them *)
(* but one on its way out.                                                 *)
Lost == {r \in RunIds : /\ db.runs[r] = "open" \/ txn.runs[r] = "open"
                        /\ \A t \in Hunting : run[t] = r => pc[t] = "close"}

InSlots == IsFiniteSet(Hunting) /\ Cardinality(Hunting) <= MaxConcurrent

Uncancelled(t) == pc[t] \notin {"update_abort", "commit_abort", "unwind", "ended"}

LInv == daemon = "running" =>
            /\ \A t \in Territories : Uncancelled(t)
            /\ InSlots
            /\ IsFiniteSet(Lost) /\ Cardinality(Lost) <= faults

(* One more hunt, and one less.                                            *)
LEMMA OneMoreHunt ==
    ASSUME InSlots, NEW t \in Territories, t \notin Hunting, Cardinality(Hunting) < MaxConcurrent,
           Hunting' = Hunting \cup {t}
    PROVE  InSlots'
<1>1. IsFiniteSet(Hunting \cup {t}) /\ Cardinality(Hunting \cup {t}) = Cardinality(Hunting) + 1
  BY FS_AddElement DEF InSlots
<1>2. Cardinality(Hunting) \in Nat /\ MaxConcurrent \in Nat
  BY FS_CardinalityType, HuntStoreAssumption DEF InSlots
<1>3. Cardinality(Hunting) + 1 <= MaxConcurrent
  BY <1>2
<1> QED BY <1>1, <1>3 DEF InSlots

LEMMA OneLessHunt ==
    ASSUME InSlots, NEW t \in Hunting, Hunting' = Hunting \ {t}
    PROVE  InSlots'
<1>1. IsFiniteSet(Hunting \ {t}) /\ Cardinality(Hunting \ {t}) = Cardinality(Hunting) - 1
  BY FS_RemoveElement DEF InSlots
<1>2. Cardinality(Hunting) \in Nat /\ MaxConcurrent \in Nat
  BY FS_CardinalityType, HuntStoreAssumption DEF InSlots
<1>3. Cardinality(Hunting) - 1 <= MaxConcurrent
  BY <1>2 DEF InSlots
<1> QED BY <1>1, <1>3 DEF InSlots

(* Nothing is lost but what a failed statement is charged with.            *)
LEMMA LostBounded ==
    ASSUME IInv, IsFiniteSet(Lost), Cardinality(Lost) <= faults,
           \/ Lost' \subseteq Lost /\ faults' \in {faults, faults + 1}
           \/ faults' = faults + 1 /\ \E r \in RunIds : Lost' \subseteq Lost \cup {r}
    PROVE  IsFiniteSet(Lost') /\ Cardinality(Lost') <= faults'
<1>1. faults \in Nat /\ Cardinality(Lost) \in Nat
  BY FS_CardinalityType DEF IInv, TypeOK
<1>2. CASE Lost' \subseteq Lost /\ faults' \in {faults, faults + 1}
  <2>1. IsFiniteSet(Lost') /\ Cardinality(Lost') <= Cardinality(Lost)
    BY <1>2, FS_Subset
  <2>2. Cardinality(Lost') \in Nat
    BY <2>1, FS_CardinalityType
  <2>3. Cardinality(Lost') <= faults
    BY <1>1, <2>1, <2>2
  <2> QED BY <1>1, <1>2, <2>1, <2>2, <2>3
<1>3. ASSUME faults' = faults + 1, NEW r \in RunIds, Lost' \subseteq Lost \cup {r}
      PROVE  IsFiniteSet(Lost') /\ Cardinality(Lost') <= faults'
  <2>1. /\ IsFiniteSet(Lost \cup {r})
        /\ Cardinality(Lost \cup {r}) \in {Cardinality(Lost), Cardinality(Lost) + 1}
    <3>1. CASE r \in Lost
      <4>1. Lost \cup {r} = Lost
        BY <3>1
      <4> QED BY <4>1
    <3>2. CASE r \notin Lost
      BY <3>2, FS_AddElement
    <3> QED BY <3>1, <3>2
  <2>2. IsFiniteSet(Lost') /\ Cardinality(Lost') <= Cardinality(Lost \cup {r})
    BY <1>3, <2>1, FS_Subset
  <2>3. Cardinality(Lost') \in Nat
    BY <2>2, FS_CardinalityType
  <2> QED BY <1>1, <1>3, <2>1, <2>2, <2>3
<1> QED BY <1>2, <1>3

(* Executing a statement loses no run: a run opens under its own hunt.     *)
LEMMA ExecuteLInv ==
    ASSUME IInv, WInv, LInv, NEW t \in Territories, Execute(t)
    PROVE  LInv'
<1>1. UNCHANGED <<pc, run, daemon, faults>> /\ queue[t] # <<>>
  BY DEF Execute, ExecInsertRun, ExecAppend, ExecInsertPrey, ExecUpdateRun, ExecCommit,
         ExecClose, Write, Calling, task, process
<1> SUFFICES ASSUME daemon = "running" PROVE LInv'
  BY <1>1 DEF LInv
<1>2. /\ \A u \in Territories : Uncancelled(u)
      /\ InSlots /\ IsFiniteSet(Lost) /\ Cardinality(Lost) <= faults
  BY DEF LInv
<1>3. t \in Hunting /\ run[t] \in RunIds /\ TypeOK /\ QueueShape(t)
  BY <1>1 DEF IInv, RunKnown, Hunting, WInv, Shape
<1>4. Hunting' = Hunting
  BY <1>1 DEF Hunting
<1>5. \A r \in RunIds : \/ db'.runs[r] = "open" \/ txn'.runs[r] = "open"
                        => \/ db.runs[r] = "open" \/ txn.runs[r] = "open"
                           \/ r = run[t] /\ pc[t] # "close"
  <2>1. CASE ExecInsertRun(t)
    <3>1. Head(queue[t]) = "insert_run" /\ db' = db
          /\ txn'.runs = [txn.runs EXCEPT ![run[t]] = "open"]
      BY <1>3, <2>1 DEF ExecInsertRun, Calling, Write, TypeOK, Store
    <3>2. pc[t] # "close"
      BY <1>1, <1>3, <3>1, HeadCases DEF Op
    <3> QED BY <1>3, <3>1, <3>2 DEF TypeOK, Store
  <2>2. CASE ExecUpdateRun(t)
    <3>1. /\ db' = db
          /\ txn'.runs = IF txn.runs[run[t]] = "open"
                         THEN [txn.runs EXCEPT ![run[t]] = result[t]] ELSE txn.runs
      BY <1>3, <2>2 DEF ExecUpdateRun, Write, TypeOK, Store
    <3>2. \A r \in RunIds : txn'.runs[r] = "open" => txn.runs[r] = "open"
      BY <1>3, <3>1 DEF TypeOK, Store
    <3> QED BY <3>1, <3>2
  <2>3. CASE (\E kind \in Kinds : ExecAppend(t, kind)) \/ ExecInsertPrey(t)
    <3>1. db' = db /\ txn'.runs = txn.runs
      BY <1>3, <2>3 DEF ExecAppend, ExecInsertPrey, Write, TypeOK, Store
    <3> QED BY <3>1
  <2>4. CASE ExecCommit(t) \/ ExecClose(t)
    <3>1. db' \in {db, txn} /\ txn' \in {db, txn}
      BY <2>4 DEF ExecCommit, ExecClose
    <3> QED BY <3>1
  <2> QED BY <2>1, <2>2, <2>3, <2>4 DEF Execute
<1>6. Lost' \subseteq Lost
  BY <1>1, <1>3, <1>4, <1>5 DEF Lost
<1>7. IsFiniteSet(Lost') /\ Cardinality(Lost') <= faults'
  BY <1>1, <1>2, <1>6, LostBounded
<1>8. InSlots' /\ \A u \in Territories : Uncancelled(u)'
  BY <1>1, <1>2, <1>4 DEF InSlots, Uncancelled
<1> QED BY <1>7, <1>8 DEF LInv

(* A hunt starts in a free slot and gives it back with its run closed, or  *)
(* with a failure that it is charged with.                                 *)
LEMMA TaskLInv ==
    ASSUME IInv, WInv, LInv, NEW t \in Territories,
           Launch(t) \/ Drive(t) \/ Resume(t) \/ Fail(t) \/ Cancel(t)
    PROVE  LInv'
<1>1. /\ UNCHANGED <<db, txn>> /\ pc \in [Territories -> Awaits]
      /\ run \in [Territories -> RunIds \cup {None}]
      /\ \A u \in Territories \ {t} : pc'[u] = pc[u] /\ run'[u] = run[u]
  BY TaskTouchesOwn DEF IInv, TypeOK
<1> SUFFICES ASSUME daemon' = "running" PROVE LInv'
  BY DEF LInv
<1>2. daemon = "running" /\ ~ Cancel(t)
  BY DEF Launch, Drive, Record, Capture, Conclude, DriveRaises, Resume, StatementReturns,
         CaptureRowNext, RunStarted, EventCommitted, CaptureCommitted, ErrorCommitted,
         OutcomeCommitted, AbortCommitted, Closed, Fail, FailUnheard, FailInTry, FailEscapes,
         Cancel, process
<1>3. /\ \A u \in Territories : Uncancelled(u)
      /\ InSlots /\ IsFiniteSet(Lost) /\ Cardinality(Lost) <= faults
  BY <1>2 DEF LInv
<1>4. ASSUME Uncancelled(t)', InSlots',
             \/ Lost' \subseteq Lost /\ faults' \in {faults, faults + 1}
             \/ faults' = faults + 1 /\ \E r \in RunIds : Lost' \subseteq Lost \cup {r}
      PROVE  LInv'
  <2>1. \A u \in Territories : Uncancelled(u)'
    BY <1>1, <1>3, <1>4 DEF Uncancelled
  <2>2. IsFiniteSet(Lost') /\ Cardinality(Lost') <= faults'
    BY <1>3, <1>4, LostBounded
  <2> QED BY <1>4, <2>1, <2>2 DEF LInv
<1>5. ASSUME NEW r \in Lost', r # run[t] \/ t \notin Hunting \/ pc[t] = "close"
      PROVE  r \in Lost
  <2>1. /\ r \in RunIds /\ (db.runs[r] = "open" \/ txn.runs[r] = "open")
        /\ \A u \in Hunting' : run'[u] = r => pc'[u] = "close"
    BY <1>1 DEF Lost
  <2>2. \A u \in Hunting : run[u] = r => pc[u] = "close"
    BY <1>1, <1>5, <2>1 DEF Hunting
  <2> QED BY <2>1, <2>2 DEF Lost
<1>6. CASE Launch(t)
  <2>1. /\ pc[t] = "sleep" /\ pc'[t] = "insert_run" /\ faults' = faults
        /\ Cardinality(Hunting) < MaxConcurrent
    BY <1>1, <1>6 DEF Launch, Resumed, Await, GoTo, process
  <2>2. t \notin Hunting /\ Hunting' = Hunting \cup {t}
    BY <1>1, <2>1 DEF Hunting
  <2>3. InSlots'
    BY <1>3, <2>1, <2>2, OneMoreHunt
  <2>4. Lost' \subseteq Lost
    BY <1>5, <2>2
  <2> QED BY <1>4, <2>1, <2>3, <2>4 DEF Uncancelled
<1>7. CASE Closed(t)
  <2>1. pc[t] = "close" /\ pc'[t] = "sleep" /\ faults' = faults
    BY <1>1, <1>3, <1>7 DEF Closed, Resumed, GoTo, Uncancelled, process
  <2>2. t \in Hunting /\ Hunting' = Hunting \ {t}
    BY <1>1, <2>1 DEF Hunting
  <2>3. InSlots'
    BY <1>3, <2>2, OneLessHunt
  <2>4. Lost' \subseteq Lost
    BY <1>5, <2>1
  <2> QED BY <1>4, <2>1, <2>3, <2>4 DEF Uncancelled
<1>8. ASSUME pc[t] \notin {"sleep", "ended"}, pc'[t] \notin {"sleep", "ended"},
             run'[t] = run[t]
      PROVE  /\ InSlots' /\ t \in Hunting /\ t \in Hunting'
             /\ pc'[t] # "close" => Lost' \subseteq Lost
             /\ Lost' \subseteq Lost \cup {run[t]}
  <2>1. Hunting' = Hunting /\ t \in Hunting
    BY <1>1, <1>8 DEF Hunting
  <2>2. InSlots'
    BY <1>3, <2>1 DEF InSlots
  <2>3. pc'[t] # "close" => run[t] \notin Lost'
    BY <1>8, <2>1 DEF Lost
  <2> QED BY <1>5, <2>1, <2>2, <2>3
<1>9. CASE OutcomeCommitted(t)
  <2>1. /\ pc[t] = "commit_outcome" /\ queue[t] = <<>> /\ pc'[t] = "close"
        /\ run'[t] = run[t] /\ faults' = faults
    BY <1>1, <1>9 DEF OutcomeCommitted, Resumed, Await, GoTo, process
  <2>2. run[t] \in RunIds /\ db.runs[run[t]] = result[t] /\ result[t] \in Outcomes
    BY <2>1 DEF IInv, RunKnown, TypeOK, WInv, Shape, RunShape
  <2>3. txn.runs[run[t]] = result[t] /\ result[t] # "open"
    BY <2>2 DEF WInv, TxnOnFile, Outcomes
  <2>4. run[t] \notin Lost'
    BY <1>1, <2>2, <2>3 DEF Lost
  <2>5. InSlots' /\ Lost' \subseteq Lost
    BY <1>8, <2>1, <2>4
  <2> QED BY <1>4, <2>1, <2>5 DEF Uncancelled
<1>10. CASE Fail(t)
  <2>1. faults' = faults + 1 /\ run'[t] = run[t]
    BY <1>10 DEF Fail, FailUnheard, FailInTry, FailEscapes, Failing, task
  <2>2. pc[t] \notin {"sleep", "ended"}
    BY <1>10 DEF Fail, FailUnheard, FailInTry, FailEscapes, Failing, IInv, RunKnown
  <2>3. pc'[t] \in {pc[t], "insert_error", "close"}
    BY <1>1, <1>10 DEF Fail, FailUnheard, FailInTry, FailEscapes, GoTo, task
  <2>4. run[t] \in RunIds
    BY <2>2 DEF IInv, RunKnown
  <2>5. InSlots' /\ Lost' \subseteq Lost \cup {run[t]}
    BY <1>8, <2>1, <2>2, <2>3
  <2> QED BY <1>3, <1>4, <2>1, <2>3, <2>4, <2>5 DEF Uncancelled
<1>11. CASE Drive(t) \/ (Resume(t) /\ ~ OutcomeCommitted(t) /\ ~ Closed(t))
  <2>1. /\ pc[t] \notin {"sleep", "ended"} /\ run'[t] = run[t] /\ faults' = faults
        /\ pc'[t] \in Awaits \ {"sleep", "ended", "close", "update_abort", "commit_abort", "unwind"}
    BY <1>1, <1>3, <1>11
       DEF Drive, Record, Capture, Conclude, DriveRaises, Resume, StatementReturns,
           CaptureRowNext, RunStarted, EventCommitted, CaptureCommitted, ErrorCommitted,
           AbortCommitted, Resumed, FinishRun, Await, GoTo, CommitAfter, Uncancelled, process,
           Awaits, InTry, Unprotected
  <2>2. InSlots' /\ Lost' \subseteq Lost
    BY <1>8, <2>1
  <2> QED BY <1>4, <2>1, <2>2 DEF Uncancelled
<1> QED BY <1>2, <1>6, <1>7, <1>9, <1>10, <1>11

(* Only a boot sets the daemon running, and its sweep leaves no run open.  *)
LEMMA ProcessLInv ==
    ASSUME IInv, LInv, Stop \/ Off \/ Crash \/ Boot
    PROVE  LInv'
<1>1. CASE Stop \/ Off \/ Crash
  BY <1>1 DEF Stop, Off, Crash, LInv
<1>2. CASE Boot
  <2>1. /\ \A t \in Territories : pc'[t] = "sleep"
        /\ txn' = db' /\ faults' = faults /\ faults \in Nat
        /\ db'.runs = [r \in RunIds |->
                          IF db.runs[r] = "open" THEN "crashed" ELSE db.runs[r]]
    BY <1>2 DEF Boot, IInv, TypeOK, Store
  <2>2. Hunting' = {} /\ Lost' = {}
    BY <2>1 DEF Hunting, Lost
  <2> QED BY <2>1, <2>2, FS_EmptySet, HuntStoreAssumption DEF LInv, InSlots, Uncancelled
<1> QED BY <1>1, <1>2

(* LInv is inductive, given IInv and WInv.                                 *)
LEMMA NextLInv == IInv /\ WInv /\ LInv /\ [Next]_vars => LInv'
<1> SUFFICES ASSUME IInv, WInv, LInv, [Next]_vars PROVE LInv'
  OBVIOUS
<1>1. CASE UNCHANGED vars
  BY <1>1 DEF vars, store, task, process, LInv, Uncancelled, InSlots, Hunting, Lost
<1>2. CASE Next
  BY <1>2, ExecuteLInv, TaskLInv, ProcessLInv DEF Next
<1> QED BY <1>1, <1>2

LEMMA InitLInv == Init => LInv
<1> SUFFICES ASSUME Init PROVE LInv
  OBVIOUS
<1>1. /\ db.runs = [r \in RunIds |-> "absent"] /\ txn = db /\ faults = 0
      /\ \A t \in Territories : pc[t] = "sleep"
  BY DEF Init
<1>2. Hunting = {} /\ Lost = {}
  BY <1>1 DEF Hunting, Lost
<1> QED BY <1>1, <1>2, FS_EmptySet, HuntStoreAssumption DEF LInv, InSlots, Uncancelled

(* What a daemon that runs has lost, in every reachable state.             *)
THEOREM LossesAreCharged == Spec => []LInv
BY InvariantHolds, AwaitsKeepShape, InitLInv, NextLInv, PTL DEF Spec

(* server.snapshot_state: while the daemon runs, a hunt is at work on each *)
(* run with outcome NULL but for one per failed statement, and there are   *)
(* at most as many as the scheduler has slots and statements failed.       *)
THEOREM OpenRunsHaveHunts == Spec => []OpenRunsAreHunts
<1>1. IInv /\ LInv => OpenRunsAreHunts
  <2> SUFFICES ASSUME IInv, LInv, daemon = "running" PROVE OpenRunsAreHunts
    BY DEF OpenRunsAreHunts
  <2> DEFINE open == {r \in RunIds : db.runs[r] = "open"}
             left == {r \in open : \A t \in Hunting : run[t] = r => pc[t] = "close"}
             kept == open \ left
             hunt == [r \in kept |-> CHOOSE t \in Hunting : run[t] = r]
  <2>1. /\ InSlots /\ IsFiniteSet(Lost) /\ Cardinality(Lost) <= faults
        /\ faults \in Nat /\ MaxConcurrent \in Nat
    BY HuntStoreAssumption DEF LInv, IInv, TypeOK
  <2>2. left \subseteq Lost
    BY DEF Lost
  <2>3. \A r \in kept : \E t \in Hunting : run[t] = r
    OBVIOUS
  <2>4. \A r \in kept : hunt[r] \in Hunting /\ run[hunt[r]] = r
    <3> HIDE DEF kept
    <3> QED BY <2>3
  <2>5. hunt \in Injection(kept, Hunting)
    <3>1. hunt \in [kept -> Hunting]
      BY <2>4
    <3>2. \A q, r \in kept : hunt[q] = hunt[r] => q = r
      BY <2>4
    <3> HIDE DEF hunt, kept
    <3> QED BY <3>1, <3>2 DEF Injection, IsInjective
  <2>6. open = kept \cup left /\ kept \cap left = {}
    OBVIOUS
  <2> HIDE DEF hunt, kept, left, open
  <2>7. IsFiniteSet(left) /\ Cardinality(left) <= Cardinality(Lost)
    BY <2>1, <2>2, FS_Subset
  <2>8. IsFiniteSet(kept) /\ Cardinality(kept) <= Cardinality(Hunting)
    BY <2>1, <2>5, FS_Injection DEF InSlots
  <2>9. Cardinality(open) = Cardinality(kept) + Cardinality(left)
    <3>1. Cardinality(kept \cap left) = 0
      BY <2>6, FS_EmptySet
    <3>2. Cardinality(kept) \in Nat /\ Cardinality(left) \in Nat
      BY <2>7, <2>8, FS_CardinalityType
    <3>3. Cardinality(open) = Cardinality(kept) + Cardinality(left) - Cardinality(kept \cap left)
      BY <2>6, <2>7, <2>8, FS_Union
    <3> QED BY <3>1, <3>2, <3>3
  <2>10. /\ Cardinality(left) \in Nat /\ Cardinality(kept) \in Nat
         /\ Cardinality(Lost) \in Nat /\ Cardinality(Hunting) \in Nat
    BY <2>1, <2>7, <2>8, FS_CardinalityType DEF InSlots
  <2>11. Cardinality(left) <= faults /\ Cardinality(open) <= MaxConcurrent + faults
    BY <2>1, <2>7, <2>8, <2>9, <2>10 DEF InSlots
  <2> QED BY <2>11 DEF OpenRunsAreHunts, open, left
<1> QED BY <1>1, InvariantHolds, LossesAreCharged, PTL
=============================================================================
