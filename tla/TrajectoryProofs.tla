--------------------------- MODULE TrajectoryProofs ---------------------------
(***************************************************************************)
(* HuntStore implements TrajectoryLog, for every set of territories and    *)
(* run ids and every bound: what the readers of the file are promised, a   *)
(* log that only grows and a status per run that opens and closes once,    *)
(* whatever the tasks, threads and restarts behind it do.  Over HuntStore- *)
(* Proofs it takes what the open transaction holds against the file: the   *)
(* row of a run that starts, or up to two next events of one open run and  *)
(* perhaps its outcome.                                                    *)
(***************************************************************************)
EXTENDS HuntStoreProofs, SequenceTheorems

(* The events of run r in a log, and the log as its readers see it.        *)
Mine(l, r) == {i \in DOMAIN l : l[i].run = r}

Seen(l) == [i \in DOMAIN l |-> [run |-> l[i].run, seq |-> l[i].seq]]

(* m is l and up to two next events of run r.                              *)
Grown(l, m, r) ==
    /\ Len(l) <= Len(m) /\ Len(m) <= Len(l) + 2
    /\ \A i \in 1..Len(l) : m[i] = l[i]
    /\ \A i \in (Len(l) + 1)..Len(m) :
          m[i].run = r /\ m[i].seq = Cardinality(Mine(l, r)) + i - Len(l) - 1

(* The two transactions of a hunt.                                         *)
Opening(t) ==
    /\ db.runs[run[t]] = "absent"
    /\ txn.runs = [db.runs EXCEPT ![run[t]] = "open"] /\ txn.log = db.log

Writing(t) ==
    /\ db.runs[run[t]] = "open"
    /\ \E s \in {"open"} \cup Outcomes : txn.runs = [db.runs EXCEPT ![run[t]] = s]
    /\ Grown(db.log, txn.log, run[t])

(* How many events t's transaction holds, by the await of its task: there  *)
(* is room for the one still queued.                                       *)
Holds(t, n) == writer = t => Len(txn.log) <= Len(db.log) + n

EventCalls == {"insert_step", "insert_capture"}

Room(t) ==
    /\ pc[t] \in InTry => Holds(t, 1)
    /\ pc[t] \in {"insert_event", "insert_capture"} /\ queue[t] # <<>> => Holds(t, 0)
    /\ queue[t] # <<>> /\ Head(queue[t]) \in EventCalls => Holds(t, 1)

(* A write left behind by a cancelled task belongs to an open run.         *)
LeftBehind(t) ==
    /\ pc[t] = "unwind" /\ queue[t] # <<>>
    /\ Head(queue[t]) \in Writes \ {"insert_run"}
    => Is(t, "open")

TxnShape(t) == /\ writer = t => Opening(t) \/ Writing(t)
               /\ Room(t) /\ LeftBehind(t)

RInv == \A t \in Territories : TxnShape(t)

-----------------------------------------------------------------------------
(* A run numbered gaplessly up to n has n events.                          *)
LEMMA CountIsNumber ==
    ASSUME NEW l \in Seq(Row), NEW r \in RunIds, NEW n \in Nat, Numbered(l, r, n)
    PROVE  IsFiniteSet(Mine(l, r)) /\ Cardinality(Mine(l, r)) = n
<1>1. Mine(l, r) \subseteq 1..Len(l) /\ Len(l) \in Nat
  BY DEF Mine
<1>2. IsFiniteSet(Mine(l, r))
  <2>1. IsFiniteSet(1..Len(l))
    BY <1>1, FS_Interval
  <2> QED BY <1>1, <2>1, FS_Subset
<1>3. \A i \in Mine(l, r) : l[i].seq \in 0..(n-1)
  <2> SUFFICES ASSUME NEW i \in Mine(l, r) PROVE l[i].seq \in 0..(n-1)
    OBVIOUS
  <2>1. l[i] \in Row /\ i \in DOMAIN l /\ l[i].run = r
    BY DEF Mine
  <2> QED BY <2>1 DEF Numbered, Row
<1> DEFINE f == [i \in Mine(l, r) |-> l[i].seq]
<1>4. f \in [Mine(l, r) -> 0..(n-1)]
  BY <1>3
<1>5. \A i, j \in Mine(l, r) : i # j => f[i] # f[j]
  <2> SUFFICES ASSUME NEW i \in Mine(l, r), NEW j \in Mine(l, r), i # j PROVE f[i] # f[j]
    OBVIOUS
  <2>1. i \in DOMAIN l /\ j \in DOMAIN l /\ l[i].run = r /\ l[j].run = r
    BY DEF Mine
  <2>2. i < j \/ j < i
    BY <1>1
  <2>3. l[i].seq \in Nat /\ l[j].seq \in Nat
    BY <1>3
  <2>4. l[i].seq < l[j].seq \/ l[j].seq < l[i].seq
    BY <2>1, <2>2 DEF Numbered
  <2> QED BY <2>3, <2>4
<1>6. \A k \in 0..(n-1) : \E i \in Mine(l, r) : f[i] = k
  BY DEF Mine, Numbered
<1>7. ExistsBijection(Mine(l, r), 0..(n-1))
  <2> HIDE DEF f
  <2>1. f \in Bijection(Mine(l, r), 0..(n-1))
    BY <1>4, <1>5, <1>6 DEF Bijection, Injection, Surjection, IsInjective
  <2> QED BY <2>1 DEF ExistsBijection
<1>8. Cardinality(Mine(l, r)) = Cardinality(0..(n-1))
  BY <1>2, <1>7, FS_Bijection
<1>9. Cardinality(0..(n-1)) = n
  BY FS_Interval
<1> QED BY <1>2, <1>8, <1>9

(* The next seq of a gapless run is the number of its events.              *)
LEMMA NextIsCount ==
    ASSUME NEW l \in Seq(Row), NEW r \in RunIds, Gapless(l, r)
    PROVE  /\ IsFiniteSet(Mine(l, r)) /\ Cardinality(Mine(l, r)) \in Nat
           /\ NextSeq(l, r) = Cardinality(Mine(l, r))
<1>1. PICK n \in 0..Len(l) : Numbered(l, r, n)
  BY DEF Gapless, Numbered
<1> QED BY <1>1, CountIsNumber, NextSeqIsNext

(* A log that has grown by at most one event grows by the next one.        *)
LEMMA GrownAppend ==
    ASSUME NEW l \in Seq(Row), NEW m \in Seq(Row), NEW r \in RunIds, NEW kind \in Kinds,
           Gapless(l, r), Gapless(m, r), Grown(l, m, r), Len(m) <= Len(l) + 1
    PROVE  Grown(l, Append(m, [run |-> r, seq |-> NextSeq(m, r), kind |-> kind]), r)
<1> DEFINE row == [run |-> r, seq |-> NextSeq(m, r), kind |-> kind]
           new == Append(m, row)
<1>1. row.run = r /\ row.seq = Cardinality(Mine(m, r))
  BY NextIsCount
<1>2. Len(l) \in Nat /\ Len(m) \in Nat /\ DOMAIN l = 1..Len(l) /\ DOMAIN m = 1..Len(m)
  OBVIOUS
<1>3. /\ Len(new) = Len(m) + 1 /\ new[Len(m) + 1] = row
      /\ \A i \in 1..Len(m) : new[i] = m[i]
  BY <1>2
<1> HIDE DEF row, new
<1>4. Mine(m, r) = Mine(l, r) \cup ((Len(l) + 1)..Len(m))
  <2>1. \A i \in 1..Len(l) : i \in Mine(m, r) <=> i \in Mine(l, r)
    BY <1>2 DEF Mine, Grown
  <2>2. \A i \in (Len(l) + 1)..Len(m) : i \in Mine(m, r)
    <3> SUFFICES ASSUME NEW i \in (Len(l) + 1)..Len(m) PROVE i \in Mine(m, r)
      OBVIOUS
    <3>1. m[i].run = r
      BY DEF Grown
    <3>2. i \in DOMAIN m
      BY <1>2
    <3> QED BY <3>1, <3>2 DEF Mine
  <2>3. Mine(m, r) \subseteq 1..Len(m) /\ Mine(l, r) \subseteq 1..Len(l)
    BY <1>2 DEF Mine
  <2>4. 1..Len(m) = (1..Len(l)) \cup ((Len(l) + 1)..Len(m))
    BY <1>2 DEF Grown
  <2> QED BY <2>1, <2>2, <2>3, <2>4
<1>5. Mine(l, r) \cap ((Len(l) + 1)..Len(m)) = {}
  BY <1>2 DEF Mine
<1>6. Cardinality((Len(l) + 1)..Len(m)) = Len(m) - Len(l) /\ IsFiniteSet((Len(l) + 1)..Len(m))
  <2>1. Len(l) + 1 \in Int /\ Len(m) \in Int /\ Len(l) <= Len(m)
    BY <1>2 DEF Grown
  <2>2. /\ IsFiniteSet((Len(l) + 1)..Len(m))
        /\ Cardinality((Len(l) + 1)..Len(m)) =
              IF Len(l) + 1 > Len(m) THEN 0 ELSE Len(m) - (Len(l) + 1) + 1
    BY <2>1, FS_Interval
  <2> QED BY <1>2, <2>1, <2>2
<1>7. IsFiniteSet(Mine(l, r)) /\ Cardinality(Mine(l, r)) \in Nat
  BY NextIsCount
<1>8. Cardinality(Mine(m, r)) = Cardinality(Mine(l, r)) + Len(m) - Len(l)
  <2>1. Cardinality(Mine(m, r)) =
           Cardinality(Mine(l, r)) + Cardinality((Len(l) + 1)..Len(m)) - Cardinality({})
    BY <1>4, <1>5, <1>6, <1>7, FS_Union
  <2> QED BY <1>2, <1>6, <1>7, <2>1, FS_EmptySet
<1>9. \A i \in (Len(l) + 1)..Len(new) :
         new[i].run = r /\ new[i].seq = Cardinality(Mine(l, r)) + i - Len(l) - 1
  <2> SUFFICES ASSUME NEW i \in (Len(l) + 1)..Len(new)
               PROVE  /\ new[i].run = r
                      /\ new[i].seq = Cardinality(Mine(l, r)) + i - Len(l) - 1
    OBVIOUS
  <2>1. CASE i = Len(m) + 1
    BY <1>1, <1>2, <1>3, <1>7, <1>8, <2>1
  <2>2. CASE i # Len(m) + 1
    BY <1>2, <1>3, <2>2 DEF Grown
  <2> QED BY <2>1, <2>2
<1>10. Grown(l, new, r)
  BY <1>2, <1>3, <1>9 DEF Grown
<1> QED BY <1>10 DEF row, new

(* A log has grown by nothing.                                             *)
LEMMA GrownNot ==
    ASSUME NEW l \in Seq(Row), NEW r
    PROVE  Grown(l, l, r)
<1>1. Len(l) \in Nat
  OBVIOUS
<1> QED BY <1>1 DEF Grown

(* What a reader sees of a row.                                            *)
SeenRow == [run : RunIds, seq : Nat]

(* The log as it is seen, row by row.                                      *)
LEMMA SeenTyped ==
    ASSUME NEW l \in Seq(Row)
    PROVE  /\ Seen(l) \in Seq(SeenRow) /\ Len(Seen(l)) = Len(l)
           /\ \A i \in 1..Len(l) : Seen(l)[i] = [run |-> l[i].run, seq |-> l[i].seq]
<1>1. \A i \in 1..Len(l) : l[i] \in Row
  OBVIOUS
<1>2. \A i \in 1..Len(l) : [run |-> l[i].run, seq |-> l[i].seq] \in SeenRow
  BY <1>1 DEF Row, SeenRow
<1>3. DOMAIN l = 1..Len(l) /\ Len(l) \in Nat
  OBVIOUS
<1>4. Seen(l) \in [1..Len(l) -> SeenRow]
  BY <1>2, <1>3 DEF Seen
<1>5. Seen(l) \in Seq(SeenRow)
  BY <1>3, <1>4
<1>6. Len(Seen(l)) = Len(l)
  BY <1>3, <1>4
<1> QED BY <1>3, <1>5, <1>6 DEF Seen

(* A log grown by next events is what TrajectoryLog calls extended.        *)
LEMMA GrownIsExtended ==
    ASSUME NEW l \in Seq(Row), NEW m \in Seq(Row), NEW r \in RunIds, Grown(l, m, r),
           IsFiniteSet(Mine(l, r))
    PROVE  \E k \in 0..2 :
              Seen(m) = Seen(l) \o [i \in 1..k |-> [run |-> r,
                                        seq |-> Cardinality(Mine(Seen(l), r)) + i - 1]]
<1>1. PICK a \in Nat, b \in Nat : a = Len(l) /\ b = Len(m)
  OBVIOUS
<1>2. a <= b /\ b <= a + 2
  BY <1>1 DEF Grown
<1>3. PICK k \in 0..2 : b = a + k
  <2>1. b - a \in 0..2 /\ b = a + (b - a)
    BY <1>2
  <2> QED BY <2>1
<1>4. PICK c \in Nat : c = Cardinality(Mine(l, r))
  BY FS_CardinalityType
<1>5. Mine(Seen(l), r) = Mine(l, r)
  BY DEF Mine, Seen
<1> DEFINE tail == [i \in 1..k |-> [run |-> r, seq |-> c + i - 1]]
<1>6. /\ tail \in Seq(SeenRow) /\ Len(tail) = k
      /\ \A i \in 1..k : tail[i] = [run |-> r, seq |-> c + i - 1]
  <2>1. \A i \in 1..k : [run |-> r, seq |-> c + i - 1] \in SeenRow
    BY DEF SeenRow
  <2>2. tail \in [1..k -> SeenRow]
    BY <2>1
  <2>3. k \in Nat
    OBVIOUS
  <2>4. \A i \in 1..k : tail[i] = [run |-> r, seq |-> c + i - 1]
    OBVIOUS
  <2> HIDE DEF tail
  <2>5. tail \in Seq(SeenRow) /\ Len(tail) = k
    BY <2>2, <2>3
  <2> QED BY <2>4, <2>5
<1>7. /\ Seen(l) \in Seq(SeenRow) /\ Len(Seen(l)) = a
      /\ Seen(m) \in Seq(SeenRow) /\ Len(Seen(m)) = b
  BY <1>1, SeenTyped
<1> HIDE DEF tail
<1>8. /\ Seen(l) \o tail \in Seq(SeenRow) /\ Len(Seen(l) \o tail) = b
      /\ \A i \in 1..b : (Seen(l) \o tail)[i] = IF i <= a THEN Seen(l)[i] ELSE tail[i - a]
  BY <1>3, <1>6, <1>7, ConcatProperties
<1>9. ASSUME NEW i \in 1..b
      PROVE  Seen(m)[i] = (Seen(l) \o tail)[i]
  <2>1. CASE i <= a
    <3>1. m[i] = l[i]
      BY <1>1, <2>1 DEF Grown
    <3>2. i \in 1..Len(l) /\ i \in 1..Len(m)
      BY <1>1, <2>1
    <3>3. Seen(m)[i] = Seen(l)[i]
      BY <3>1, <3>2, SeenTyped
    <3> QED BY <1>8, <2>1, <3>3
  <2>2. CASE ~ (i <= a)
    <3>1. m[i].run = r /\ m[i].seq = c + (i - a) - 1
      BY <1>1, <1>4, <2>2 DEF Grown
    <3>2. i - a \in 1..k
      BY <1>3, <2>2
    <3>3. Seen(m)[i] = [run |-> r, seq |-> c + (i - a) - 1]
      BY <1>1, <3>1, SeenTyped
    <3>4. (Seen(l) \o tail)[i] = tail[i - a]
      BY <1>8, <2>2
    <3>5. tail[i - a] = [run |-> r, seq |-> c + (i - a) - 1]
      BY <1>6, <3>2
    <3> QED BY <3>3, <3>4, <3>5
  <2> QED BY <2>1, <2>2
<1>10. Seen(m) = Seen(l) \o tail
  BY <1>7, <1>8, <1>9, SeqEqual
<1> QED BY <1>4, <1>5, <1>10 DEF tail

-----------------------------------------------------------------------------
(* A task that others spare keeps its transaction.                         *)
LEMMA SparedTxn ==
    ASSUME TypeOK, RunKnown, NEW u \in Territories, TxnShape(u), Spared(u),
           writer = u => db' = db
    PROVE  TxnShape(u)'
<1>1. /\ queue'[u] = queue[u] /\ pc'[u] = pc[u] /\ run'[u] = run[u]
      /\ writer' = u <=> writer = u
      /\ writer = u => txn' = txn /\ db' = db
  BY DEF Spared
<1>2. writer' = u => Opening(u)' \/ Writing(u)'
  <2>1. CASE writer = u /\ Opening(u)
    BY <1>1, <2>1 DEF Opening
  <2>2. CASE writer = u /\ Writing(u)
    <3>1. Grown(db'.log, txn'.log, run'[u])
      BY <1>1, <2>2 DEF Writing
    <3> QED BY <1>1, <2>2, <3>1 DEF Writing
  <2> QED BY <1>1, <2>1, <2>2 DEF TxnShape
<1>3. \A n : Holds(u, n) => Holds(u, n)'
  BY <1>1 DEF Holds
<1>4. Room(u)'
  BY <1>1, <1>3 DEF TxnShape, Room
<1>5. pc[u] = "unwind" /\ Is(u, "open") => Is(u, "open")'
  BY <1>1 DEF RunKnown, Spared, Is
<1>6. LeftBehind(u)'
  BY <1>1, <1>5 DEF TxnShape, LeftBehind
<1> QED BY <1>2, <1>4, <1>6 DEF TxnShape

(* A connection that writes for an open run has, or now begins, a          *)
(* transaction of that run.                                                *)
LEMMA WritesOwnRun ==
    ASSUME IInv, WInv, NEW t \in Territories, TxnShape(t),
           writer \in {None, t}, run[t] \in RunIds, Is(t, "open")
    PROVE  Writing(t) /\ \A n \in {0, 1} : writer = None => Len(txn.log) <= Len(db.log) + n
<1>1. /\ db.log \in Seq(Row) /\ db.runs \in [RunIds -> Status]
      /\ writer = None => txn = db
  BY DEF IInv, TypeOK, Store, WInv, TxnOnFile
<1>2. Len(db.log) \in Nat
  BY <1>1
<1>3. CASE writer = None
  <2>1. txn = db /\ db.runs[run[t]] = "open"
    BY <1>1, <1>3 DEF Is
  <2>2. txn.runs = [db.runs EXCEPT ![run[t]] = "open"]
    BY <1>1, <2>1
  <2>3. Grown(db.log, txn.log, run[t])
    BY <1>1, <2>1, GrownNot
  <2> QED BY <1>2, <2>1, <2>2, <2>3 DEF Writing
<1>4. CASE writer = t
  BY <1>4, HuntStoreAssumption DEF TxnShape, Opening, Is
<1> QED BY <1>3, <1>4

(* The INSERT of a run begins the transaction that opens it.               *)
LEMMA InsertRunTxn ==
    ASSUME IInv, WInv, NEW t \in Territories, TxnShape(t), ExecInsertRun(t)
    PROVE  TxnShape(t)'
<1>1. /\ queue[t] # <<>> /\ Head(queue[t]) = "insert_run" /\ Pop(t)
      /\ writer \in {None, t} /\ writer' = t
      /\ txn' = [txn EXCEPT !.runs[run[t]] = "open"]
      /\ UNCHANGED <<db, pc, run>>
  BY DEF ExecInsertRun, Calling, Write
<1>2. TypeOK /\ QueueShape(t) /\ RunShape(t) /\ run[t] \in RunIds
      /\ txn.runs \in [RunIds -> Status] /\ db.runs \in [RunIds -> Status]
  BY <1>1 DEF IInv, TypeOK, RunKnown, Store, WInv, Shape
<1>3. \/ pc[t] = "insert_run" /\ queue'[t] = <<>>
      \/ pc[t] = "unwind" /\ queue[t] = <<"insert_run", "close">> /\ queue'[t] = <<"close">>
  BY <1>1, <1>2, PopCases, Submitters DEF Interrupted
<1>4. Is(t, "absent")
  BY <1>1, <1>2, <1>3 DEF RunShape
<1>5. writer # t
  BY <1>2, <1>4 DEF TxnShape, Opening, Writing, Is
<1>6. txn = db
  BY <1>1, <1>5 DEF WInv, TxnOnFile
<1>7. txn'.log = txn.log /\ txn'.runs = [txn.runs EXCEPT ![run[t]] = "open"]
  BY <1>1 DEF IInv, TypeOK, Store
<1>8. Opening(t)'
  BY <1>1, <1>4, <1>6, <1>7 DEF Opening, Is
<1>9. pc'[t] = pc[t] /\ (queue'[t] # <<>> => Head(queue'[t]) = "close")
  BY <1>1, <1>3, Single
<1>10. Room(t)' /\ LeftBehind(t)'
  BY <1>3, <1>9 DEF Room, InTry, EventCalls, LeftBehind, Writes
<1> QED BY <1>8, <1>10 DEF TxnShape

(* The INSERT of an event: one more next event of the run.                 *)
LEMMA AppendTxn ==
    ASSUME IInv, WInv, NEW t \in Territories, TxnShape(t), NEW kind \in Kinds,
           ExecAppend(t, kind)
    PROVE  TxnShape(t)'
<1> DEFINE row == [run |-> run[t], seq |-> NextSeq(txn.log, run[t]), kind |-> kind]
<1>1. /\ queue[t] # <<>> /\ Head(queue[t]) \in EventCalls /\ Pop(t)
      /\ writer \in {None, t} /\ writer' = t
      /\ txn' = [txn EXCEPT !.log = Append(@, row)]
      /\ UNCHANGED <<db, pc, run>>
  BY DEF ExecAppend, Calling, Write, EventCalls
<1>2. TypeOK /\ QueueShape(t) /\ RunShape(t) /\ run[t] \in RunIds
      /\ txn.log \in Seq(Row) /\ db.log \in Seq(Row)
  BY <1>1 DEF IInv, TypeOK, RunKnown, Store, WInv, Shape
<1>3. \/ pc[t] \in {"insert_event", "insert_error", "insert_capture"} /\ queue'[t] = <<>>
      \/ pc[t] = "update_abort" /\ queue'[t] = <<"update_run">>
      \/ pc[t] = "unwind" /\ queue'[t] = <<"close">>
  BY <1>1, <1>2, PopCases, Submitters DEF EventCalls
<1>4. Is(t, "open")
  BY <1>1, <1>2, <1>3 DEF RunShape, InTry, Updates, TxnShape, LeftBehind, EventCalls, Writes
<1>5. Writing(t) /\ \A n \in {0, 1} : writer = None => Len(txn.log) <= Len(db.log) + n
  BY <1>1, <1>2, <1>4, WritesOwnRun
<1>6. Len(txn.log) <= Len(db.log) + 1
  BY <1>1, <1>5 DEF TxnShape, Room, Holds
<1>7. Gapless(db.log, run[t]) /\ Gapless(txn.log, run[t])
  BY <1>2 DEF IInv, TxnGapless, SeqGapless
<1>8. Grown(db.log, Append(txn.log, row), run[t])
  BY <1>2, <1>5, <1>6, <1>7, GrownAppend DEF Writing
<1>9. Len(Append(txn.log, row)) = Len(txn.log) + 1 /\ Len(txn.log) \in Nat /\ Len(db.log) \in Nat
  BY <1>2
<1> HIDE DEF row
<1>10. txn'.log = Append(txn.log, row) /\ txn'.runs = txn.runs
  BY <1>1 DEF IInv, TypeOK, Store
<1>11. Writing(t)'
  BY <1>1, <1>5, <1>8, <1>10 DEF Writing, Grown, Mine
<1>12. pc'[t] = pc[t] /\ (queue'[t] # <<>> => Head(queue'[t]) \in {"close", "update_run"})
  BY <1>1, <1>3, Single
<1>13. pc[t] \in InTry => Holds(t, 1)'
  <2>1. pc[t] \in InTry => Len(txn.log) <= Len(db.log) + 0
    BY <1>1, <1>3, <1>5 DEF TxnShape, Room, Holds, InTry
  <2> QED BY <1>1, <1>9, <1>10, <2>1 DEF Holds
<1>14. Room(t)' /\ LeftBehind(t)'
  BY <1>3, <1>12, <1>13 DEF Room, EventCalls, LeftBehind, Writes, InTry
<1> QED BY <1>11, <1>14 DEF TxnShape

(* The INSERT of a prey row leaves log and runs alone.                     *)
LEMMA InsertPreyTxn ==
    ASSUME IInv, WInv, NEW t \in Territories, TxnShape(t), ExecInsertPrey(t)
    PROVE  TxnShape(t)'
<1>1. /\ queue[t] # <<>> /\ Head(queue[t]) = "insert_prey" /\ Pop(t)
      /\ writer \in {None, t} /\ writer' = t
      /\ UNCHANGED <<db, pc, run>>
  BY DEF ExecInsertPrey, Calling, Write
<1>2. TypeOK /\ QueueShape(t) /\ RunShape(t) /\ run[t] \in RunIds
  BY <1>1 DEF IInv, RunKnown, WInv, Shape
<1>3. \/ pc[t] = "insert_prey" /\ queue'[t] = <<>>
      \/ pc[t] = "update_abort" /\ queue'[t] = <<"update_run">>
      \/ pc[t] = "unwind" /\ queue'[t] = <<"close">>
  BY <1>1, <1>2, PopCases, Submitters
<1>4. Is(t, "open")
  BY <1>1, <1>2, <1>3 DEF RunShape, InTry, Updates, TxnShape, LeftBehind, Writes
<1>5. Writing(t) /\ \A n \in {0, 1} : writer = None => Len(txn.log) <= Len(db.log) + n
  BY <1>1, <1>2, <1>4, WritesOwnRun
<1>6. txn'.log = txn.log /\ txn'.runs = txn.runs
  BY DEF ExecInsertPrey, Write, IInv, TypeOK, Store
<1>7. Writing(t)'
  BY <1>1, <1>5, <1>6 DEF Writing, Grown, Mine
<1>8. pc'[t] = pc[t] /\ (queue'[t] # <<>> => Head(queue'[t]) \in {"close", "update_run"})
  BY <1>1, <1>3, Single
<1>9. pc[t] \in InTry => Holds(t, 1)'
  BY <1>1, <1>5, <1>6 DEF TxnShape, Room, Holds
<1>10. Room(t)' /\ LeftBehind(t)'
  BY <1>3, <1>8, <1>9 DEF Room, EventCalls, LeftBehind, Writes
<1> QED BY <1>7, <1>10 DEF TxnShape

(* The UPDATE gives the run its outcome.                                   *)
LEMMA UpdateRunTxn ==
    ASSUME IInv, WInv, NEW t \in Territories, TxnShape(t), ExecUpdateRun(t)
    PROVE  TxnShape(t)'
<1>1. /\ queue[t] # <<>> /\ Head(queue[t]) = "update_run" /\ Pop(t)
      /\ writer \in {None, t} /\ writer' = t
      /\ UNCHANGED <<db, pc, run>>
  BY DEF ExecUpdateRun, Calling, Write
<1>2. TypeOK /\ QueueShape(t) /\ RunShape(t) /\ run[t] \in RunIds /\ result[t] \in Outcomes
      /\ db.runs \in [RunIds -> Status]
  BY <1>1 DEF IInv, TypeOK, RunKnown, Store, WInv, Shape
<1>3. \/ pc[t] \in Updates /\ queue'[t] = <<>>
      \/ pc[t] = "unwind" /\ queue'[t] = <<"close">>
  BY <1>1, <1>2, PopCases, Submitters DEF Updates, Interrupted
<1>4. Is(t, "open")
  BY <1>1, <1>2, <1>3 DEF RunShape, TxnShape, LeftBehind, Writes
<1>5. Writing(t)
  BY <1>1, <1>2, <1>4, WritesOwnRun
<1>6. txn'.log = txn.log /\ txn'.runs = [db.runs EXCEPT ![run[t]] = result[t]]
  <2>1. txn' = [txn EXCEPT !.runs = [txn.runs EXCEPT ![run[t]] = result[t]]]
    BY <1>4 DEF ExecUpdateRun, Write, IInv, TypeOK, Store, Is
  <2>2. txn'.log = txn.log /\ txn'.runs = [txn.runs EXCEPT ![run[t]] = result[t]]
    BY <2>1 DEF IInv, TypeOK, Store
  <2>3. PICK s : txn.runs = [db.runs EXCEPT ![run[t]] = s]
    BY <1>5 DEF Writing
  <2> QED BY <1>2, <2>2, <2>3
<1>7. Writing(t)'
  <2>1. Grown(db'.log, txn'.log, run'[t])
    BY <1>1, <1>5, <1>6 DEF Writing
  <2>2. /\ db'.runs[run'[t]] = "open"
        /\ result[t] \in {"open"} \cup Outcomes
        /\ txn'.runs = [db'.runs EXCEPT ![run'[t]] = result[t]]
    BY <1>1, <1>2, <1>5, <1>6 DEF Writing
  <2> QED BY <2>1, <2>2 DEF Writing
<1>8. pc'[t] = pc[t] /\ (queue'[t] # <<>> => Head(queue'[t]) = "close")
  BY <1>1, <1>3, Single
<1>9. Room(t)' /\ LeftBehind(t)'
  BY <1>3, <1>8 DEF Room, InTry, Updates, EventCalls, LeftBehind, Writes
<1> QED BY <1>7, <1>9 DEF TxnShape

(* Commit and close end the transaction.                                   *)
LEMMA ReleaseTxn ==
    ASSUME IInv, WInv, NEW t \in Territories, ExecCommit(t) \/ ExecClose(t)
    PROVE  TxnShape(t)'
<1>1. /\ queue[t] # <<>> /\ Head(queue[t]) \in {"commit", "close"} /\ Pop(t)
      /\ writer' # t /\ UNCHANGED pc
  BY HuntStoreAssumption DEF ExecCommit, ExecClose, Calling, task
<1>2. TypeOK /\ QueueShape(t)
  BY DEF IInv, WInv, Shape
<1>3. pc[t] = "unwind" => queue'[t] = <<>> \/ queue'[t] = <<"close">>
  <2>1. "unwind" \notin DOMAIN Op
    BY DEF Op
  <2> QED BY <1>1, <1>2, <2>1, PopCases
<1>4. LeftBehind(t)'
  BY <1>1, <1>3, Single DEF LeftBehind, Writes
<1> QED BY <1>1, <1>4 DEF TxnShape, Room, Holds

(* Executing one statement keeps RInv.                                     *)
LEMMA ExecuteRInv ==
    ASSUME IInv, WInv, RInv, NEW t \in Territories, Execute(t)
    PROVE  RInv'
<1>1. IInv' /\ TxnShape(t)
  BY ExecuteIInv DEF RInv
<1>2. TxnShape(t)'
  BY <1>1, InsertRunTxn, AppendTxn, InsertPreyTxn, UpdateRunTxn, ReleaseTxn DEF Execute
<1>3. \A u \in Territories \ {t} : Spared(u)
  BY <1>1, InsertRunWInv, AppendWInv, InsertPreyWInv, UpdateRunWInv, CommitWInv, CloseWInv
     DEF Execute
<1>4. \A u \in Territories \ {t} : writer = u => db' = db
  BY DEF Execute, ExecInsertRun, ExecAppend, ExecInsertPrey, ExecUpdateRun, ExecCommit,
         ExecClose, Write
<1>5. \A u \in Territories \ {t} : TxnShape(u)'
  BY <1>3, <1>4, SparedTxn DEF IInv, RInv
<1> QED BY <1>2, <1>5 DEF RInv

(* A task that does not hold the lock, and does not leave writes behind.   *)
LEMMA FreeTxn ==
    ASSUME NEW t \in Territories, writer' # t,
           pc'[t] = "unwind" /\ queue'[t] # <<>> => Head(queue'[t]) \notin Writes \ {"insert_run"}
    PROVE  TxnShape(t)'
BY DEF TxnShape, Room, Holds, LeftBehind

(* A task that waits for nothing may hold the lock only after a statement. *)
LEMMA DriveTxn ==
    ASSUME IInv, WInv, NEW t \in Territories,
           \/ Launch(t) \/ Drive(t) \/ RunStarted(t) \/ EventCommitted(t)
           \/ CaptureCommitted(t) \/ ErrorCommitted(t) \/ OutcomeCommitted(t)
           \/ AbortCommitted(t) \/ Closed(t)
    PROVE  TxnShape(t)'
<1>1. pc[t] \notin Inserts \cup Updates /\ queue[t] = <<>> /\ UNCHANGED writer
  BY DEF Launch, Drive, Record, Capture, Conclude, DriveRaises, RunStarted, EventCommitted,
         CaptureCommitted, ErrorCommitted, OutcomeCommitted, AbortCommitted, Closed, Resumed,
         store, Inserts, Updates
<1>2. writer' # t
  BY <1>1 DEF WInv, Shape, LockShape
<1>3. CASE AbortCommitted(t)
  <2>1. queue'[t] = <<"close">>
    BY <1>1, <1>3, Single DEF AbortCommitted, Await, Submit, IInv, TypeOK
  <2> QED BY <1>2, <2>1, Single, FreeTxn DEF Writes
<1>4. CASE ~ AbortCommitted(t)
  <2>1. pc'[t] # "unwind"
    BY <1>4 DEF Launch, Drive, Record, Capture, Conclude, DriveRaises, RunStarted,
                EventCommitted, CaptureCommitted, ErrorCommitted, OutcomeCommitted, Closed,
                FinishRun, Await, GoTo, IInv, TypeOK
  <2> QED BY <1>2, <2>1, FreeTxn
<1> QED BY <1>3, <1>4

(* A step of a task that keeps its run keeps its transaction.              *)
LEMMA KeepsTxn ==
    ASSUME NEW t \in Territories, TxnShape(t),
           UNCHANGED <<db, txn, writer>>, run'[t] = run[t]
    PROVE  /\ writer' = t => Opening(t)' \/ Writing(t)'
           /\ \A n : Holds(t, n) => Holds(t, n)'
<1>1. ASSUME writer' = t
      PROVE  Opening(t)' \/ Writing(t)'
  <2>1. CASE Opening(t)
    BY <2>1 DEF Opening
  <2>2. CASE Writing(t)
    <3>1. Grown(db'.log, txn'.log, run'[t])
      BY <2>2 DEF Writing
    <3> QED BY <2>2, <3>1 DEF Writing
  <2> QED BY <1>1, <2>1, <2>2 DEF TxnShape
<1> QED BY <1>1 DEF Holds

(* The next call of the same transaction is submitted.                     *)
LEMMA StatementReturnsTxn ==
    ASSUME IInv, WInv, NEW t \in Territories, TxnShape(t),
           StatementReturns(t) \/ CaptureRowNext(t)
    PROVE  TxnShape(t)'
<1>1. queue[t] = <<>> /\ UNCHANGED <<db, txn, writer>> /\ run'[t] = run[t]
  BY DEF StatementReturns, CaptureRowNext, Resumed, store
<1>2. /\ \/ pc'[t] \in Commits /\ queue'[t] = <<"commit">>
         \/ pc'[t] = "insert_prey" /\ queue'[t] = <<"insert_prey">>
      /\ pc'[t] \in InTry => pc[t] \in InTry
  <2>1. CASE StatementReturns(t)
    <3>1. pc[t] \in DOMAIN CommitAfter /\ pc'[t] = CommitAfter[pc[t]]
          /\ queue'[t] = Append(queue[t], "commit")
      BY <2>1 DEF StatementReturns, Await, GoTo, Submit, IInv, TypeOK
    <3>2. CommitAfter[pc[t]] \in Commits
          /\ (CommitAfter[pc[t]] \in InTry => pc[t] \in InTry)
      BY <3>1 DEF CommitAfter, Commits, InTry
    <3> QED BY <1>1, <3>1, <3>2, Single
  <2>2. CASE CaptureRowNext(t)
    <3>1. pc[t] = "insert_capture" /\ pc'[t] = "insert_prey"
          /\ queue'[t] = Append(queue[t], "insert_prey")
      BY <2>2 DEF CaptureRowNext, Resumed, Await, GoTo, Submit, IInv, TypeOK
    <3> QED BY <1>1, <3>1, Single DEF InTry
  <2> QED BY <2>1, <2>2
<1>3. Head(queue'[t]) \notin EventCalls /\ pc'[t] \notin {"insert_event", "insert_capture", "unwind"}
  BY <1>2, Single DEF EventCalls, Commits
<1>4. Room(t)' /\ LeftBehind(t)'
  BY <1>1, <1>2, <1>3, KeepsTxn DEF TxnShape, Room, LeftBehind
<1> QED BY <1>1, <1>4, KeepsTxn DEF TxnShape

(* A statement fails; its transaction stays.                               *)
LEMMA FailTxn ==
    ASSUME IInv, WInv, NEW t \in Territories, TxnShape(t), Fail(t)
    PROVE  TxnShape(t)'
<1>1. /\ queue[t] # <<>> /\ Head(queue[t]) \in Writes
      /\ UNCHANGED <<db, txn, writer>> /\ run'[t] = run[t]
  BY DEF Fail, FailUnheard, FailInTry, FailEscapes, Failing, store, task
<1>2. TypeOK /\ QueueShape(t)
  BY DEF IInv, WInv, Shape
<1>3. \/ pc'[t] = "update_abort" /\ queue'[t] = <<"update_run">>
      \/ pc'[t] \in {"unwind", "close"} /\ queue'[t] = <<"close">>
      \/ pc[t] \in InTry /\ pc'[t] = "insert_error" /\ queue'[t] = <<"insert_step">>
  <2>1. CASE FailUnheard(t)
    <3>1. /\ queue'[t] = Tail(queue[t]) /\ pc'[t] = pc[t] /\ Len(queue[t]) > 1
      BY <1>2, <2>1 DEF FailUnheard, Pop, task, TypeOK
    <3>2. Len(queue[t]) # 1
      <4>1. queue[t] \in Seq(Calls)
        BY <1>2 DEF TypeOK
      <4>2. Len(queue[t]) \in Nat
        BY <4>1
      <4>3. \A n \in Nat : n > 1 => n # 1
        OBVIOUS
      <4> QED BY <3>1, <4>2, <4>3
    <3> QED BY <1>1, <1>2, <3>1, <3>2, HeadCases
  <2>2. CASE FailInTry(t)
    BY <2>2 DEF FailInTry, GoTo, IInv, TypeOK
  <2>3. CASE FailEscapes(t)
    BY <2>3 DEF FailEscapes, GoTo, IInv, TypeOK
  <2> QED BY <2>1, <2>2, <2>3 DEF Fail
<1>4. /\ pc'[t] \notin InTry
      /\ pc'[t] = "unwind" => Head(queue'[t]) = "close"
      /\ Head(queue'[t]) \in EventCalls => pc[t] \in InTry
  BY <1>3, Single DEF InTry, EventCalls
<1>5. Room(t)' /\ LeftBehind(t)'
  BY <1>1, <1>4, KeepsTxn DEF TxnShape, Room, LeftBehind, InTry, Writes
<1> QED BY <1>1, <1>5, KeepsTxn DEF TxnShape

(* A cancellation; what it interrupts stays queued.                        *)
LEMMA CancelTxn ==
    ASSUME IInv, WInv, NEW t \in Territories, TxnShape(t), Cancel(t)
    PROVE  TxnShape(t)'
<1>1. UNCHANGED <<db, txn, writer>> /\ run'[t] = run[t]
  BY DEF Cancel, store
<1>2. TypeOK /\ QueueShape(t) /\ RunShape(t) /\ queue[t] \in Seq(Calls)
  BY DEF IInv, WInv, Shape, TypeOK
<1>3. pc'[t] \in {"ended", "update_abort", "unwind"} /\ pc'[t] \notin InTry
  BY <1>2 DEF Cancel, Await, GoTo, TypeOK, InTry
<1>4. \/ queue'[t] = queue[t]
      \/ /\ queue'[t] = Append(queue[t], "update_run") /\ pc'[t] # "unwind"
         /\ pc[t] \in InTry
      \/ queue'[t] = Append(queue[t], "close") /\ pc[t] \in Unprotected
  BY <1>2 DEF Cancel, Await, GoTo, Submit, TypeOK
<1>5. \A op : queue[t] # <<>> => Head(Append(queue[t], op)) = Head(queue[t])
  BY <1>2
<1>6. \A op : queue[t] = <<>> => Head(Append(queue[t], op)) = op
  BY Single
<1>7. Head(queue'[t]) \in EventCalls /\ queue'[t] # <<>> =>
         queue[t] # <<>> /\ Head(queue[t]) \in EventCalls
  BY <1>4, <1>5, <1>6 DEF EventCalls
<1>8. Room(t)'
  BY <1>1, <1>3, <1>7, KeepsTxn DEF TxnShape, Room
<1>9. LeftBehind(t)'
  <2> SUFFICES ASSUME pc'[t] = "unwind", queue'[t] # <<>>,
                      Head(queue'[t]) \in Writes \ {"insert_run"}
               PROVE  Is(t, "open")'
    BY DEF LeftBehind
  <2>1. queue[t] # <<>> /\ Head(queue[t]) \in Writes \ {"insert_run"}
    BY <1>4, <1>5, <1>6 DEF Writes
  <2>2. pc[t] \in Unprotected \cup {"close"}
    BY <1>2 DEF Cancel, Await, GoTo, TypeOK
  <2>3. pc[t] \in DOMAIN Op /\ Head(queue[t]) = Op[pc[t]]
    BY <1>2, <2>1, <2>2, HeadCases DEF Unprotected
  <2>4. pc[t] \in {"insert_error", "update_run"}
    BY <2>1, <2>2, <2>3 DEF Op, Unprotected, Writes
  <2>5. Is(t, "open")
    BY <1>2, <2>1, <2>4 DEF RunShape, Updates
  <2> QED BY <1>1, <2>5 DEF Is
<1> QED BY <1>1, <1>8, <1>9, KeepsTxn DEF TxnShape

(* A step of a task keeps RInv.                                            *)
LEMMA TaskRInv ==
    ASSUME IInv, WInv, RInv, NEW t \in Territories,
           Launch(t) \/ Drive(t) \/ Resume(t) \/ Fail(t) \/ Cancel(t)
    PROVE  RInv'
<1>1. TxnShape(t)'
  BY DriveTxn, StatementReturnsTxn, FailTxn, CancelTxn DEF Resume, RInv
<1>2. /\ UNCHANGED <<db, txn, writer, rowid, bootHead>>
      /\ \A u \in Territories \ {t} : /\ queue'[u] = queue[u] /\ pc'[u] = pc[u]
                                     /\ run'[u] = run[u] /\ result'[u] = result[u]
  BY TaskTouchesOwn
<1>3. \A u \in Territories \ {t} : Spared(u)
  BY <1>2, TaskSpares DEF IInv
<1>4. \A u \in Territories \ {t} : TxnShape(u)'
  BY <1>2, <1>3, SparedTxn DEF IInv, RInv
<1> QED BY <1>1, <1>4 DEF RInv

(* So does whatever touches no store, queue, await or run.                 *)
LEMMA StillRInv ==
    ASSUME RInv, UNCHANGED <<db, txn, writer, queue, pc, run>>
    PROVE  RInv'
<1> SUFFICES ASSUME NEW t \in Territories PROVE TxnShape(t)'
  BY DEF RInv
<1>1. TxnShape(t) /\ run'[t] = run[t]
  BY DEF RInv
<1>2. Room(t)' /\ LeftBehind(t)'
  BY <1>1 DEF TxnShape, Room, Holds, LeftBehind, Is
<1> QED BY <1>1, <1>2, KeepsTxn DEF TxnShape

(* Shutdown, crash and boot leave no transaction open.                     *)
LEMMA ProcessRInv ==
    ASSUME IInv, WInv, RInv, Stop \/ Off \/ Crash \/ Boot
    PROVE  RInv'
<1>1. CASE Stop \/ Off
  <2>1. UNCHANGED <<db, txn, writer, queue, pc, run>>
    BY <1>1 DEF Stop, Off, store, task
  <2> QED BY <2>1, StillRInv
<1>2. CASE Crash
  <2>1. ASSUME NEW t \in Territories PROVE TxnShape(t)'
    <3>1. writer' # t /\ pc'[t] # "unwind"
      BY <1>2, HuntStoreAssumption DEF Crash
    <3> QED BY <3>1, FreeTxn
  <2> QED BY <2>1 DEF RInv
<1>3. CASE Boot
  <2>1. ASSUME NEW t \in Territories PROVE TxnShape(t)'
    <3>1. pc[t] = "ended"
      BY <1>3 DEF Boot, IInv, DownIsEnded
    <3>2. writer # t
      BY <3>1 DEF WInv, Shape, LockShape, Inserts, Updates, Commits
    <3>3. writer' # t /\ pc'[t] # "unwind"
      BY <1>3, <3>2 DEF Boot
    <3> QED BY <3>3, FreeTxn
  <2> QED BY <2>1 DEF RInv
<1> QED BY <1>1, <1>2, <1>3

(* RInv is inductive, given IInv and WInv.                                 *)
LEMMA NextRInv == IInv /\ WInv /\ RInv /\ [Next]_vars => RInv'
<1> SUFFICES ASSUME IInv, WInv, RInv, [Next]_vars PROVE RInv'
  OBVIOUS
<1>1. CASE UNCHANGED vars
  <2>1. UNCHANGED <<db, txn, writer, queue, pc, run>>
    BY <1>1 DEF vars, store, task
  <2> QED BY <2>1, StillRInv
<1>2. CASE Next
  BY <1>2, ExecuteRInv, TaskRInv, ProcessRInv DEF Next
<1> QED BY <1>1, <1>2

(* No task holds the lock at first.                                        *)
LEMMA InitRInv == Init => RInv
<1> SUFFICES ASSUME Init, NEW t \in Territories PROVE TxnShape(t)
  BY DEF RInv
<1>1. writer # t /\ pc[t] = "sleep"
  BY HuntStoreAssumption DEF Init
<1> QED BY <1>1 DEF TxnShape, Room, Holds, LeftBehind

-----------------------------------------------------------------------------
(* The steps that change the file, as TrajectoryLog sees them.             *)
LEMMA CommitIsPromised ==
    ASSUME IInv, RInv, NEW t \in Territories, ExecCommit(t)
    PROVE  Promise!Next
<1>1. writer = t /\ db' = txn /\ queue[t] # <<>>
  BY DEF ExecCommit, Calling
<1>2. /\ run[t] \in RunIds /\ db.log \in Seq(Row) /\ txn.log \in Seq(Row)
      /\ Gapless(db.log, run[t])
  BY <1>1 DEF IInv, TypeOK, RunKnown, Store, SeqGapless
<1>3. PICK r \in RunIds : r = run[t]
  BY <1>2
<1>4. CASE Opening(t)
  <2>1. Promise!Start(r)
    BY <1>1, <1>3, <1>4 DEF Opening, Promise!Start
  <2> QED BY <2>1 DEF Promise!Next
<1>5. CASE Writing(t)
  <2>1. PICK k \in 0..2 :
           Seen(txn.log) = Seen(db.log) \o [i \in 1..k |-> [run |-> r,
                  seq |-> Cardinality(Mine(Seen(db.log), r)) + i - 1]]
    BY <1>2, <1>3, <1>5, NextIsCount, GrownIsExtended DEF Writing
  <2>2. Promise!Cardinality(Mine(Seen(db.log), r)) = Cardinality(Mine(Seen(db.log), r))
    BY DEF Promise!Cardinality, Cardinality
  <2>3. Promise!Count(Seen(db.log), r) = Cardinality(Mine(Seen(db.log), r))
    BY <2>2 DEF Promise!Count, Mine
  <2>4. Seen(db'.log) = Promise!Extended(Seen(db.log), r, k)
    BY <1>1, <2>1, <2>3 DEF Promise!Extended
  <2>5. db.runs[r] = "open" /\ \E s \in {"open"} \cup Outcomes :
           db'.runs = [db.runs EXCEPT ![r] = s]
    BY <1>1, <1>3, <1>5 DEF Writing
  <2>6. Promise!Commit(r)
    BY <2>4, <2>5 DEF Promise!Commit, Seen
  <2> QED BY <2>6 DEF Promise!Next
<1> QED BY <1>1, <1>4, <1>5 DEF RInv, TxnShape

(* Every step is one of TrajectoryLog or stutters there.                   *)
LEMMA StepIsPromised == IInv /\ RInv /\ [Next]_vars => [Promise!Next]_(Promise!vars)
<1> SUFFICES ASSUME IInv, RInv, [Next]_vars PROVE [Promise!Next]_(Promise!vars)
  OBVIOUS
<1>1. UNCHANGED db => UNCHANGED Promise!vars
  BY DEF Promise!vars
<1>2. CASE UNCHANGED vars
  BY <1>1, <1>2 DEF vars, store
<1>3. CASE Stop \/ Off \/ Crash
  BY <1>1, <1>3 DEF Stop, Off, Crash, store
<1>4. CASE Boot
  <2>1. /\ db'.log = db.log
        /\ db'.runs = [r \in RunIds |-> IF db.runs[r] = "open" THEN "crashed" ELSE db.runs[r]]
    BY <1>4 DEF Boot, IInv, TypeOK, Store
  <2>2. Promise!Sweep
    BY <2>1 DEF Promise!Sweep
  <2> QED BY <2>2 DEF Promise!Next
<1>5. ASSUME NEW t \in Territories, Execute(t)
      PROVE  [Promise!Next]_(Promise!vars)
  <2>1. CASE ExecCommit(t)
    BY <2>1, CommitIsPromised
  <2>2. CASE ~ ExecCommit(t)
    BY <1>1, <1>5, <2>2 DEF Execute, ExecInsertRun, ExecAppend, ExecInsertPrey, ExecUpdateRun,
                            ExecClose, Write
  <2> QED BY <2>1, <2>2
<1>6. ASSUME NEW t \in Territories,
             Launch(t) \/ Drive(t) \/ Resume(t) \/ Fail(t) \/ Cancel(t)
      PROVE  UNCHANGED db
  BY <1>6, TaskTouchesOwn
<1> QED BY <1>1, <1>2, <1>3, <1>4, <1>5, <1>6 DEF Next

(* What every transaction holds against the file, in every reachable state *)
THEOREM TransactionsKeepShape == Spec => []RInv
BY InvariantHolds, AwaitsKeepShape, InitRInv, NextRInv, PTL DEF Spec

(* The store keeps its promise to the readers of the file: every behaviour *)
(* of hunts, threads, cancellations, failures, crashes and boots is one of *)
(* TrajectoryLog, an append-only log and a status per run that opens and   *)
(* closes once.                                                            *)
THEOREM StoreImplementsLog == Spec => ImplementsLog
<1>1. Init => Promise!Init
  BY DEF Init, Promise!Init
<1> QED BY <1>1, StepIsPromised, InvariantHolds, TransactionsKeepShape, PTL
        DEF Spec, ImplementsLog, Promise!Spec
=============================================================================
