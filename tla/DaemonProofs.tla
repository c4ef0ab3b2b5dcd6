---------------------------- MODULE DaemonProofs ----------------------------
(***************************************************************************)
(* Theorems of Daemon, for any number of territories, slots and dollars    *)
(* and any selection of faults.  The inductive invariant IInv adds to the  *)
(* types what the semaphore's queue is (loops that wait, each once), and   *)
(* which stages of server, scheduler, worker and loops go together.        *)
(***************************************************************************)
EXTENDS Daemon, FiniteSetTheorems, TLAPS

(* The queue holds loops that wait, each of them once.                     *)
Queued == /\ \A i \in DOMAIN waiting : pos[waiting[i]] = "wait"
          /\ \A i, j \in DOMAIN waiting : waiting[i] = waiting[j] => i = j

(* The loops that go on, or left a connection.  Those of a cancelled group *)
(* held a slot each when it was cancelled, and find one for ever after.    *)
Survivors == {t \in Territories : pos[t] \notin {"idle", "raised", "ended"}}

(* The stages of the scheduler and the loops.                              *)
LoopsMatch ==
    /\ sched \in {"off", "boot"} => waiting = <<>> /\ \A t \in Territories : pos[t] = "idle"
    /\ sched = "running" =>
          \A t \in Territories : pos[t] \notin {"idle", "abort", "unwind", "ended", "stray"}
    /\ sched = "cancelling" => /\ waiting = <<>> /\ Cardinality(Survivors) <= MaxConcurrent
                               /\ \A t \in Territories : pos[t] \notin {"idle", "wait"}
    /\ sched \in {"cancelled", "died"} =>
          waiting = <<>> /\ \A t \in Territories : pos[t] \in Over \cup {"idle"}
    /\ sched = "died" => "connection" \in faulted
    /\ \A t \in Territories : pos[t] = "raised" => "connection" \in faulted

(* The stages of the lifespan and its tasks.                               *)
TasksMatch ==
    /\ server = "boot" => sched = "off"
    /\ sched = "off" => server \in {"boot", "failed"}
    /\ server = "serving" => sched \in {"boot", "running"} \/ "connection" \in faulted
    /\ worker = "died" => faulted # {}
    /\ beat = "cancelled" \/ server \in {"boot", "serving", "failed"}
    /\ server = "draining" => /\ drain >= 2 => sched = "cancelled"
                              /\ drain >= 3 => worker = "cancelled"
    /\ server = "down" => sched = "cancelled" /\ worker = "cancelled" /\ client # "open"
    /\ client = "closed" => server = "down"
    /\ server = "failed" => faulted # {}

IInv == TypeOK /\ SlotsKept /\ Queued /\ LoopsMatch /\ TasksMatch

-----------------------------------------------------------------------------
(* Semaphore: the three ways a loop moves, and the cancellation of all.    *)

LEMMA InsideFinite ==
    /\ IsFiniteSet(Inside) /\ Cardinality(Inside) \in Nat
    /\ IsFiniteSet(Open) /\ Cardinality(Open) \in Nat
    /\ IsFiniteSet(Survivors) /\ Cardinality(Survivors) \in Nat
<1>1. /\ IsFiniteSet(Territories) /\ Inside \in SUBSET Territories
      /\ Open \in SUBSET Territories /\ Survivors \in SUBSET Territories
  BY DaemonAssumption DEF Inside, Open, Survivors
<1> QED BY <1>1, FS_Subset, FS_CardinalityType

(* A move inside the slot, or outside of it and of the queue.              *)
LEMMA GoToSlots ==
    ASSUME TypeOK, SlotsKept, Queued, NEW t \in Territories,
           NEW p \in Positions \ {"wait", "stray"},
           pos[t] \notin {"wait", "stray"}, pos[t] \in Held <=> p \in Held, GoTo(t, p)
    PROVE  SlotsKept' /\ Queued'
<1>1. Inside' = Inside /\ Open' = Open
  BY DEF TypeOK, GoTo, Inside, Open
<1>2. Queued'
  BY DEF TypeOK, GoTo, Queued
<1> QED BY <1>1, <1>2 DEF SlotsKept, GoTo

(* Semaphore.acquire while the group runs: nothing is open but the held.   *)
LEMMA AcquireSlots ==
    ASSUME TypeOK, SlotsKept, Queued, NEW t \in Territories, pos[t] = "tick", Acquire(t),
           \A u \in Territories : pos[u] # "stray"
    PROVE  SlotsKept' /\ Queued'
<1>0. Open = Inside
  BY DEF Open, Inside, Held
<1>1. CASE Cardinality(Inside) < MaxConcurrent /\ waiting = <<>>
  <2>1. /\ Inside' = Inside \cup {t} /\ t \notin Inside /\ UNCHANGED waiting
        /\ Open' = Inside'
    BY <1>0, <1>1 DEF TypeOK, Acquire, GoTo, Inside, Open, Held
  <2>2. Cardinality(Inside') = Cardinality(Inside) + 1
    BY <2>1, InsideFinite, FS_AddElement
  <2> QED BY <1>1, <2>1, <2>2, InsideFinite, DaemonAssumption DEF SlotsKept, Queued
<1>2. CASE ~(Cardinality(Inside) < MaxConcurrent /\ waiting = <<>>)
  <2>1. /\ pos' = [pos EXCEPT ![t] = "wait"]
        /\ waiting' = Append(waiting, t)
    BY <1>2 DEF Acquire
  <2>2. Inside' = Inside /\ Open' = Open
    BY <2>1 DEF TypeOK, Inside, Open, Held
  <2>3. Cardinality(Inside) = MaxConcurrent
    BY <1>0, <1>2, InsideFinite, DaemonAssumption DEF SlotsKept
  <2>4. Queued'
    BY <2>1 DEF TypeOK, Queued
  <2> QED BY <1>0, <2>2, <2>3, <2>4, DaemonAssumption DEF SlotsKept
<1> QED BY <1>1, <1>2

(* Semaphore.acquire by a loop that outlived its cancellation: a slot is   *)
(* free, since the others that hold one are survivors like itself.         *)
LEMMA SurvivorAcquires ==
    ASSUME TypeOK, SlotsKept, Queued, NEW t \in Territories, pos[t] = "tick", Acquire(t),
           waiting = <<>>, Cardinality(Survivors) <= MaxConcurrent
    PROVE  SlotsKept' /\ Queued' /\ GoTo(t, "connect")
<1>1. Inside \cup {t} \in SUBSET Survivors /\ Open \cup {t} \in SUBSET Survivors /\ t \notin Inside
  BY DEF Inside, Open, Survivors, Held
<1>2. /\ Cardinality(Inside \cup {t}) = Cardinality(Inside) + 1
      /\ Cardinality(Inside \cup {t}) <= Cardinality(Survivors)
      /\ Cardinality(Open \cup {t}) <= Cardinality(Survivors)
  BY <1>1, InsideFinite, FS_AddElement, FS_Subset
<1>3. GoTo(t, "connect")
  BY <1>2, InsideFinite, DaemonAssumption DEF Acquire
<1>4. Open' = Open \cup {t} /\ waiting' = <<>>
  BY <1>3 DEF TypeOK, GoTo, Open, Held
<1>5. IsFiniteSet(Open \cup {t}) /\ Cardinality(Open \cup {t}) \in Nat
  BY InsideFinite, FS_AddElement, FS_CardinalityType
<1> QED BY <1>2, <1>3, <1>4, <1>5, InsideFinite, DaemonAssumption DEF SlotsKept, Queued

(* Semaphore.release.                                                      *)
LEMMA ReleaseSlots ==
    ASSUME TypeOK, SlotsKept, Queued, NEW t \in Territories, pos[t] \in Held,
           NEW p \in Positions \ (Held \cup {"wait", "stray"}), Release(t, p)
    PROVE  SlotsKept' /\ Queued'
<1>1. t \in Inside /\ t \in Open
  BY DEF Inside, Open
<1>2. CASE waiting = <<>>
  <2>1. Open' = Open \ {t} /\ UNCHANGED waiting
    BY <1>2 DEF TypeOK, Release, GoTo, Open, Held
  <2>2. Cardinality(Open') = Cardinality(Open) - 1
    BY <1>1, <2>1, InsideFinite, FS_RemoveElement
  <2> QED BY <1>2, <2>1, <2>2, InsideFinite, DaemonAssumption DEF SlotsKept, Queued
<1>3. CASE waiting # <<>>
  <2> DEFINE next == Head(waiting)
  <2>1. /\ pos' = [pos EXCEPT ![t] = p, ![next] = "connect"]
        /\ waiting' = Tail(waiting)
    BY <1>3 DEF Release
  <2>2. /\ next = waiting[1] /\ 1 \in DOMAIN waiting /\ next \in Territories
    BY <1>3 DEF TypeOK
  <2>3. pos[next] = "wait" /\ next # t /\ next \notin Inside /\ next \notin Open
    BY <2>2 DEF Queued, Held, Inside, Open
  <2>4. Inside' = (Inside \ {t}) \cup {next} /\ Open' = (Open \ {t}) \cup {next}
    BY <2>1, <2>2, <2>3 DEF TypeOK, Inside, Open, Held
  <2>5. /\ Cardinality(Inside') = Cardinality(Inside)
        /\ Cardinality(Open') = Cardinality(Open)
    <3>1. /\ IsFiniteSet(Inside \ {t}) /\ Cardinality(Inside \ {t}) = Cardinality(Inside) - 1
          /\ IsFiniteSet(Open \ {t}) /\ Cardinality(Open \ {t}) = Cardinality(Open) - 1
      BY <1>1, InsideFinite, FS_RemoveElement
    <3>2. next \notin Inside \ {t} /\ next \notin Open \ {t}
      BY <2>3
    <3>3. /\ Cardinality(Inside') = Cardinality(Inside \ {t}) + 1
          /\ Cardinality(Open') = Cardinality(Open \ {t}) + 1
      BY <2>4, <3>1, <3>2, FS_AddElement
    <3> QED BY <3>1, <3>3, InsideFinite
  <2>6. Queued'
    <3>1. \A i \in DOMAIN waiting' : /\ waiting'[i] = waiting[i + 1]
                                     /\ i + 1 \in DOMAIN waiting /\ i + 1 # 1
      BY <1>3, <2>1 DEF TypeOK
    <3>2. \A i \in DOMAIN waiting' : /\ waiting'[i] \in Territories
                                     /\ waiting'[i] # next
                                     /\ pos[waiting'[i]] = "wait"
      BY <2>2, <3>1 DEF TypeOK, Queued
    <3>3. \A i \in DOMAIN waiting' : pos'[waiting'[i]] = "wait"
      BY <2>1, <3>2 DEF TypeOK, Held
    <3>4. \A i, j \in DOMAIN waiting' : waiting'[i] = waiting'[j] => i = j
      <4>1. \A i \in DOMAIN waiting' : i \in Nat
        BY <1>3, <2>1 DEF TypeOK
      <4> QED BY <3>1, <4>1 DEF Queued
    <3> QED BY <3>3, <3>4 DEF Queued
  <2> QED BY <1>3, <2>5, <2>6, DaemonAssumption DEF SlotsKept
<1> QED BY <1>2, <1>3

(* The group's cancellation: nobody waits any more, nobody gets a slot,    *)
(* and what goes on held one.                                              *)
LEMMA CancelSlots ==
    ASSUME TypeOK, SlotsKept, CancelGroup, \A t \in Territories : pos[t] \notin {"idle", "stray"}
    PROVE  /\ SlotsKept' /\ Queued'
           /\ Cardinality(Survivors') <= MaxConcurrent
<1>1. waiting' = <<>> /\ pos' = [t \in Territories |-> pos'[t]]
  BY DEF CancelGroup
<1>2. ASSUME NEW t \in Territories, pos'[t] \notin {"raised", "ended"}
      PROVE  pos[t] \in Held
  <2>1. pos[t] \in Positions /\ pos[t] \notin {"idle", "stray"}
    BY DEF TypeOK
  <2> QED BY <1>2, <2>1 DEF CancelGroup, Positions, Held, Over
<1>3. Open' \in SUBSET Open /\ Survivors' \in SUBSET Open
  BY <1>2 DEF Open, Survivors, Held
<1>4. /\ IsFiniteSet(Open') /\ Cardinality(Open') <= Cardinality(Open)
      /\ IsFiniteSet(Survivors') /\ Cardinality(Survivors') <= Cardinality(Open)
  BY <1>3, InsideFinite, FS_Subset
<1>5. Cardinality(Open') \in Nat /\ Cardinality(Survivors') \in Nat
  BY <1>4, FS_CardinalityType
<1> QED BY <1>1, <1>4, <1>5, InsideFinite, DaemonAssumption DEF SlotsKept, Queued

-----------------------------------------------------------------------------
LEMMA InitIInv == Init => IInv
<1> SUFFICES ASSUME Init PROVE IInv
  OBVIOUS
<1>1. TypeOK
  BY DaemonAssumption DEF Init, TypeOK, Positions, Held
<1>2. Inside = {} /\ Open = {}
  BY DEF Init, Inside, Open, Held
<1>3. SlotsKept /\ Queued
  BY <1>2, FS_EmptySet, DaemonAssumption DEF Init, SlotsKept, Queued
<1>4. LoopsMatch /\ TasksMatch
  BY DEF Init, LoopsMatch, TasksMatch
<1> QED BY <1>1, <1>3, <1>4 DEF IInv

(* What a step of one loop may do to the rest: pass its place on.          *)
LEMMA LoopMoves ==
    ASSUME IInv, NEW t \in Territories, NEW p \in Positions,
           \/ GoTo(t, p)
           \/ p = "wait" /\ pos[t] = "tick" /\ Acquire(t)
           \/ pos[t] \in Held /\ Release(t, p)
    PROVE  /\ pos' \in [Territories -> Positions] /\ waiting' \in Seq(Territories)
           /\ pos'[t] \in {p, "connect"}
           /\ \A u \in Territories \ {t} :
                pos'[u] = pos[u] \/ (pos[u] = "wait" /\ pos'[u] = "connect")
           /\ waiting = <<>> /\ pos[t] # "tick" => waiting' = <<>> /\ pos'[t] = p
<1>0. /\ pos \in [Territories -> Positions] /\ waiting \in Seq(Territories)
      /\ "connect" \in Positions /\ Queued
  BY DEF IInv, TypeOK, Positions, Held
<1>1. CASE GoTo(t, p)
  BY <1>0, <1>1 DEF GoTo
<1>2. CASE p = "wait" /\ pos[t] = "tick" /\ Acquire(t)
  <2>1. \/ pos' = [pos EXCEPT ![t] = "connect"] /\ waiting' = waiting
        \/ pos' = [pos EXCEPT ![t] = "wait"] /\ waiting' = Append(waiting, t)
    BY <1>2 DEF Acquire, GoTo
  <2> QED BY <1>0, <1>2, <2>1
<1>3. CASE pos[t] \in Held /\ Release(t, p)
  <2>1. CASE waiting = <<>>
    BY <1>0, <1>3, <2>1 DEF Release, GoTo
  <2>2. CASE waiting # <<>>
    <3> DEFINE next == Head(waiting)
    <3>1. /\ next = waiting[1] /\ 1 \in DOMAIN waiting
          /\ next \in Territories /\ Tail(waiting) \in Seq(Territories)
      BY <1>0, <2>2
    <3>2. pos[next] = "wait"
      BY <1>0, <3>1 DEF Queued
    <3>3. pos' = [pos EXCEPT ![t] = p, ![next] = "connect"] /\ waiting' = Tail(waiting)
      BY <1>3, <2>2 DEF Release
    <3> HIDE DEF next
    <3>4. next # t
      BY <1>3, <3>2 DEF Held
    <3> QED BY <1>0, <1>3, <2>2, <3>1, <3>2, <3>3, <3>4 DEF Held
  <2> QED BY <2>1, <2>2
<1> QED BY <1>1, <1>2, <1>3

(* One loop's step keeps the semaphore and the stages, if it keeps to the  *)
(* stages itself.                                                          *)
LEMMA LoopIInv ==
    ASSUME IInv, NEW t \in Territories, NEW p \in Positions,
           pos[t] \notin Over \cup {"idle", "wait"}, p \notin {"idle", "stray"},
           \/ GoTo(t, p) /\ p # "wait" /\ (pos[t] \in Held <=> p \in Held)
           \/ p = "wait" /\ pos[t] = "tick" /\ Acquire(t)
           \/ pos[t] \in Held /\ p \notin Held \cup {"wait"} /\ Release(t, p),
           p \in {"abort", "unwind", "ended"} => pos[t] \in {"abort", "unwind"},
           p = "raised" => "connection" \in faulted',
           UNCHANGED <<process, sched>>,
           spent' \in [Territories -> Nat], recorded' \in Nat,
           faulted \subseteq faulted', faulted' \subseteq Faults
    PROVE  IInv'
<1>1. /\ pos' \in [Territories -> Positions] /\ waiting' \in Seq(Territories)
      /\ pos'[t] \in {p, "connect"}
      /\ \A u \in Territories \ {t} :
                pos'[u] = pos[u] \/ (pos[u] = "wait" /\ pos'[u] = "connect")
      /\ waiting = <<>> /\ pos[t] # "tick" => waiting' = <<>> /\ pos'[t] = p
  BY LoopMoves
<1>2. TypeOK'
  BY <1>1 DEF IInv, TypeOK, process
<1>3. sched \in {"running", "cancelling"}
  BY DEF IInv, TypeOK, LoopsMatch
<1>4. /\ SlotsKept' /\ Queued'
      /\ sched = "cancelling" => waiting' = <<>> /\ pos'[t] # "wait"
  <2>1. CASE GoTo(t, p) /\ p # "wait" /\ (pos[t] \in Held <=> p \in Held)
    <3>1. SlotsKept' /\ Queued'
      BY <2>1, GoToSlots DEF IInv, Over
    <3>2. UNCHANGED waiting /\ pos'[t] = p
      BY <2>1 DEF IInv, TypeOK, GoTo
    <3> QED BY <2>1, <3>1, <3>2 DEF IInv, LoopsMatch
  <2>2. CASE pos[t] \in Held /\ p \notin Held \cup {"wait"} /\ Release(t, p)
    <3>1. SlotsKept' /\ Queued'
      BY <2>2, ReleaseSlots DEF IInv
    <3> QED BY <1>1, <2>2, <3>1 DEF IInv, LoopsMatch, Held
  <2>3. CASE p = "wait" /\ pos[t] = "tick" /\ Acquire(t)
    <3>1. CASE sched = "running"
      BY <2>3, <3>1, AcquireSlots DEF IInv, LoopsMatch
    <3>2. CASE sched = "cancelling"
      <4>1. SlotsKept' /\ Queued' /\ GoTo(t, "connect")
        BY <2>3, <3>2, SurvivorAcquires DEF IInv, LoopsMatch
      <4>2. UNCHANGED waiting /\ pos'[t] = "connect"
        BY <4>1 DEF IInv, TypeOK, GoTo
      <4> QED BY <3>2, <4>1, <4>2 DEF IInv, LoopsMatch
    <3> QED BY <1>3, <3>1, <3>2
  <2> QED BY <2>1, <2>2, <2>3
<1>5. LoopsMatch'
  <2>1. sched = "running" =>
            \A u \in Territories : pos'[u] \notin {"idle", "abort", "unwind", "ended", "stray"}
    BY <1>1 DEF IInv, LoopsMatch
  <2>2. sched = "cancelling" => /\ waiting' = <<>> /\ Cardinality(Survivors') <= MaxConcurrent
                               /\ \A u \in Territories : pos'[u] \notin {"idle", "wait"}
    <3> SUFFICES ASSUME sched = "cancelling"
                 PROVE  /\ waiting' = <<>> /\ Cardinality(Survivors') <= MaxConcurrent
                        /\ \A u \in Territories : pos'[u] \notin {"idle", "wait"}
      OBVIOUS
    <3>1. \A u \in Territories : pos[u] \notin {"idle", "wait"}
      BY DEF IInv, LoopsMatch
    <3>2. \A u \in Territories : pos'[u] \notin {"idle", "wait"}
      BY <1>1, <1>4, <3>1
    <3>3. Survivors' \in SUBSET Survivors
      BY <1>1, <3>1 DEF Survivors, Over
    <3>4. Cardinality(Survivors') <= Cardinality(Survivors) /\ Cardinality(Survivors') \in Nat
      BY <3>3, InsideFinite, FS_Subset, FS_CardinalityType
    <3> QED BY <1>4, <3>2, <3>4, InsideFinite, DaemonAssumption DEF IInv, LoopsMatch
  <2>3. \A u \in Territories : pos'[u] = "raised" => "connection" \in faulted'
    BY <1>1 DEF IInv, LoopsMatch
  <2>4. sched' = sched
    OBVIOUS
  <2>5. sched \notin {"off", "boot", "cancelled", "died"}
    BY <1>3
  <2> QED BY <2>1, <2>2, <2>3, <2>4, <2>5 DEF LoopsMatch
<1>6. TasksMatch'
  BY DEF IInv, TasksMatch, process
<1> QED BY <1>2, <1>4, <1>5, <1>6 DEF IInv

LEMMA ProceedIInv ==
    ASSUME IInv, NEW t \in Territories, Proceed(t)
    PROVE  IInv'
<1>0. /\ spent \in [Territories -> Nat] /\ recorded \in Nat /\ faulted \subseteq Faults
      /\ {"wait", "gate", "close", "launch", "hunt", "sleep", "tick", "unwind", "ended"}
         \subseteq Positions
  BY DEF IInv, TypeOK, Positions, Held, Over
<1>1. CASE Tick(t)
  BY <1>0, <1>1, LoopIInv DEF Tick, money, Over
<1>2. CASE Connected(t)
  BY <1>0, <1>2, LoopIInv DEF Connected, money, Held, Over
<1>3. CASE ReadSpend(t)
  <2>1. PICK p \in {"close", "launch"} : GoTo(t, p)
    BY <1>3 DEF ReadSpend, Gate
  <2> QED BY <1>0, <1>3, <2>1, LoopIInv DEF ReadSpend, Gate, money, Held, Over
<1>4. CASE Launch(t)
  <2>1. spent' \in [Territories -> Nat]
    BY <1>0, <1>4 DEF Launch
  <2> QED BY <1>0, <1>4, <2>1, LoopIInv DEF Launch, Held, Over
<1>5. CASE HuntOver(t)
  BY <1>0, <1>5, LoopIInv DEF HuntOver, money, Held, Over
<1>6. CASE Closed(t)
  BY <1>0, <1>6, LoopIInv DEF Closed, money, Held, Over
<1>7. CASE Wake(t)
  BY <1>0, <1>7, LoopIInv DEF Wake, money, Held, Over
<1>8. CASE Aborted(t)
  BY <1>0, <1>8, LoopIInv DEF Aborted, money, Held, Over
<1>9. CASE Unwound(t)
  BY <1>0, <1>9, LoopIInv DEF Unwound, money, Held, Over
<1> QED BY <1>1, <1>2, <1>3, <1>4, <1>5, <1>6, <1>7, <1>8, <1>9 DEF Proceed

(* A call only spends.                                                     *)
LEMMA CallIInv ==
    ASSUME IInv, NEW t \in Territories, Call(t)
    PROVE  IInv'
<1>1. PICK cost \in 1..Price : /\ recorded' = recorded + cost
                               /\ spent' = [spent EXCEPT ![t] = @ + cost]
  BY DEF Call
<1>2. UNCHANGED <<process, sched, loops, faulted>>
  BY DEF Call
<1>3. recorded' \in Nat /\ spent' \in [Territories -> Nat]
  BY <1>1, DaemonAssumption DEF IInv, TypeOK
<1>4. TypeOK'
  BY <1>2, <1>3 DEF IInv, TypeOK, process, loops
<1>5. SlotsKept' /\ Queued'
  BY <1>2 DEF IInv, SlotsKept, Queued, Inside, Open, loops
<1>6. LoopsMatch' /\ TasksMatch'
  BY <1>2 DEF IInv, LoopsMatch, Survivors, TasksMatch, process, loops
<1> QED BY <1>4, <1>5, <1>6 DEF IInv

LEMMA FaultIInv ==
    ASSUME IInv, NEW t \in Territories,
           HuntEscapes(t) \/ ConnectionFails(t) \/ CleanupFails(t)
    PROVE  IInv'
<1>0. /\ spent \in [Territories -> Nat] /\ recorded \in Nat /\ faulted \subseteq Faults
      /\ {"close", "raised"} \subseteq Positions
  BY DEF IInv, TypeOK, Positions, Held, Over
<1>1. CASE HuntEscapes(t)
  <2>1. faulted \subseteq faulted' /\ faulted' \subseteq Faults
    BY <1>0, <1>1 DEF HuntEscapes, Breaks, Fault
  <2> QED BY <1>0, <1>1, <2>1, LoopIInv DEF HuntEscapes, Breaks, money, Held, Over
<1>2. CASE ConnectionFails(t)
  <2>1. faulted \subseteq faulted' /\ faulted' \subseteq Faults /\ "connection" \in faulted'
    BY <1>0, <1>2 DEF ConnectionFails, Fault
  <2> QED BY <1>0, <1>2, <2>1, LoopIInv DEF ConnectionFails, money, Held, Over
<1>3. CASE CleanupFails(t)
  <2>1. faulted \subseteq faulted' /\ faulted' \subseteq Faults
    BY <1>0, <1>3 DEF CleanupFails, Fault
  <2> QED BY <1>0, <1>3, <2>1, LoopIInv DEF CleanupFails, money, Held, Over
<1> QED BY <1>1, <1>2, <1>3

-----------------------------------------------------------------------------
(* The task group and the lifespan.                                        *)

(* What the cancellation leaves of every loop.                             *)
LEMMA CancelledLoops ==
    ASSUME IInv, sched = "running", CancelGroup
    PROVE  /\ pos' \in [Territories -> Positions] /\ waiting' = <<>>
           /\ \A t \in Territories : pos'[t] \in {"abort", "unwind"} \cup Over
           /\ \A t \in Territories : pos'[t] = "raised" => pos[t] = "raised"
<1>1. ASSUME NEW t \in Territories
      PROVE  /\ pos'[t] \in {"abort", "unwind"} \cup Over
             /\ pos'[t] = "raised" => pos[t] = "raised"
  <2>0. PICK strays \in SUBSET {u \in Territories : pos[u] = "connect"} :
            pos'[t] = CASE t \in strays -> "stray"
                        [] pos[t] \in {"tick", "wait", "sleep", "connect"} -> "ended"
                        [] pos[t] \in {"gate", "launch", "close"} -> "unwind"
                        [] pos[t] = "hunt" -> "abort"
                        [] OTHER -> pos[t]
    BY DEF CancelGroup
  <2>1. pos[t] \in Positions /\ pos[t] # "idle"
    BY DEF IInv, TypeOK, LoopsMatch
  <2>2. CASE pos[t] \in {"tick", "wait", "sleep", "connect"}
    BY <2>0, <2>2 DEF Over
  <2>3. CASE pos[t] \in {"gate", "launch", "close"}
    BY <2>0, <2>3
  <2>4. CASE pos[t] = "hunt"
    BY <2>0, <2>4
  <2>5. CASE pos[t] \in {"abort", "unwind"} \cup Over
    <3>1. pos'[t] = pos[t]
      BY <2>0, <2>5 DEF Over
    <3> QED BY <2>5, <3>1
  <2> QED BY <2>1, <2>2, <2>3, <2>4, <2>5 DEF Positions, Held
<1>2. pos' = [t \in Territories |-> pos'[t]]
  BY DEF CancelGroup
<1>3. {"abort", "unwind"} \cup Over \subseteq Positions
  BY DEF Positions, Held
<1>4. pos' \in [Territories -> Positions]
  BY <1>1, <1>2, <1>3
<1> QED BY <1>1, <1>4 DEF CancelGroup

LEMMA GroupIInv ==
    ASSUME IInv, Group \/ SchedulerBootFails
    PROVE  IInv'
<1>1. CASE SchedulerBoots
  <2>1. /\ waiting' = <<>> /\ pos' = [t \in Territories |-> "tick"]
        /\ Inside' = {} /\ Open' = {}
    BY <1>1 DEF IInv, LoopsMatch, SchedulerBoots, Inside, Open, Held
  <2>2. TypeOK'
    BY <1>1, <2>1 DEF IInv, TypeOK, SchedulerBoots, process, money, Positions
  <2>3. SlotsKept' /\ Queued'
    BY <2>1, FS_EmptySet, DaemonAssumption DEF SlotsKept, Queued
  <2>4. LoopsMatch' /\ TasksMatch'
    BY <1>1, <2>1 DEF IInv, LoopsMatch, TasksMatch, SchedulerBoots, process
  <2> QED BY <2>2, <2>3, <2>4 DEF IInv
<1>2. CASE GroupAborts
  <2>1. /\ pos' \in [Territories -> Positions] /\ waiting' = <<>> /\ sched' = "cancelling"
        /\ \A t \in Territories : pos'[t] \in {"abort", "unwind"} \cup Over
        /\ \A t \in Territories : pos'[t] = "raised" => pos[t] = "raised"
    BY <1>2, CancelledLoops DEF GroupAborts, CancelGroup
  <2>2. "connection" \in faulted /\ UNCHANGED <<process, money, faulted>>
    BY <1>2 DEF IInv, LoopsMatch, GroupAborts
  <2>3. TypeOK'
    BY <2>1, <2>2 DEF IInv, TypeOK, process, money
  <2>4. SlotsKept' /\ Queued' /\ Cardinality(Survivors') <= MaxConcurrent
    BY <1>2, CancelSlots DEF IInv, LoopsMatch, GroupAborts
  <2>5. LoopsMatch' /\ TasksMatch'
    BY <1>2, <2>1, <2>2, <2>4 DEF IInv, LoopsMatch, TasksMatch, GroupAborts, process, Over
  <2> QED BY <2>3, <2>4, <2>5 DEF IInv
<1>3. CASE GroupOver
  <2>1. /\ sched = "cancelling" /\ UNCHANGED <<process, loops, money, faulted>>
        /\ \A t \in Territories : pos[t] \in Over
        /\ sched' \in {"died", "cancelled"}
        /\ sched' = "died" => \E t \in Territories : pos[t] = "raised"
    BY <1>3 DEF GroupOver
  <2>2. TypeOK'
    BY <2>1 DEF IInv, TypeOK, process, loops, money
  <2>3. SlotsKept' /\ Queued'
    BY <2>1 DEF IInv, SlotsKept, Queued, Inside, Open, loops
  <2>4. LoopsMatch' /\ TasksMatch'
    BY <2>1 DEF IInv, LoopsMatch, Survivors, TasksMatch, process, loops
  <2> QED BY <2>2, <2>3, <2>4 DEF IInv
<1>4. CASE SchedulerBootFails
  <2>1. /\ sched = "boot" /\ sched' = "died" /\ UNCHANGED <<process, loops, money>>
        /\ faulted' = faulted \cup {"connection"} /\ "connection" \in Faults
    BY <1>4 DEF SchedulerBootFails, Fault
  <2>2. TypeOK'
    BY <2>1 DEF IInv, TypeOK, process, loops, money
  <2>3. SlotsKept' /\ Queued'
    BY <2>1 DEF IInv, SlotsKept, Queued, Inside, Open, loops
  <2>4. LoopsMatch' /\ TasksMatch'
    BY <2>1 DEF IInv, LoopsMatch, Survivors, TasksMatch, process, loops
  <2> QED BY <2>2, <2>3, <2>4 DEF IInv
<1> QED BY <1>1, <1>2, <1>3, <1>4 DEF Group

(* Stop: the tasks are cancelled, and the scheduler's group with them.     *)
LEMMA StopIInv ==
    ASSUME IInv, Stop
    PROVE  IInv'
<1>1. /\ server = "serving" /\ server' = "draining" /\ drain' = 1 /\ beat' = "cancelled"
      /\ worker' = IF worker = "running" THEN "closing" ELSE worker
      /\ UNCHANGED <<client, money, faulted>>
  BY DEF Stop, CancelTasks
<1>2. worker' \in {"off", "closing", "cancelled", "died"} /\ (worker' = "died" => worker = "died")
  BY <1>1 DEF IInv, TypeOK
<1>3. CASE sched = "boot"
  <2>1. sched' = "cancelled" /\ UNCHANGED loops
    BY <1>3 DEF Stop, CancelTasks
  <2>2. TypeOK'
    BY <1>1, <1>2, <2>1 DEF IInv, TypeOK, loops, money
  <2>3. SlotsKept' /\ Queued'
    BY <2>1 DEF IInv, SlotsKept, Queued, Inside, Open, loops
  <2>4. LoopsMatch' /\ TasksMatch'
    BY <1>1, <1>2, <1>3, <2>1 DEF IInv, LoopsMatch, Survivors, TasksMatch, loops
  <2> QED BY <2>2, <2>3, <2>4 DEF IInv
<1>4. CASE sched = "running"
  <2>0. CancelGroup
    BY <1>4 DEF Stop, CancelTasks
  <2>1. /\ pos' \in [Territories -> Positions] /\ waiting' = <<>> /\ sched' = "cancelling"
        /\ \A t \in Territories : pos'[t] \in {"abort", "unwind"} \cup Over
        /\ \A t \in Territories : pos'[t] = "raised" => pos[t] = "raised"
    BY <1>4, <2>0, CancelledLoops DEF CancelGroup
  <2>2. TypeOK'
    BY <1>1, <1>2, <2>1 DEF IInv, TypeOK, money
  <2>3. SlotsKept' /\ Queued' /\ Cardinality(Survivors') <= MaxConcurrent
    BY <1>4, <2>0, CancelSlots DEF IInv, LoopsMatch
  <2>4. LoopsMatch' /\ TasksMatch'
    BY <1>1, <1>2, <2>1, <2>3 DEF IInv, LoopsMatch, TasksMatch, Over
  <2> QED BY <2>2, <2>3, <2>4 DEF IInv
<1>5. CASE sched \notin {"boot", "running"}
  <2>1. UNCHANGED <<sched, loops>>
    BY <1>5 DEF Stop, CancelTasks
  <2>2. TypeOK'
    BY <1>1, <1>2, <2>1 DEF IInv, TypeOK, loops, money
  <2>3. SlotsKept' /\ Queued'
    BY <2>1 DEF IInv, SlotsKept, Queued, Inside, Open, loops
  <2>4. LoopsMatch' /\ TasksMatch'
    BY <1>1, <1>2, <1>5, <2>1 DEF IInv, LoopsMatch, Survivors, TasksMatch, loops
  <2> QED BY <2>2, <2>3, <2>4 DEF IInv
<1> QED BY <1>3, <1>4, <1>5

(* The other steps of lifespan and worker leave the loops alone.           *)
LEMMA ProcessIInv ==
    ASSUME IInv, Lifespan \/ BootFails \/ WorkerDies \/ WorkerCloses
    PROVE  IInv'
<1> USE DEF process, loops, money
<1>1. UNCHANGED <<pos, waiting, spent, recorded>>
  BY DEF Lifespan, Boot, BootFails, Drained, Proceeds, DrainRaises, CloseClient,
         WorkerDies, WorkerCloses
<1>2. SlotsKept' /\ Queued'
  BY <1>1 DEF IInv, SlotsKept, Queued, Inside, Open
<1>3. TypeOK' /\ LoopsMatch' /\ TasksMatch'
  <2> USE <1>1 DEF IInv
  <2>1. CASE Boot
    BY <2>1 DEF Boot, TypeOK, LoopsMatch, Survivors, TasksMatch
  <2>2. CASE BootFails
    BY <2>2 DEF BootFails, Fault, TypeOK, LoopsMatch, Survivors, TasksMatch
  <2>3. CASE Drained
    <3>1. /\ server = "draining" /\ drain \in 1..3 /\ drain' = drain + 1
          /\ UNCHANGED <<server, worker, beat, client, sched, faulted>>
      BY <2>3 DEF Drained, Proceeds
    <3>2. /\ drain = 1 => sched = "cancelled"
          /\ drain = 2 => worker = "cancelled"
      BY <2>3 DEF Drained, Proceeds, Awaited
    <3> QED BY <3>1, <3>2 DEF TypeOK, LoopsMatch, Survivors, TasksMatch
  <2>4. CASE DrainRaises
    <3>1. /\ server = "draining" /\ drain \in 1..3 /\ server' = "failed"
          /\ UNCHANGED <<drain, worker, beat, client, sched, faulted>>
      BY <2>4 DEF DrainRaises
    <3>2. sched = "died" \/ worker = "died" \/ beat = "died"
      BY <2>4, <3>1 DEF DrainRaises, Awaited
    <3>3. faulted # {}
      BY <3>1, <3>2 DEF TypeOK, LoopsMatch, Survivors, TasksMatch
    <3> QED BY <3>1, <3>3 DEF TypeOK, LoopsMatch, Survivors, TasksMatch
  <2>5. CASE CloseClient
    <3>1. /\ server = "draining" /\ drain = 4 /\ server' = "down"
          /\ client' = IF client = "open" THEN "closed" ELSE client
          /\ UNCHANGED <<drain, worker, beat, sched, faulted>>
      BY <2>5 DEF CloseClient, ClientClosed
    <3>2. client' \in {"none", "closed"}
      BY <3>1 DEF TypeOK
    <3> QED BY <3>1, <3>2 DEF TypeOK, LoopsMatch, Survivors, TasksMatch
  <2>6. CASE WorkerDies
    BY <2>6 DEF WorkerDies, Fault, TypeOK, LoopsMatch, Survivors, TasksMatch
  <2>7. CASE WorkerCloses
    BY <2>7 DEF WorkerCloses, TypeOK, LoopsMatch, Survivors, TasksMatch
  <2> QED BY <2>1, <2>2, <2>3, <2>4, <2>5, <2>6, <2>7 DEF Lifespan
<1> QED BY <1>2, <1>3 DEF IInv

LEMMA NextIInv == IInv /\ [Next]_vars => IInv'
<1> SUFFICES ASSUME IInv, [Next]_vars PROVE IInv'
  OBVIOUS
<1>1. CASE Lifespan \/ BootFails \/ WorkerDies \/ WorkerCloses
  BY <1>1, ProcessIInv
<1>2. CASE Stop
  BY <1>2, StopIInv
<1>3. CASE Group \/ SchedulerBootFails
  BY <1>3, GroupIInv
<1>4. ASSUME NEW t \in Territories,
             \/ Proceed(t) \/ Call(t)
             \/ HuntEscapes(t) \/ ConnectionFails(t) \/ CleanupFails(t)
      PROVE  IInv'
  BY <1>4, ProceedIInv, CallIInv, FaultIInv
<1>5. CASE UNCHANGED vars
  BY <1>5 DEF IInv, TypeOK, SlotsKept, Queued, LoopsMatch, Survivors, TasksMatch,
              Inside, Open, vars, process, loops, money
<1> QED BY <1>1, <1>2, <1>3, <1>4, <1>5 DEF Next

-----------------------------------------------------------------------------
(* The invariant of the daemon: process, scheduler, semaphore and loops.   *)
THEOREM InvariantHolds == Spec => []IInv
<1> QED BY InitIInv, NextIInv, PTL DEF Spec

(* Every variable keeps to its type.                                       *)
THEOREM TypeCorrect == Spec => []TypeOK
<1>1. IInv => TypeOK
  BY DEF IInv
<1> QED BY <1>1, InvariantHolds, PTL

(* scheduler.py, "the cap also caps open connections": at most             *)
(* MaxConcurrent hunts have a connection, one left behind by a cancelled   *)
(* db.connect included, and none waits while a slot is free, whatever is   *)
(* refused, fails or is cancelled and whoever outlives his cancellation.   *)
THEOREM SlotsAreKept == Spec => []SlotsKept
<1>1. IInv => SlotsKept
  BY DEF IInv
<1> QED BY <1>1, InvariantHolds, PTL

(* scheduler.py, "Failure isolation": while the server serves, only a      *)
(* connection that does not open or close ends a territory's loop.         *)
THEOREM HuntsAreIsolated == Spec => []IsolatedHunts
<1>1. IInv => IsolatedHunts
  <2> SUFFICES ASSUME IInv, server = "serving", "connection" \notin faulted,
                      NEW t \in Territories
               PROVE  /\ sched \in {"boot", "running"}
                      /\ pos[t] \notin {"abort", "unwind"} \cup Over
    BY DEF IInv, TasksMatch, IsolatedHunts
  <2>1. sched \in {"boot", "running"}
    BY DEF IInv, TasksMatch
  <2> QED BY <2>1 DEF IInv, LoopsMatch, Over
<1> QED BY <1>1, InvariantHolds, PTL

(* lifespan's finally: the paid client outlives every hunt, a shutdown     *)
(* that comes to its end leaves nothing running, and it raises only what a *)
(* fault had left to raise.                                                *)
THEOREM ShutdownIsInOrder == Spec => []ShutdownInOrder
<1>1. IInv => ShutdownInOrder
  <2> SUFFICES ASSUME IInv PROVE ShutdownInOrder
    OBVIOUS
  <2>1. server = "down" => /\ \A t \in Territories : pos[t] \in Over \cup {"idle"}
                           /\ Inside = {}
    BY DEF IInv, LoopsMatch, TasksMatch, Inside, Held, Over
  <2> QED BY <2>1 DEF IInv, TasksMatch, ShutdownInOrder
<1> QED BY <1>1, InvariantHolds, PTL

-----------------------------------------------------------------------------
(* The budget.  A hunt may record Allowance dollars, its own ceiling and   *)
(* one call.  The dollars the launched hunts have still to record are      *)
(* pairs of a set, so that its cardinality is their sum: recorded spend    *)
(* and Unspent together stay under the bound, since a hunt passes the gate *)
(* below the ceiling only, and a call moves dollars from one to the other. *)

Allowance == RunCeiling - 1 + Price

Paid(t) == IF pos[t] = "hunt" THEN spent[t] ELSE 0

Launched == {t \in Territories : pos[t] \in {"launch", "hunt"}}

Unspent == {u \in Territories \X (1..Allowance) : u[1] \in Launched /\ u[2] > Paid(u[1])}

Budgeted == recorded + Cardinality(Unspent) <= DaemonCeiling - 1 + Overshoot

LEMMA UnspentFinite ==
    /\ Allowance \in Nat \ {0}
    /\ IsFiniteSet(Unspent) /\ Cardinality(Unspent) \in Nat
    /\ Cardinality(Unspent) <= Cardinality(Launched) * Allowance
    /\ Cardinality(Launched) \in Nat
<1>1. Allowance \in Nat \ {0}
  BY DaemonAssumption DEF Allowance
<1>2. IsFiniteSet(1..Allowance) /\ Cardinality(1..Allowance) = Allowance
  BY <1>1, FS_Interval
<1>3. IsFiniteSet(Launched)
  <2>1. Launched \in SUBSET Territories
    BY DEF Launched
  <2> QED BY <2>1, DaemonAssumption, FS_Subset
<1>4. /\ IsFiniteSet(Launched \X (1..Allowance))
      /\ Cardinality(Launched \X (1..Allowance)) = Cardinality(Launched) * Allowance
  BY <1>2, <1>3, FS_Product
<1>5. Unspent \in SUBSET (Launched \X (1..Allowance))
  BY DEF Unspent
<1>6. IsFiniteSet(Unspent) /\ Cardinality(Unspent) <= Cardinality(Launched) * Allowance
  BY <1>4, <1>5, FS_Subset
<1> QED BY <1>1, <1>3, <1>6, FS_CardinalityType

(* A step that launches nobody and records nothing.                        *)
LEMMA NothingLaunched ==
    ASSUME IInv, Budgeted, recorded' = recorded,
           \A t \in Territories : pos'[t] \in {"launch", "hunt"} =>
               pos[t] \in {"launch", "hunt"} /\ Paid(t)' = Paid(t)
    PROVE  Budgeted'
<1>1. Unspent' \in SUBSET Unspent
  BY DEF Unspent, Launched
<1>2. Cardinality(Unspent') <= Cardinality(Unspent) /\ IsFiniteSet(Unspent')
  BY <1>1, UnspentFinite, FS_Subset
<1>3. Cardinality(Unspent') \in Nat
  BY <1>2, FS_CardinalityType
<1>4. recorded \in Nat
  BY DEF IInv, TypeOK
<1>5. DaemonCeiling - 1 + Overshoot \in Nat /\ Overshoot' = Overshoot
  BY DaemonAssumption DEF Overshoot
<1> QED BY <1>2, <1>3, <1>4, <1>5, UnspentFinite DEF Budgeted

(* The gate: below the ceiling, and with a slot for every launched hunt.   *)
LEMMA GateBudgeted ==
    ASSUME IInv, IInv', Budgeted, NEW t \in Territories, ReadSpend(t)
    PROVE  Budgeted'
<1>1. UNCHANGED <<spent, recorded>> /\ pos[t] = "gate"
  BY DEF ReadSpend, Gate, money
<1>2. CASE recorded >= DaemonCeiling
  <2>1. pos' = [pos EXCEPT ![t] = "close"]
    BY <1>2 DEF ReadSpend, Gate, GoTo
  <2>2. ASSUME NEW u \in Territories, pos'[u] \in {"launch", "hunt"}
        PROVE  pos[u] \in {"launch", "hunt"} /\ Paid(u)' = Paid(u)
    BY <1>1, <2>1, <2>2 DEF IInv, TypeOK, Paid
  <2> QED BY <1>1, <2>2, NothingLaunched
<1>3. CASE ~(recorded >= DaemonCeiling)
  <2>1. Launched' \in SUBSET (Open')
    BY DEF Launched, Open, Held
  <2>2. IsFiniteSet(Open') /\ Cardinality(Open') \in Nat
    <3>1. Open' \in SUBSET Territories
      BY DEF Open
    <3> QED BY <3>1, DaemonAssumption, FS_Subset, FS_CardinalityType
  <2>3. Cardinality(Launched') <= Cardinality(Open') /\ IsFiniteSet(Launched')
    BY <2>1, <2>2, FS_Subset
  <2>4. Cardinality(Open') <= MaxConcurrent
    BY DEF IInv, SlotsKept
  <2>5. Cardinality(Launched') \in Nat /\ Cardinality(Launched') <= MaxConcurrent
    BY <2>2, <2>3, <2>4, FS_CardinalityType, DaemonAssumption
  <2>6. /\ IsFiniteSet(Unspent') /\ Cardinality(Unspent') \in Nat
        /\ Cardinality(Unspent') <= Cardinality(Launched') * Allowance
    <3>1. Unspent' \in SUBSET (Launched' \X (1..Allowance))
      BY DEF Unspent, Allowance
    <3>2. IsFiniteSet(1..Allowance) /\ Cardinality(1..Allowance) = Allowance
      BY UnspentFinite, FS_Interval
    <3>3. /\ IsFiniteSet(Launched' \X (1..Allowance))
          /\ Cardinality(Launched' \X (1..Allowance)) = Cardinality(Launched') * Allowance
      BY <2>3, <3>2, FS_Product
    <3>4. IsFiniteSet(Unspent') /\ Cardinality(Unspent') <= Cardinality(Launched') * Allowance
      BY <3>1, <3>3, FS_Subset
    <3> QED BY <3>4, FS_CardinalityType
  <2>7. Cardinality(Launched') * Allowance <= MaxConcurrent * Allowance
    BY <2>5, UnspentFinite, DaemonAssumption
  <2>8. MaxConcurrent * Allowance \in Nat /\ Cardinality(Launched') * Allowance \in Nat
    BY <2>5, UnspentFinite, DaemonAssumption
  <2>9. Overshoot' = MaxConcurrent * Allowance
    BY DEF Overshoot, Allowance
  <2>10. recorded' \in Nat /\ recorded' <= DaemonCeiling - 1
    BY <1>1, <1>3, DaemonAssumption DEF IInv, TypeOK
  <2> QED BY <2>6, <2>7, <2>8, <2>9, <2>10, DaemonAssumption DEF Budgeted
<1> QED BY <1>2, <1>3

(* A call records what it takes from the hunt's allowance.                 *)
LEMMA CallBudgeted ==
    ASSUME IInv, Budgeted, NEW t \in Territories, Call(t)
    PROVE  Budgeted'
<1>1. PICK cost \in 1..Price : /\ recorded' = recorded + cost
                               /\ spent' = [spent EXCEPT ![t] = @ + cost]
  BY DEF Call
<1>2. pos[t] = "hunt" /\ spent[t] < RunCeiling /\ UNCHANGED pos
  BY DEF Call, MayCall, loops
<1>3. spent[t] \in Nat /\ recorded \in Nat /\ cost \in Nat
  BY <1>1, DaemonAssumption DEF IInv, TypeOK
<1> DEFINE paid == {t} \X ((spent[t] + 1)..(spent[t] + cost))
<1>4. spent[t] + cost <= Allowance
  BY <1>1, <1>2, <1>3, DaemonAssumption DEF Allowance
<1>5. Unspent' = Unspent \ paid
  <2>1. \A u \in Territories : Paid(u)' = IF u = t THEN spent[t] + cost ELSE Paid(u)
    BY <1>1, <1>2 DEF IInv, TypeOK, Paid
  <2>2. Paid(t) = spent[t]
    BY <1>2 DEF Paid
  <2>3. Allowance' = Allowance /\ Launched' = Launched
    BY <1>2 DEF Allowance, Launched
  <2>4. ASSUME NEW u \in Territories, NEW k \in 1..Allowance
        PROVE  k > Paid(u)' <=> k > Paid(u) /\ <<u, k>> \notin paid
    <3>1. CASE u = t
      BY <1>3, <2>1, <2>2, <3>1, UnspentFinite
    <3>2. CASE u # t
      BY <2>1, <3>2
    <3> QED BY <3>1, <3>2
  <2>5. ASSUME NEW w \in Territories \X (1..Allowance)
        PROVE  w \in Unspent' <=> w \in Unspent \ paid
    <3>1. PICK u \in Territories, k \in 1..Allowance : w = <<u, k>>
      OBVIOUS
    <3>2. w \in Unspent' <=> u \in Launched /\ k > Paid(u)'
      BY <2>3, <3>1 DEF Unspent
    <3>3. w \in Unspent <=> u \in Launched /\ k > Paid(u)
      BY <3>1 DEF Unspent
    <3> QED BY <2>4, <3>1, <3>2, <3>3
  <2> QED BY <2>3, <2>5 DEF Unspent
<1>6. paid \in SUBSET Unspent
  <2>1. ASSUME NEW k \in (spent[t] + 1)..(spent[t] + cost)
        PROVE  <<t, k>> \in Unspent
    BY <1>2, <1>3, <1>4, UnspentFinite DEF Unspent, Launched, Paid
  <2> QED BY <2>1
<1>7. Cardinality(paid) = cost
  <2>1. /\ IsFiniteSet((spent[t] + 1)..(spent[t] + cost))
        /\ Cardinality((spent[t] + 1)..(spent[t] + cost)) = cost
    <3>1. /\ spent[t] + 1 \in Int /\ spent[t] + cost \in Int
          /\ ~(spent[t] + 1 > spent[t] + cost)
          /\ (spent[t] + cost) - (spent[t] + 1) + 1 = cost
      BY <1>1, <1>3, DaemonAssumption
    <3> HIDE DEF paid
    <3> QED BY <3>1, FS_Interval
  <2>2. IsFiniteSet({t}) /\ Cardinality({t}) = 1
    BY FS_Singleton
  <2>3. Cardinality(paid) = 1 * cost
    BY <2>1, <2>2, FS_Product
  <2> QED BY <1>3, <2>3
<1>8. Cardinality(Unspent') = Cardinality(Unspent) - cost
  <2>1. Unspent \cap paid = paid
    BY <1>6
  <2> HIDE DEF paid
  <2>2. Cardinality(Unspent \ paid) = Cardinality(Unspent) - Cardinality(Unspent \cap paid)
    BY UnspentFinite, FS_Difference
  <2> QED BY <1>5, <1>7, <2>1, <2>2
<1>9. DaemonCeiling - 1 + Overshoot \in Nat /\ Overshoot' = Overshoot
  BY DaemonAssumption DEF Overshoot
<1> QED BY <1>1, <1>3, <1>8, <1>9, UnspentFinite DEF Budgeted

(* Every other step launches nobody, or takes a launched hunt off.         *)
LEMMA NextBudgeted == IInv /\ IInv' /\ Budgeted /\ [Next]_vars => Budgeted'
<1> SUFFICES ASSUME IInv, IInv', Budgeted, [Next]_vars PROVE Budgeted'
  OBVIOUS
<1>0. /\ pos \in [Territories -> Positions] /\ spent \in [Territories -> Nat]
      /\ pos' \in [Territories -> Positions]
  BY DEF IInv, TypeOK
<1>1. CASE Lifespan \/ BootFails \/ WorkerDies \/ WorkerCloses \/ SchedulerBootFails
           \/ GroupOver \/ UNCHANGED vars
  <2>1. UNCHANGED <<pos, spent, recorded>>
    BY <1>1 DEF Lifespan, Boot, BootFails, Drained, Proceeds, DrainRaises, CloseClient,
                WorkerDies, WorkerCloses, SchedulerBootFails, GroupOver, vars, loops, money
  <2> QED BY <2>1, NothingLaunched DEF Paid
<1>2. CASE SchedulerBoots
  BY <1>2, NothingLaunched DEF SchedulerBoots, money
<1>3. CASE Stop \/ GroupAborts
  <2>1. UNCHANGED <<spent, recorded>> /\ (UNCHANGED pos \/ (sched = "running" /\ CancelGroup))
    <3>1. CASE GroupAborts
      BY <3>1 DEF GroupAborts, money
    <3>2. CASE Stop /\ sched = "running"
      BY <3>2 DEF Stop, CancelTasks, money
    <3>3. CASE Stop /\ sched # "running"
      <4>1. UNCHANGED loops
        BY <3>3 DEF Stop, CancelTasks
      <4>2. UNCHANGED <<spent, recorded>>
        BY <3>3 DEF Stop, CancelTasks, money
      <4>3. UNCHANGED pos
        BY <4>1 DEF loops
      <4> QED BY <4>2, <4>3
    <3> QED BY <1>3, <3>1, <3>2, <3>3
  <2>2. CASE UNCHANGED pos
    BY <2>1, <2>2, NothingLaunched DEF Paid
  <2>3. CASE sched = "running" /\ CancelGroup
    <3>1. \A t \in Territories : pos'[t] \in {"abort", "unwind"} \cup Over
      BY <2>3, CancelledLoops
    <3> QED BY <2>1, <3>1, NothingLaunched DEF Over
  <2> QED BY <2>1, <2>2, <2>3
<1>4. ASSUME NEW t \in Territories, \/ Proceed(t) \/ HuntEscapes(t)
             \/ ConnectionFails(t) \/ CleanupFails(t),
             ~ReadSpend(t), ~Launch(t)
      PROVE  Budgeted'
  <2>1. PICK p \in Positions \ {"launch", "hunt"} :
            /\ \/ GoTo(t, p)
               \/ p = "wait" /\ pos[t] = "tick" /\ Acquire(t)
               \/ pos[t] \in Held /\ Release(t, p)
            /\ UNCHANGED <<spent, recorded>>
    BY <1>4 DEF Proceed, Tick, Connected, HuntOver, Closed, Wake, Aborted, Unwound,
                HuntEscapes, Breaks, ConnectionFails, CleanupFails, money, Positions, Held, Over
  <2>2. /\ pos'[t] \in {p, "connect"}
        /\ \A u \in Territories \ {t} :
              pos'[u] = pos[u] \/ (pos[u] = "wait" /\ pos'[u] = "connect")
    BY <2>1, LoopMoves
  <2> QED BY <2>1, <2>2, NothingLaunched DEF Paid
<1>5. ASSUME NEW t \in Territories, Launch(t)
      PROVE  Budgeted'
  <2>1. /\ pos[t] = "launch" /\ pos' = [pos EXCEPT ![t] = "hunt"]
        /\ spent' = [spent EXCEPT ![t] = 0] /\ UNCHANGED recorded
    BY <1>5 DEF Launch, GoTo
  <2>2. \A u \in Territories : pos'[u] \in {"launch", "hunt"} =>
            pos[u] \in {"launch", "hunt"} /\ Paid(u)' = Paid(u)
    BY <1>0, <2>1 DEF Paid
  <2> QED BY <2>1, <2>2, NothingLaunched
<1>6. ASSUME NEW t \in Territories, ReadSpend(t) \/ Call(t)
      PROVE  Budgeted'
  BY <1>6, GateBudgeted, CallBudgeted
<1> QED BY <1>1, <1>2, <1>3, <1>4, <1>5, <1>6 DEF Next, Group

(* The daemon's spend gate and the breakers of its hunts: recorded spend   *)
(* passes the ceiling by no more than one allowance for each slot.         *)
THEOREM OvershootIsBounded == Spec => []OvershootBounded
<1>1. Init => Budgeted
  <2> SUFFICES ASSUME Init PROVE Budgeted
    OBVIOUS
  <2>1. Unspent = {}
    BY DEF Init, Unspent, Launched
  <2>2. recorded \in 0..DaemonCeiling
    BY DEF Init
  <2>3. Overshoot \in Nat \ {0}
    <3>1. MaxConcurrent \in Nat \ {0} /\ Allowance \in Nat \ {0}
      BY UnspentFinite, DaemonAssumption
    <3>2. MaxConcurrent * Allowance \in Nat \ {0}
      BY <3>1
    <3> QED BY <3>2 DEF Overshoot, Allowance
  <2> QED BY <2>1, <2>2, <2>3, FS_EmptySet, DaemonAssumption DEF Budgeted
<1>2. IInv /\ Budgeted => OvershootBounded
  BY UnspentFinite, DaemonAssumption DEF IInv, TypeOK, Budgeted, Overshoot, OvershootBounded
<1> QED BY <1>1, <1>2, NextBudgeted, InvariantHolds, PTL DEF Spec
=============================================================================
