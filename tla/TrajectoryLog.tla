--------------------------- MODULE TrajectoryLog ---------------------------
(***************************************************************************)
(* What the RexHunter store promises its readers, with no connection, lock *)
(* or task in sight: one append-only log of events, numbered globally by   *)
(* their position (the id column) and per run by seq, and one status per   *)
(* run that opens once and closes once.  HuntStore implements it.          *)
(***************************************************************************)
EXTENDS Integers, Sequences, FiniteSets

CONSTANTS
    RunIds,     \* the uuids start_run may draw
    Outcomes    \* what a hunt may write in runs.outcome

VARIABLES
    log,        \* committed trajectory_events, [run, seq] at position id
    runs        \* RunIds -> "absent", "open", "crashed" or an outcome

vars == <<log, runs>>

\* How many events run r has in l: the seq its next event will carry.
Count(l, r) == Cardinality({i \in DOMAIN l : l[i].run = r})

\* l followed by the next k events of run r.
Extended(l, r, k) ==
    l \o [i \in 1..k |-> [run |-> r, seq |-> Count(l, r) + i - 1]]

Init == /\ log = <<>>
        /\ runs = [r \in RunIds |-> "absent"]

Start(r) == /\ runs[r] = "absent"
            /\ runs' = [runs EXCEPT ![r] = "open"]
            /\ UNCHANGED log

(* A hunt's commit: up to two new events of its own run, and the outcome   *)
(* when the same transaction closes it.                                    *)
Commit(r) == /\ runs[r] = "open"
             /\ \E k \in 0..2 : log' = Extended(log, r, k)
             /\ \E s \in {"open"} \cup Outcomes :
                    runs' = [runs EXCEPT ![r] = s]

\* The boot sweep: whatever no process closed is recorded as crashed.
Sweep == /\ runs' = [r \in RunIds |->
                        IF runs[r] = "open" THEN "crashed" ELSE runs[r]]
         /\ UNCHANGED log

Next == Sweep \/ \E r \in RunIds : Start(r) \/ Commit(r)

Spec == Init /\ [][Next]_vars
=============================================================================
