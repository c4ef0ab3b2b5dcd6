------------------------------- MODULE Feed -------------------------------
(***************************************************************************)
(* What a viewer of the consciousness stream is promised (ADR pillar 3):   *)
(* it joins at the head of the log its snapshot showed and from there sees *)
(* every event once, in id order, and in the end all of them - whatever    *)
(* queues, reconnects and restarts lie between.                            *)
(***************************************************************************)
EXTENDS Integers

CONSTANTS Viewers

VARIABLES
    head,   \* events committed: ids 1..head
    seen    \* per viewer: the last id it has seen, -1 before it joined

vars == <<head, seen>>

Init == head = 0 /\ seen = [v \in Viewers |-> -1]

Grow == head' = head + 1 /\ UNCHANGED seen

Join(v) == /\ seen[v] = -1
           /\ seen' = [seen EXCEPT ![v] = head]
           /\ UNCHANGED head

See(v) == /\ seen[v] >= 0 /\ seen[v] < head
          /\ seen' = [seen EXCEPT ![v] = @ + 1]
          /\ UNCHANGED head

Next == Grow \/ \E v \in Viewers : Join(v) \/ See(v)

Spec     == Init /\ [][Next]_vars
FairSpec == Spec /\ \A v \in Viewers : WF_vars(See(v))
=============================================================================
