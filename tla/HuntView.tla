------------------------------ MODULE HuntView ------------------------------
(***************************************************************************)
(* A hunt as its viewers see it: the log HuntLoop writes, folded by View.  *)
(***************************************************************************)
EXTENDS HuntLoop, View

\* HuntLoop's event as a row.  One tool call at a time is outstanding, so
\* which tool it names does not matter, only that <brain> and <loop> differ.
Row(e, id, seq, run) ==
    LET error == e.type \in {"tool_error", "brain_error", "loop_error"}
    IN  [id |-> id, seq |-> seq, run |-> run,
         type |-> IF error THEN "error" ELSE e.type,
         tool |-> CASE e.type \in {"tool_call", "tool_error"} -> "tool"
                    [] e.type \in {"brain_error", "loop_error"} -> "<brain>"
                    [] OTHER -> "",
         cost |-> IF e.type = "usage" THEN e.cost ELSE 0]

Rows == [i \in DOMAIN log |-> Row(log[i], i, i - 1, "hunt")]

\* The same log written by two hunts at once, their rows alternating.
TwoHunts == [i \in 1..(2 * Len(log)) |->
                LET n == (i + 1) \div 2
                IN  Row(log[n], i, n - 1, IF i % 2 = 1 THEN "hunt" ELSE "other")]

(* view.RunView and render._run_card against the hunt they show: Rex is    *)
(* drawn hunting only while a tool executes, from its call to its result   *)
(* or first error; stamina counts the turns he acted and is not overdrawn; *)
(* no brain is called on an empty HP bar, and the cost breaker ends a hunt *)
(* only on one; a hunt completes with its whole catch in the pen, and no   *)
(* other hunt's card counts prey.                                          *)
CardTellsHunt ==
    pc \in {"plan", "ask", "execute", "over"} /\ log # <<>> =>
    LET card == Fold(Rows).runs["hunt"]
        hp   == Remaining(card.spent, CostCeiling)
    IN  /\ card.openTool # None => pc = "execute"
        /\ pc = "execute" /\ attempt = 1 => card.openTool # None
        /\ Remaining(card.turns, MaxIterations) = MaxIterations - card.turns
        /\ pc = "plan" => card.turns = turn
        /\ pc = "ask" => hp > 0
        /\ outcome = <<"aborted", "cost ceiling">> => hp = 0
        /\ outcome = <<"completed", "">> => card.prey = decision.catch
        /\ pc = "over" /\ card.prey > 0 => outcome = <<"completed", "">>

(* view.py's laws, over completed hunts: a viewer that has folded the log  *)
(* to some point and is sent all of it again has the fold of the whole log *)
(* (idempotent replay, incremental == batch), and the replay of one run by *)
(* its own cursor shows what the live feed of all runs shows of it.        *)
ReplayFolds ==
    outcome = <<"completed", "">> =>
        LET whole == Fold(TwoHunts)
            seen  == Fold(SubSeq(TwoHunts, 1, Len(log)))
            ghost == Fold([i \in DOMAIN log |-> TwoHunts[2 * i]])
        IN  /\ FoldFrom(seen, TwoHunts) = whole
            /\ ghost.runs = [r \in DOMAIN whole.runs \ {"hunt"} |-> whole.runs[r]]
=============================================================================
