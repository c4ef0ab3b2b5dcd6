-------------------------------- MODULE View --------------------------------
(***************************************************************************)
(* The projection reducer view.py, and what render.py makes of its result: *)
(* pure operators.  A row of the log is [id, seq, run, type, tool, cost].  *)
(* A piece of thinking, and a posting, is the id of its row.               *)
(***************************************************************************)
EXTENDS Integers, Sequences, SequencesExt, FiniteSetsExt

None == ""

NewRun == [openTool |-> None, thinking |-> <<>>, prey |-> 0, errors |-> 0,
           turns |-> 0, spent |-> 0]

Accumulator == [highWater |-> 0, runs |-> <<>>, pen |-> <<>>]

\* One event on its run: the arms of _apply.  An error closes the call
\* outstanding if closes holds.
AppliedIf(run, row, closes) ==
    CASE row.type = "tool_call" ->
            [run EXCEPT !.openTool = row.tool, !.turns = @ + 1]
      [] row.type = "tool_result" ->
            [run EXCEPT !.openTool = None]
      [] row.type = "error" ->
            [run EXCEPT !.errors = @ + 1, !.openTool = IF closes THEN None ELSE @]
      [] row.type = "prey_captured" -> [run EXCEPT !.prey = @ + 1]
      [] row.type = "thinking_delta" -> [run EXCEPT !.thinking = Append(@, row.id)]
      [] row.type = "usage" -> [run EXCEPT !.spent = @ + row.cost]

\* Mutant: only a result closes the outstanding call.
AppliedUnclosed(run, row) == AppliedIf(run, row, FALSE)

Applied(run, row) == AppliedIf(run, row, row.tool = run.openTool)

Apply(acc, row) ==
    LET run(r) == IF r \in DOMAIN acc.runs THEN acc.runs[r] ELSE NewRun
    IN  [acc EXCEPT !.runs = [r \in DOMAIN acc.runs \cup {row.run} |->
                                IF r = row.run THEN Applied(run(r), row) ELSE run(r)],
                    !.pen = IF row.type = "prey_captured" THEN Append(@, row.id) ELSE @]

StepPast(acc, row, key) ==
    IF key <= acc.highWater THEN acc
    ELSE [Apply(acc, row) EXCEPT !.highWater = key]

\* Mutant: the dedup on the cursor of the run.
StepBySeq(acc, row) == StepPast(acc, row, row.seq + 1)

Step(acc, row) == StepPast(acc, row, row.id)

FoldFrom(acc, rows) == FoldLeft(Step, acc, rows)

Fold(rows) == FoldFrom(Accumulator, rows)

\* A bar: what is left of a budget, in its own unit; never negative.
Remaining(spent, ceiling) ==
    IF ceiling - spent > 0 THEN ceiling - spent ELSE 0

\* A territory's tile, from the outcome of its latest run.
TileState(outcome) ==
    CASE outcome = "none" -> "dormant"
      [] outcome = "open" -> "hunting"
      [] outcome = "completed" -> "fresh-kill"
      [] OTHER -> "cracked-earth"
=============================================================================
