------------------------------ MODULE HuntLoop ------------------------------
(***************************************************************************)
(* One hunt: loop._drive with _call_brain, _run_tool and the handlers of   *)
(* run_hunt, the adapter's stream (brain._drive_stream) and the projection *)
(* of the log into the next request (brain.project_messages).              *)
(*                                                                         *)
(* An append is one step here; HuntStore takes it apart, together with     *)
(* cancellation and failing statements.  Other hunts do not show: a hunt   *)
(* reads only its own events.                                              *)
(***************************************************************************)
EXTENDS StreamAssembler

CONSTANTS
    MaxIterations,  \* turns of a hunt
    RetryBudget,    \* retries after the first attempt, of a call or a tool
    CostCeiling,    \* spend at which no further call is made
    InputCost, OutputCost   \* price of a request and of its whole reply

ASSUME HuntLoopAssumption ==
    /\ DefaultArgs \subseteq Tools
    /\ Says \subseteq Seq(Tools \cup Reserved \cup {"unknown"})
    /\ Tools \cap (Reserved \cup {"unknown", ""}) = {}
    /\ MaxIterations \in Nat /\ RetryBudget \in Nat /\ MaxCatch \in Nat
    /\ CostCeiling \in Nat /\ InputCost \in Nat /\ OutputCost \in Nat

VARIABLES
    log,        \* the hunt's events
    pc,         \* plan, ask, stream, parse, act, execute, over
    turn,       \* iterations of _drive begun
    attempt,    \* attempts of the current brain call or tool
    request,    \* the messages of the latest brain call
    reply, fed, asm,    \* the reply on its way, its frames fed, the assembly
    decision,   \* what parse_decision made of it
    captured,   \* postings of the catch captured so far
    outcome     \* <<outcome, abort_reason>>, <<>> while the hunt runs

stream == <<reply, fed, asm>>
vars   == <<log, pc, turn, attempt, request, stream, decision, captured, outcome>>

Event == [type : {"thinking_delta", "prey_captured", "loop_error"}]
         \cup [type : {"usage"}, cost : Nat]
         \cup [type : {"tool_call"}, id : Nat, thinking : {"none", "verbatim", "damaged"}]
         \cup [type : {"tool_result"}, id : Nat]
         \cup [type : {"tool_error", "brain_error"}, retryable : BOOLEAN]

\* cost.fold_cost over the hunt's own events
Spend(l) == FoldLeft(LAMBDA sum, e : IF e.type = "usage" THEN sum + e.cost ELSE sum, 0, l)

CostOf(usage) == IF usage = "full" THEN InputCost + OutputCost ELSE InputCost

\* No reply is on its way.
NoReply == [thinking |-> FALSE, tools |-> <<>>, valid |-> TRUE, catch |-> 0,
            truncated |-> FALSE]

StreamOver == reply' = NoReply /\ fed' = 0 /\ asm' = NewAssembler

Init ==
    /\ log = <<>> /\ pc = "plan" /\ turn = 0 /\ attempt = 0
    /\ request = <<>>
    /\ reply = NoReply /\ fed = 0 /\ asm = NewAssembler
    /\ decision = [name |-> "", input |-> "empty", valid |-> FALSE, catch |-> 0,
                   usage |-> "none", thinking |-> "none"]
    /\ captured = 0 /\ outcome = <<>>

AppendEvent(e) == log' = Append(log, e)

End(o, reason) == pc' = "over" /\ outcome' = <<o, reason>>

-----------------------------------------------------------------------------
(* project_messages: the conversation a log stands for.                    *)

Message == [role : {"user", "assistant"}, part : {"seed", "tool_use", "tool_result", "is_error"},
            id : Nat, thinking : {"none", "verbatim", "damaged"}]

\* The errors Told(e) are answers to the model; the others leave no trace.
ProjectTelling(l, Told(_)) ==
    LET Msg(role, part, id, thinking) ==
            [role |-> role, part |-> part, id |-> id, thinking |-> thinking]
        Step(acc, e) ==
            CASE e.type = "tool_call" ->
                    [msgs |-> Append(acc.msgs, Msg("assistant", "tool_use", e.id, e.thinking)),
                     open |-> e.id]
              [] e.type = "tool_result" ->
                    [msgs |-> Append(acc.msgs, Msg("user", "tool_result", e.id, "none")),
                     open |-> 0]
              [] e.type = "tool_error" /\ Told(e) ->
                    [msgs |-> Append(acc.msgs, Msg("user", "is_error", acc.open, "none")),
                     open |-> 0]
              [] OTHER -> acc
    IN  FoldLeft(Step, [msgs |-> <<Msg("user", "seed", 0, "none")>>, open |-> 0], l).msgs

\* Mutant: retryable tool errors are told as well.
ProjectRetries(l) == ProjectTelling(l, LAMBDA e : TRUE)

Project(l) == ProjectTelling(l, LAMBDA e : ~e.retryable)

-----------------------------------------------------------------------------
(* The head of _drive's loop.                                              *)

Exhausted ==
    /\ pc = "plan" /\ turn = MaxIterations
    /\ End("aborted", "max iterations")
    /\ UNCHANGED <<log, turn, attempt, request, stream, decision, captured>>

TooDear ==
    /\ pc = "plan" /\ turn < MaxIterations
    /\ Spend(log) >= CostCeiling
    /\ End("aborted", "cost ceiling")
    /\ UNCHANGED <<log, turn, attempt, request, stream, decision, captured>>

PlanBelow(ceiling) ==
    /\ pc = "plan" /\ turn < MaxIterations
    /\ Spend(log) < ceiling
    /\ turn' = turn + 1 /\ attempt' = 1
    /\ request' = Project(log)
    /\ pc' = "ask"
    /\ UNCHANGED <<log, stream, decision, captured, outcome>>

\* Mutant: > for >= in the breaker.
PlanOverspends == PlanBelow(CostCeiling + 1)

Plan == PlanBelow(CostCeiling)

-----------------------------------------------------------------------------
(* _call_brain and the brains: the adapter's stream; the adapter without   *)
(* one, or a scripted brain, that answers in one piece.                    *)

\* The reply begins.
StreamOpens ==
    /\ pc = "ask"
    /\ \E r \in Replies : reply' = r
    /\ fed' = 0 /\ asm' = NewAssembler
    /\ pc' = "stream"
    /\ UNCHANGED <<log, turn, attempt, request, decision, captured, outcome>>

Answers ==
    /\ pc = "ask"
    /\ \E r \in Replies : \E usage \in {"none", "full"} :
          /\ ~r.truncated /\ ~r.thinking  \* no thinking without the stream
          /\ reply' = r
          /\ asm' = [Whole(r) EXCEPT !.usage = usage]
    /\ pc' = "parse"
    /\ UNCHANGED <<log, turn, attempt, request, fed, decision, captured, outcome>>

NextFrame == Frames(reply)[fed + 1]

\* One frame; a thinking delta goes to the sink, which appends it.
FeedFrame ==
    /\ pc = "stream" /\ fed < Len(Frames(reply))
    /\ ~StopRaises(asm, NextFrame)
    /\ asm' = Feed(asm, NextFrame)
    /\ fed' = fed + 1
    /\ IF NextFrame.type = "thinking_delta"
       THEN AppendEvent([type |-> "thinking_delta"]) ELSE UNCHANGED log
    /\ UNCHANGED <<pc, turn, attempt, request, reply, decision, captured, outcome>>

\* The body is over: after its last frame, or cleanly before it (an error
\* frame, which feed ignores, or a closed connection).
StreamEnds ==
    /\ pc = "stream"
    /\ pc' = "parse"
    /\ UNCHANGED <<log, turn, attempt, request, stream, decision, captured, outcome>>

CallFailsWithin(retries) ==
    /\ pc \in {"ask", "stream"}
    /\ \E retryable \in BOOLEAN :
          /\ retryable \/ pc = "ask"
          /\ AppendEvent([type |-> "brain_error", retryable |-> retryable])
          /\ IF retryable /\ attempt <= retries
             THEN pc' = "ask" /\ attempt' = attempt + 1 /\ UNCHANGED outcome
             ELSE End("aborted", "brain call failed") /\ UNCHANGED attempt
    /\ StreamOver
    /\ UNCHANGED <<turn, request, decision, captured>>

\* Mutants: a retry too few, one too many, and a broken stream opened again
\* at once.
CallFailsEarly == CallFailsWithin(RetryBudget - 1)

CallFailsOnceMore == CallFailsWithin(RetryBudget + 1)

CallFailsQuietly ==
    \/ pc = "ask" /\ CallFailsWithin(RetryBudget)
    \/ /\ pc = "stream" /\ pc' = "ask" /\ StreamOver
       /\ UNCHANGED <<log, turn, attempt, request, decision, captured, outcome>>

\* httpx raises: a status before the body, the transport at any time.
CallFails == CallFailsWithin(RetryBudget)

\* Any other exception of the brain goes to run_hunt's backstop: an event
\* that does not project, a frame or an input the stream leaves half.
BrainRaises ==
    /\ \/ pc = "ask"
       \/ pc = "stream" /\ fed < Len(Frames(reply))
    /\ AppendEvent([type |-> "loop_error"])
    /\ End("aborted", "unhandled exception in loop")
    /\ UNCHANGED <<turn, attempt, request, stream, decision, captured>>

\* BrainParseError, in run_hunt's clause for it.
ParseFails ==
    /\ pc = "parse" /\ Malformed(asm, reply)
    /\ AppendEvent([type |-> "brain_error", retryable |-> FALSE])
    /\ End("aborted", "malformed provider response")
    /\ UNCHANGED <<turn, attempt, request, stream, decision, captured>>

\* A decision, and its usage on the log before it is acted on.
Decide ==
    /\ pc = "parse" /\ ~Malformed(asm, reply)
    /\ decision' = Decision(asm, reply)
    /\ IF asm.usage = "none" THEN UNCHANGED log
       ELSE AppendEvent([type |-> "usage", cost |-> CostOf(asm.usage)])
    /\ captured' = 0
    /\ pc' = "act"
    /\ StreamOver
    /\ UNCHANGED <<turn, attempt, request, outcome>>

-----------------------------------------------------------------------------
(* _run_tool.  The provider's id of a tool_use is unique; turn stands for  *)
(* it.                                                                     *)

\* An unknown tool, or arguments its model rejects.
Refuse ==
    /\ pc = "act" /\ decision.name \notin Reserved
    /\ decision.name \notin Tools \/ ~decision.valid
    /\ AppendEvent([type |-> "tool_error", retryable |-> FALSE])
    /\ End("aborted", "tool failure")
    /\ UNCHANGED <<turn, attempt, request, stream, decision, captured>>

Dispatch ==
    /\ pc = "act" /\ decision.name \in Tools /\ decision.valid
    /\ AppendEvent([type |-> "tool_call", id |-> turn, thinking |-> decision.thinking])
    /\ attempt' = 1
    /\ pc' = "execute"
    /\ UNCHANGED <<turn, request, stream, decision, captured, outcome>>

ToolReturns ==
    /\ pc = "execute"
    /\ AppendEvent([type |-> "tool_result", id |-> turn])
    /\ pc' = "plan"
    /\ UNCHANGED <<turn, attempt, request, stream, decision, captured, outcome>>

ToolFailsUntil(GiveUp) ==
    /\ pc = "execute"
    /\ \E retryable \in BOOLEAN :
          /\ AppendEvent([type |-> "tool_error", retryable |-> retryable])
          /\ IF retryable /\ attempt <= RetryBudget
             THEN attempt' = attempt + 1 /\ UNCHANGED <<pc, outcome>>
             ELSE GiveUp /\ UNCHANGED attempt
    /\ UNCHANGED <<turn, request, stream, decision, captured>>

\* Mutant: an exhausted tool lets the hunt go on.
ToolFailsSoftly == ToolFailsUntil(pc' = "plan" /\ UNCHANGED outcome)

\* It raises, or its deadline passes: again within the budget, or abort.
ToolFails == ToolFailsUntil(End("aborted", "tool failure"))

-----------------------------------------------------------------------------
(* The terminal decisions.                                                 *)

CapturePrey ==
    /\ pc = "act" /\ decision.name = "hunt_complete" /\ captured < decision.catch
    /\ AppendEvent([type |-> "prey_captured"])
    /\ captured' = captured + 1
    /\ UNCHANGED <<pc, turn, attempt, request, stream, decision, outcome>>

Complete ==
    /\ pc = "act" /\ decision.name = "hunt_complete" /\ captured = decision.catch
    /\ End("completed", "")
    /\ UNCHANGED <<log, turn, attempt, request, stream, decision, captured>>

AskHelp ==
    /\ pc = "act" /\ decision.name = "needs_help"
    /\ End("needs_help", "")
    /\ UNCHANGED <<log, turn, attempt, request, stream, decision, captured>>

Next == \/ Exhausted \/ TooDear \/ Plan
        \/ StreamOpens \/ Answers \/ FeedFrame \/ StreamEnds
        \/ CallFails \/ BrainRaises \/ ParseFails \/ Decide
        \/ Refuse \/ Dispatch \/ ToolReturns \/ ToolFails
        \/ CapturePrey \/ Complete \/ AskHelp

Spec == Init /\ [][Next]_vars

(* The HTTP client's timeout ends every wait for the provider, max_tokens  *)
(* its reply, execute_once's deadline every tool: some step is taken.      *)
FairSpec == Spec /\ WF_vars(Next)

-----------------------------------------------------------------------------
(* Type invariant: the values every variable ranges over.                  *)
TypeOK ==
    /\ log \in Seq(Event)
    /\ pc \in {"plan", "ask", "stream", "parse", "act", "execute", "over"}
    /\ turn \in 0..MaxIterations /\ attempt \in 0..(RetryBudget + 1)
    /\ request \in Seq(Message)
    /\ reply \in Replies \cup {NoReply} /\ fed \in 0..Len(Frames(reply)) /\ asm \in Assembly
    /\ captured \in 0..MaxCatch
    /\ outcome = <<>> <=> pc # "over"

(* brain.project_messages: every request is a conversation the provider    *)
(* accepts.  It opens with the seed, the roles alternate, each tool_use is *)
(* answered at once under its own id, and by a result, never an error:     *)
(* retries, timeouts and telemetry leave no trace in it.                   *)
RequestWellFormed ==
    request # <<>> =>
        /\ request[1].part = "seed" /\ Len(request) % 2 = 1
        /\ \A i \in 2..Len(request) :
              IF i % 2 = 0
              THEN request[i].part = "tool_use" /\ request[i].id \notin {request[j].id : j \in 1..(i-1)}
              ELSE request[i].part = "tool_result" /\ request[i].id = request[i-1].id

(* _run_tool: a dispatched tool_use has one result on the log, later than  *)
(* its call, unless it is being executed or its failure aborted the hunt.  *)
ToolCalls == {i \in DOMAIN log : log[i].type = "tool_call"}

ResultsOf(i) == {j \in DOMAIN log : log[j].type = "tool_result" /\ log[j].id = log[i].id}

Answered ==
    \A i \in ToolCalls :
        /\ \A j \in ResultsOf(i) : j > i
        /\ \/ Cardinality(ResultsOf(i)) = 1
           \/ /\ ResultsOf(i) = {} /\ \A k \in ToolCalls : k <= i
              /\ pc = "execute" \/ outcome = <<"aborted", "tool failure">>

(* _drive's cost breaker: the recorded spend of a hunt stays below the     *)
(* ceiling plus the price of one call, over all turns and retries.  A call *)
(* whose stream broke or whose reply did not parse is billed and leaves no *)
(* UsageEvent; each such call left an error on the log, and the hunt made  *)
(* no more of them than the retries of its turns and a last one.           *)
SpendBounded ==
    /\ LET spent == Spend(log)
       IN  spent > 0 => spent < CostCeiling + InputCost + OutputCost
    /\ Cardinality({i \in DOMAIN log : log[i].type \in {"brain_error", "loop_error"}})
          <= RetryBudget * turn + 1

(* The outcome and reason of a finished hunt are what its log tells: the   *)
(* failure named is the last event, and a retryable one was retried as     *)
(* often as the budget allows; a failure that is not retried is the last   *)
(* event and is named; and only a hunt that ran its course has no reason.  *)
EndsWithErrors(type) ==
    LET n == Len(log)
    IN  /\ n > 0 /\ log[n].type = type
        /\ log[n].retryable =>
              Cardinality({i \in DOMAIN log : /\ log[i].type = type /\ log[i].retryable
                                              /\ \A j \in i..n : log[j].type \in {type, "thinking_delta"}})
              = RetryBudget + 1

Fatal(e) == \/ e.type = "loop_error"
            \/ e.type \in {"tool_error", "brain_error"} /\ ~e.retryable

FatalReasons == {"tool failure", "brain call failed", "malformed provider response",
                 "unhandled exception in loop"}

ReasonTold ==
    outcome # <<>> =>
        /\ CASE outcome[2] = "tool failure"      -> EndsWithErrors("tool_error")
             [] outcome[2] = "brain call failed" -> EndsWithErrors("brain_error")
             [] outcome[2] = "malformed provider response" ->
                   EndsWithErrors("brain_error") /\ ~log[Len(log)].retryable
             [] outcome[2] = "unhandled exception in loop" ->
                   log # <<>> /\ log[Len(log)].type = "loop_error"
             [] outcome[2] = "cost ceiling"      -> Spend(log) >= CostCeiling
             [] outcome[2] = "max iterations"    ->
                   Cardinality({i \in DOMAIN log : log[i].type = "tool_result"}) = MaxIterations
             [] OTHER -> outcome \in {<<"completed", "">>, <<"needs_help", "">>}
        /\ \A i \in DOMAIN log :
              Fatal(log[i]) => i = Len(log) /\ outcome[2] \in FatalReasons

(* adapter_brain_for, _extract_thinking_block: the thinking a tool call    *)
(* carries into every later request is the whole signed block or none,     *)
(* wherever its stream was cut, and its pieces were relayed before it.     *)
ThinkingVerbatim ==
    \A i \in ToolCalls :
        /\ log[i].thinking # "damaged"
        /\ log[i].thinking = "verbatim" =>
              \E j \in 1..(i - 1) :
                  /\ log[j].type = "thinking_delta"
                  /\ \A k \in (j + 1)..(i - 1) : log[k].type \notin {"tool_call", "tool_result"}

(* StreamAssembler, "a partial stream leaves the block un-dispatchable":   *)
(* a tool runs, and a hunt completes, only on a tool_use block that was    *)
(* complete when it was parsed.                                            *)
DispatchedWhole ==
    pc = "execute" \/ outcome = <<"completed", "">> => decision.input = "whole"

(* run_hunt with its two breakers: every hunt comes to a typed outcome.    *)
HuntEnds == <>(outcome # <<>>)
=============================================================================
