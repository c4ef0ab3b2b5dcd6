---------------------------- MODULE HuntLoopProofs ----------------------------
(***************************************************************************)
(* Theorems of HuntLoop and of HuntView, which folds its log, for every    *)
(* number of turns, retries and captures, every ceiling and price.  The    *)
(* inductive invariants follow a hunt: where it is and what it assembles   *)
(* (Control), that its requests are conversations the provider accepts     *)
(* (Conversing), which calls still wait for a result (Answering), what it  *)
(* has spent (Spending), how often it has tried (Retrying), that it        *)
(* survives no other failure (Surviving), what it has relayed of the       *)
(* thinking (Thinking), and what its card shows (Carding).                 *)
(***************************************************************************)
EXTENDS HuntView, FoldTheorems

(* cost.fold_cost, as the steps of a fold.                                 *)
Paid(sum, e) == IF e.type = "usage" THEN sum + e.cost ELSE sum

PaidStep == [p \in Nat \X Event |-> Paid(p[1], p[2])]

LEMMA PaidIsStep == /\ PaidStep \in [Nat \X Event -> Nat]
                    /\ \A sum \in Nat, e \in Event : PaidStep[<<sum, e>>] = Paid(sum, e)
<1>1. ASSUME NEW sum \in Nat, NEW e \in Event PROVE Paid(sum, e) \in Nat
  <2>1. e.type = "usage" => e.cost \in Nat
    BY DEF Event
  <2> QED BY <2>1 DEF Paid
<1> QED BY <1>1 DEF PaidStep

LEMMA SpendRuns ==
    ASSUME NEW l \in Seq(Event)
    PROVE  FoldsInto(Spend(l), Nat, 0, PaidStep, l)
<1> DEFINE Folds(g) == g = [s \in SUBSET DOMAIN l |->
                               IF s = {} THEN 0 ELSE Paid(g[s \ {Max(s)}], l[Max(s)])]
<1>0. PICK n \in Nat : Len(l) = n /\ DOMAIN l = 1..n /\ \A i \in 1..n : l[i] \in Event
  OBVIOUS
<1>1. \E g : Folds(g)
  <2>1. PICK g : Folded(g, n, Nat, Event, 0, PaidStep, l)
    BY <1>0, PaidIsStep, FoldValues
  <2>2. \A s \in SUBSET (1..n) : g[s] = IF s = {} THEN 0 ELSE Paid(g[s \ {Max(s)}], l[Max(s)])
    BY <2>1, PaidIsStep DEF Folded
  <2>3. Folds(g)
    BY <1>0, <2>1, <2>2 DEF Folded
  <2> QED BY <2>3
<1> DEFINE iter == CHOOSE g : Folds(g)
<1>2. Folds(iter)
  BY <1>1, Zenon
<1>3. Spend(l) = iter[DOMAIN l]
  BY DEF Spend, FoldLeft, MapThenFoldSet, Paid
<1> HIDE DEF iter
<1>4. iter[1..0] = 0
  BY <1>0, <1>2
<1>a. \A s \in SUBSET (1..n) : s # {} => iter[s] = Paid(iter[s \ {Max(s)}], l[Max(s)])
  BY <1>0, <1>2
<1> HIDE DEF Folds
<1>5. ASSUME NEW k \in 0..(n-1), iter[1..k] \in Nat
      PROVE  iter[1..(k+1)] = PaidStep[<<iter[1..k], l[k + 1]>>]
  <2>1. iter[1..(k+1)] = Paid(iter[1..k], l[k+1])
    <3>1. /\ 1..(k+1) \in SUBSET (1..n) /\ 1..(k+1) # {}
          /\ Max(1..(k+1)) = k + 1 /\ (1..(k+1)) \ {k + 1} = 1..k
      BY <1>0, NextPosition
    <3> QED BY <1>a, <3>1
  <2>2. l[k+1] \in Event
    BY <1>0
  <2> QED BY <1>5, <2>1, <2>2, PaidIsStep
<1>b. Steps(iter, n, Nat, 0, PaidStep, l)
  BY <1>4, <1>5 DEF Steps
<1>6. FoldsInto(iter[1..n], Nat, 0, PaidStep, l)
  BY <1>0, <1>b, PaidIsStep, FoldResult
<1> QED BY <1>0, <1>3, <1>6

LEMMA SpendAppend ==
    ASSUME NEW l \in Seq(Event), NEW e \in Event
    PROVE  Spend(Append(l, e)) = Paid(Spend(l), e)
<1>1. Append(l, e) \in Seq(Event)
  OBVIOUS
<1>2. /\ FoldsInto(Spend(l), Nat, 0, PaidStep, l)
      /\ FoldsInto(Spend(Append(l, e)), Nat, 0, PaidStep, Append(l, e))
  BY <1>1, SpendRuns
<1>3. Spend(l) \in Nat /\ Spend(Append(l, e)) = PaidStep[<<Spend(l), e>>]
  BY <1>2, FoldAppend
<1> QED BY <1>3, PaidIsStep

LEMMA SpendIsNat == \A l \in Seq(Event) : Spend(l) \in Nat
BY SpendRuns, FoldType

LEMMA SpendEmpty == Spend(<<>>) = 0
<1>1. <<>> \in Seq(Event)
  OBVIOUS
<1> QED BY <1>1, SpendRuns, FoldEmpty

(* project_messages, as the steps of a fold.                               *)
Conversation == [msgs : Seq(Message), open : Nat]

Msg(role, part, id, thinking) ==
    [role |-> role, part |-> part, id |-> id, thinking |-> thinking]

Opening == [msgs |-> <<Msg("user", "seed", 0, "none")>>, open |-> 0]

Told(acc, e) ==
    CASE e.type = "tool_call" ->
            [msgs |-> Append(acc.msgs, Msg("assistant", "tool_use", e.id, e.thinking)),
             open |-> e.id]
      [] e.type = "tool_result" ->
            [msgs |-> Append(acc.msgs, Msg("user", "tool_result", e.id, "none")), open |-> 0]
      [] e.type = "tool_error" /\ ~e.retryable ->
            [msgs |-> Append(acc.msgs, Msg("user", "is_error", acc.open, "none")), open |-> 0]
      [] OTHER -> acc

ToldStep == [p \in Conversation \X Event |-> Told(p[1], p[2])]

LEMMA OpeningType == Opening \in Conversation
<1>1. Msg("user", "seed", 0, "none") \in Message
  BY DEF Msg, Message
<1>2. <<Msg("user", "seed", 0, "none")>> \in Seq(Message)
  BY <1>1
<1> QED BY <1>2 DEF Opening, Conversation

LEMMA ToldType ==
    ASSUME NEW acc \in Conversation, NEW e \in Event
    PROVE  Told(acc, e) \in Conversation
<1>1. acc.msgs \in Seq(Message) /\ acc.open \in Nat
  BY DEF Conversation
<1>2. CASE e.type = "tool_call"
  <2>1. e.id \in Nat /\ e.thinking \in {"none", "verbatim", "damaged"}
    BY <1>2 DEF Event
  <2>2. Msg("assistant", "tool_use", e.id, e.thinking) \in Message
    BY <2>1 DEF Msg, Message
  <2>3. Append(acc.msgs, Msg("assistant", "tool_use", e.id, e.thinking)) \in Seq(Message)
    BY <1>1, <2>2
  <2> QED BY <1>2, <2>1, <2>3 DEF Told, Conversation
<1>3. CASE e.type = "tool_result"
  <2>1. e.id \in Nat
    BY <1>3 DEF Event
  <2>2. Msg("user", "tool_result", e.id, "none") \in Message
    BY <2>1 DEF Msg, Message
  <2>3. Append(acc.msgs, Msg("user", "tool_result", e.id, "none")) \in Seq(Message)
    BY <1>1, <2>2
  <2> QED BY <1>3, <2>3 DEF Told, Conversation
<1>4. CASE e.type = "tool_error" /\ ~e.retryable
  <2>2. Msg("user", "is_error", acc.open, "none") \in Message
    BY <1>1 DEF Msg, Message
  <2>3. Append(acc.msgs, Msg("user", "is_error", acc.open, "none")) \in Seq(Message)
    BY <1>1, <2>2
  <2> QED BY <1>4, <2>3 DEF Told, Conversation
<1>5. CASE e.type \notin {"tool_call", "tool_result"} /\ ~(e.type = "tool_error" /\ ~e.retryable)
  BY <1>5 DEF Told
<1> QED BY <1>2, <1>3, <1>4, <1>5

LEMMA ToldIsStep == /\ ToldStep \in [Conversation \X Event -> Conversation]
                    /\ \A acc \in Conversation, e \in Event :
                          ToldStep[<<acc, e>>] = Told(acc, e)
BY ToldType DEF ToldStep

LEMMA ProjectRuns ==
    ASSUME NEW l \in Seq(Event)
    PROVE  \E acc : /\ FoldsInto(acc, Conversation, Opening, ToldStep, l)
                    /\ Project(l) = acc.msgs
<1> DEFINE Folds(g) == g = [s \in SUBSET DOMAIN l |->
                               IF s = {} THEN Opening ELSE Told(g[s \ {Max(s)}], l[Max(s)])]
<1>0. PICK n \in Nat : Len(l) = n /\ DOMAIN l = 1..n /\ \A i \in 1..n : l[i] \in Event
  OBVIOUS
<1>1. \E g : Folds(g)
  <2>1. PICK g : Folded(g, n, Conversation, Event, Opening, ToldStep, l)
    BY <1>0, ToldIsStep, OpeningType, FoldValues
  <2>2. \A s \in SUBSET (1..n) : g[s] = IF s = {} THEN Opening ELSE Told(g[s \ {Max(s)}], l[Max(s)])
    BY <2>1, ToldIsStep DEF Folded
  <2>3. Folds(g)
    BY <1>0, <2>1, <2>2 DEF Folded
  <2> QED BY <2>3
<1> DEFINE iter == CHOOSE g : Folds(g)
<1>2. Folds(iter)
  BY <1>1, Zenon
<1>3. Project(l) = iter[DOMAIN l].msgs
  BY DEF Project, ProjectTelling, FoldLeft, MapThenFoldSet, Told, Opening, Msg
<1> HIDE DEF iter
<1>4. iter[1..0] = Opening
  BY <1>0, <1>2
<1>5. \A s \in SUBSET (1..n) : s # {} => iter[s] = Told(iter[s \ {Max(s)}], l[Max(s)])
  BY <1>0, <1>2
<1> HIDE DEF Folds
<1>6. ASSUME NEW k \in 0..(n-1), iter[1..k] \in Conversation
      PROVE  iter[1..(k+1)] = ToldStep[<<iter[1..k], l[k + 1]>>]
  <2>1. iter[1..(k+1)] = Told(iter[1..k], l[k+1])
    <3>1. /\ 1..(k+1) \in SUBSET (1..n) /\ 1..(k+1) # {}
          /\ Max(1..(k+1)) = k + 1 /\ (1..(k+1)) \ {k + 1} = 1..k
      BY <1>0, NextPosition
    <3> QED BY <1>5, <3>1
  <2>2. l[k+1] \in Event
    BY <1>0
  <2> QED BY <1>6, <2>1, <2>2, ToldIsStep
<1>7. Steps(iter, n, Conversation, Opening, ToldStep, l)
  BY <1>4, <1>6 DEF Steps
<1>8. FoldsInto(iter[1..n], Conversation, Opening, ToldStep, l)
  BY <1>0, <1>7, ToldIsStep, OpeningType, FoldResult
<1> QED BY <1>0, <1>3, <1>8

(* What an event adds to the conversation of a log.                        *)
LEMMA ProjectAppend ==
    ASSUME NEW l \in Seq(Event), NEW e \in Event
    PROVE  /\ Project(l) \in Seq(Message)
           /\ e.type = "tool_call" =>
                 Project(Append(l, e)) =
                    Append(Project(l), Msg("assistant", "tool_use", e.id, e.thinking))
           /\ e.type = "tool_result" =>
                 Project(Append(l, e)) =
                    Append(Project(l), Msg("user", "tool_result", e.id, "none"))
           /\ e.type \notin {"tool_call", "tool_result", "tool_error"} =>
                 Project(Append(l, e)) = Project(l)
           /\ e.type = "tool_error" /\ e.retryable => Project(Append(l, e)) = Project(l)
<1>1. Append(l, e) \in Seq(Event)
  OBVIOUS
<1>2. PICK acc : FoldsInto(acc, Conversation, Opening, ToldStep, l) /\ Project(l) = acc.msgs
  BY ProjectRuns
<1>3. PICK new : /\ FoldsInto(new, Conversation, Opening, ToldStep, Append(l, e))
                 /\ Project(Append(l, e)) = new.msgs
  BY <1>1, ProjectRuns
<1>4. acc \in Conversation /\ new = ToldStep[<<acc, e>>]
  BY <1>2, <1>3, FoldAppend
<1>5. new = Told(acc, e)
  BY <1>4, ToldIsStep
<1>6. Project(l) \in Seq(Message)
  BY <1>2, <1>4 DEF Conversation
<1> QED BY <1>2, <1>3, <1>5, <1>6 DEF Told

LEMMA ProjectEmpty == Project(<<>>) = <<Msg("user", "seed", 0, "none")>>
<1>1. <<>> \in Seq(Event)
  OBVIOUS
<1>2. PICK acc : FoldsInto(acc, Conversation, Opening, ToldStep, <<>>) /\ Project(<<>>) = acc.msgs
  BY <1>1, ProjectRuns
<1>3. acc = Opening
  BY <1>2, FoldEmpty
<1> QED BY <1>2, <1>3 DEF Opening

-----------------------------------------------------------------------------
(* The frames of a reply, by position.                                     *)

Names == Tools \cup Reserved \cup {"unknown", ""}

Frame == [type : {"message_start", "thinking_delta", "signature_delta", "input_json_delta",
                  "block_stop", "message_delta", "message_stop"}]
         \cup [type : {"block_start"}, block : {"thinking", "tool_use"}, name : Names]

LEMMA OneFrame ==
    ASSUME NEW f \in Frame
    PROVE  <<f>> \in Seq(Frame) /\ Len(<<f>>) = 1 /\ <<f>>[1] = f
OBVIOUS

\* A tool_use block with m deltas of its input.
AreToolFrames(tool, name, m) ==
    /\ tool \in Seq(Frame) /\ Len(tool) = m + 2
    /\ tool[1].type = "block_start" /\ tool[1].block = "tool_use" /\ tool[1].name = name
    /\ \A i \in 1..m : tool[1 + i].type = "input_json_delta"
    /\ tool[m + 2].type = "block_stop"

LEMMA ToolFramesAre ==
    ASSUME NEW name \in Names, NEW m \in Nat
    PROVE  AreToolFrames(ToolFrames(name, m), name, m)
<1> DEFINE open   == <<[type |-> "block_start", block |-> "tool_use", name |-> name]>>
           deltas == [i \in 1..m |-> [type |-> "input_json_delta"]]
           close  == <<[type |-> "block_stop"]>>
<1>1. open \in Seq(Frame) /\ Len(open) = 1 /\ open[1].type = "block_start"
      /\ open[1].block = "tool_use" /\ open[1].name = name
  <2>1. [type |-> "block_start", block |-> "tool_use", name |-> name] \in Frame
    BY DEF Frame
  <2> QED BY <2>1, OneFrame
<1>2. deltas \in Seq(Frame) /\ Len(deltas) = m /\ \A i \in 1..m : deltas[i].type = "input_json_delta"
  <2>1. [type |-> "input_json_delta"] \in Frame
    BY DEF Frame
  <2>2. deltas \in [1..m -> Frame]
    BY <2>1
  <2> QED BY <2>2
<1>3. close \in Seq(Frame) /\ Len(close) = 1 /\ close[1].type = "block_stop"
  <2>1. [type |-> "block_stop"] \in Frame
    BY DEF Frame
  <2> QED BY <2>1, OneFrame
<1>4. ToolFrames(name, m) = (open \o deltas) \o close
  BY DEF ToolFrames
<1> HIDE DEF open, deltas, close
<1>5. Glued(open \o deltas, Frame, open, 1, deltas, m)
  BY <1>1, <1>2, Concatenated
<1> DEFINE head == open \o deltas
<1>6. head \in Seq(Frame) /\ Len(head) = 1 + m
  BY <1>5 DEF Glued
<1>7. Glued(head \o close, Frame, head, 1 + m, close, 1)
  <2> HIDE DEF head
  <2> QED BY <1>3, <1>6, Concatenated
<1>8. head[1] = open[1] /\ \A i \in 1..m : head[1 + i] = deltas[i]
  BY <1>5 DEF Glued
<1> HIDE DEF head
<1>9. 1 \in 1..(1 + m) /\ (1 + m) + 1 = m + 2 /\ \A i \in 1..m : 1 + i \in 1..(1 + m)
  OBVIOUS
<1>10. /\ (head \o close)[1] = open[1]
       /\ \A i \in 1..m : (head \o close)[1 + i] = deltas[i]
       /\ (head \o close)[m + 2] = close[1]
       /\ Len(head \o close) = m + 2 /\ head \o close \in Seq(Frame)
  <2> DEFINE u == head \o close
  <2>1. Glued(u, Frame, head, 1 + m, close, 1)
    BY <1>7
  <2> HIDE DEF u
  <2>2. /\ u[1] = open[1]
        /\ \A i \in 1..m : u[1 + i] = deltas[i]
        /\ u[m + 2] = close[1]
        /\ Len(u) = m + 2 /\ u \in Seq(Frame)
    BY <2>1, <1>8, <1>9 DEF Glued
  <2> QED BY <2>2 DEF u
<1>11. ToolFrames(name, m) = head \o close
  BY <1>4 DEF head
<1> DEFINE tool == head \o close
<1> HIDE DEF tool
<1>12. /\ tool[1] = open[1]
       /\ \A i \in 1..m : tool[1 + i] = deltas[i]
       /\ tool[m + 2] = close[1]
       /\ Len(tool) = m + 2 /\ tool \in Seq(Frame)
  BY <1>10 DEF tool
<1>13. AreToolFrames(tool, name, m)
  BY <1>1, <1>2, <1>3, <1>12 DEF AreToolFrames
<1> QED BY <1>11, <1>13 DEF tool

LEMMA ThinkingFramesAre ==
    /\ ThinkingFrames \in Seq(Frame) /\ Len(ThinkingFrames) = 4
    /\ ThinkingFrames[1] = [type |-> "block_start", block |-> "thinking", name |-> ""]
    /\ ThinkingFrames[2].type = "thinking_delta"
    /\ ThinkingFrames[3].type = "signature_delta"
    /\ ThinkingFrames[4].type = "block_stop"
<1> DEFINE start  == [type |-> "block_start", block |-> "thinking", name |-> ""]
           open   == <<start>>
           deltas == [i \in 1..1 |-> [type |-> "thinking_delta"]]
           close  == <<[type |-> "signature_delta"], [type |-> "block_stop"]>>
<1>1. open \in Seq(Frame) /\ Len(open) = 1 /\ open[1] = start
  <2>1. start \in Frame
    BY DEF Frame, Names
  <2> QED BY <2>1, OneFrame
<1>2. deltas \in Seq(Frame) /\ Len(deltas) = 1 /\ deltas[1].type = "thinking_delta"
  <2>1. [type |-> "thinking_delta"] \in Frame
    BY DEF Frame
  <2>2. deltas \in [1..1 -> Frame]
    BY <2>1
  <2> QED BY <2>2
<1>3. close \in Seq(Frame) /\ Len(close) = 2
      /\ close[1].type = "signature_delta" /\ close[2].type = "block_stop"
  <2>1. [type |-> "signature_delta"] \in Frame /\ [type |-> "block_stop"] \in Frame
    BY DEF Frame
  <2> QED BY <2>1
<1>4. ThinkingFrames = (open \o deltas) \o close
  BY DEF ThinkingFrames, ThinkingPieces
<1> HIDE DEF open, deltas, close, start
<1>5. Glued(open \o deltas, Frame, open, 1, deltas, 1)
  BY <1>1, <1>2, Concatenated
<1> DEFINE head == open \o deltas
<1>6. head \in Seq(Frame) /\ Len(head) = 2 /\ head[1] = open[1] /\ head[2] = deltas[1]
  BY <1>5 DEF Glued
<1> HIDE DEF head
<1>7. Glued(head \o close, Frame, head, 2, close, 2)
  BY <1>3, <1>6, Concatenated
<1>8. Glued(ThinkingFrames, Frame, head, 2, close, 2)
  BY <1>4, <1>7 DEF head
<1>9. /\ ThinkingFrames \in Seq(Frame) /\ Len(ThinkingFrames) = 4
      /\ ThinkingFrames[1] = open[1] /\ ThinkingFrames[2] = deltas[1]
      /\ ThinkingFrames[3] = close[1] /\ ThinkingFrames[4] = close[2]
  BY <1>6, <1>8 DEF Glued
<1> QED BY <1>1, <1>2, <1>3, <1>9 DEF start

\* What is known of a reply: n tool_use blocks.
IsReply(r, n) ==
    /\ n \in Nat /\ Len(r.tools) = n /\ r.tools \in [1..n -> Names]
    /\ r.thinking \in BOOLEAN /\ r.truncated \in BOOLEAN /\ r.valid \in BOOLEAN
    /\ r.catch \in 0..MaxCatch
    /\ r.truncated => n = 1

LEMMA ReplyIs ==
    ASSUME NEW r \in Replies \cup {NoReply}
    PROVE  \E n : IsReply(r, n)
<1>1. CASE r \in Replies
  <2>1. r.tools \in Seq(Names)
    <3>1. r.tools \in Seq(Tools \cup Reserved \cup {"unknown"})
      BY <1>1, HuntLoopAssumption DEF Replies
    <3>2. Tools \cup Reserved \cup {"unknown"} \subseteq Names
      BY DEF Names
    <3> HIDE DEF Names
    <3> DEFINE Said == Tools \cup Reserved \cup {"unknown"}
    <3>3. r.tools \in Seq(Said) /\ Said \subseteq Names
      BY <3>1, <3>2
    <3> HIDE DEF Said
    <3> QED BY <3>3
  <2>2. /\ r.thinking \in BOOLEAN /\ r.truncated \in BOOLEAN /\ r.valid \in BOOLEAN
        /\ r.catch \in 0..MaxCatch
        /\ r.truncated => Len(r.tools) = 1
    BY <1>1 DEF Replies
  <2>3. Len(r.tools) \in Nat /\ r.tools \in [1..Len(r.tools) -> Names]
    BY <2>1
  <2>4. IsReply(r, Len(r.tools))
    BY <2>2, <2>3 DEF IsReply
  <2> QED BY <2>4
<1>2. CASE r = NoReply
  <2>1. MaxCatch \in Nat
    BY HuntLoopAssumption
  <2>2. r.tools = <<>> /\ Len(r.tools) = 0 /\ r.tools \in [1..0 -> Names]
    BY <1>2 DEF NoReply
  <2>3. IsReply(r, 0)
    BY <1>2, <2>1, <2>2 DEF IsReply, NoReply
  <2> QED BY <2>3
<1> QED BY <1>1, <1>2

\* The last frame before the tool_use blocks, and how many frames they have.
Head0(r)    == IF r.thinking THEN 5 ELSE 1
Body(r, n)  == IF r.truncated THEN 3 ELSE 4 * n

ThinkingFirst(f) ==
    /\ f[2] = [type |-> "block_start", block |-> "thinking", name |-> ""]
    /\ f[3].type = "thinking_delta" /\ f[4].type = "signature_delta"
    /\ f[5].type = "block_stop"

ToolsFrom(f, head, n) ==
    \A i \in 1..n :
        LET at == head + 4 * (i - 1)
        IN  /\ f[at + 1].type = "block_start" /\ f[at + 1].block = "tool_use"
            /\ f[at + 2].type = "input_json_delta" /\ f[at + 3].type = "input_json_delta"
            /\ f[at + 4].type = "block_stop"

HalfToolFrom(f, head) ==
    /\ f[head + 1].type = "block_start" /\ f[head + 1].block = "tool_use"
    /\ f[head + 2].type = "input_json_delta" /\ f[head + 3].type = "block_stop"

AreFrames(f, r, n) ==
    /\ f \in Seq(Frame) /\ Len(f) = Head0(r) + Body(r, n) + 2
    /\ f[1].type = "message_start"
    /\ r.thinking => ThinkingFirst(f)
    /\ ~r.truncated => ToolsFrom(f, Head0(r), n)
    /\ r.truncated => HalfToolFrom(f, Head0(r))
    /\ f[Head0(r) + Body(r, n) + 1].type = "message_delta"
    /\ f[Head0(r) + Body(r, n) + 2].type = "message_stop"

\* The frames of the tool_use blocks.
AreToolBlocks(u, r, n) ==
    /\ u \in Seq(Frame) /\ Len(u) = Body(r, n)
    /\ ~r.truncated => \A i \in 1..n :
          /\ u[4 * (i - 1) + 1].type = "block_start" /\ u[4 * (i - 1) + 1].block = "tool_use"
          /\ u[4 * (i - 1) + 1].name \in Names
          /\ u[4 * (i - 1) + 2].type = "input_json_delta"
          /\ u[4 * (i - 1) + 3].type = "input_json_delta"
          /\ u[4 * (i - 1) + 4].type = "block_stop"
    /\ r.truncated =>
          /\ u[1].type = "block_start" /\ u[1].block = "tool_use" /\ u[1].name \in Names
          /\ u[2].type = "input_json_delta" /\ u[3].type = "block_stop"

ToolBlocks(r) ==
    FlattenSeq([i \in 1..Len(r.tools) |->
        ToolFrames(r.tools[i],
                   IF r.truncated /\ i = Len(r.tools) THEN InputPieces - 1 ELSE InputPieces)])

LEMMA ToolBlocksAre ==
    ASSUME NEW r, NEW n, IsReply(r, n)
    PROVE  AreToolBlocks(ToolBlocks(r), r, n)
<1>0. /\ n \in Nat /\ Len(r.tools) = n /\ \A i \in 1..n : r.tools[i] \in Names
      /\ r.truncated \in BOOLEAN /\ r.truncated => n = 1
  BY DEF IsReply
<1>1. CASE ~r.truncated
  <2> DEFINE blocks == [i \in 1..n |-> ToolFrames(r.tools[i], 2)]
             u == FlattenSeq(blocks)
  <2>1. ToolBlocks(r) = u
    BY <1>0, <1>1 DEF ToolBlocks, InputPieces
  <2>2. ASSUME NEW i \in 1..n PROVE AreToolFrames(blocks[i], r.tools[i], 2)
    BY <1>0, ToolFramesAre
  <2>3. \A i \in 1..n : blocks[i] \in Seq(Frame) /\ Len(blocks[i]) = 4
    <3> HIDE DEF blocks
    <3> QED BY <2>2 DEF AreToolFrames
  <2>4. blocks \in [1..n -> Seq(Frame)]
    BY <2>3
  <2>5. /\ u \in Seq(Frame) /\ Len(u) = 4 * n
        /\ \A i \in 1..n : \A j \in 1..4 : u[4 * (i - 1) + j] = blocks[i][j]
    <3> HIDE DEF blocks
    <3>1. Fours(blocks, Frame, n)
      BY <2>3, <2>4 DEF Fours
    <3>2. FourByFour(u, Frame, n, blocks)
      BY <1>0, <3>1, FlattenFours
    <3> HIDE DEF u
    <3> QED BY <3>2 DEF FourByFour
  <2> HIDE DEF u, blocks
  <2>6. ASSUME NEW i \in 1..n
        PROVE  /\ u[4 * (i - 1) + 1].type = "block_start"
               /\ u[4 * (i - 1) + 1].block = "tool_use"
               /\ u[4 * (i - 1) + 1].name \in Names
               /\ u[4 * (i - 1) + 2].type = "input_json_delta"
               /\ u[4 * (i - 1) + 3].type = "input_json_delta"
               /\ u[4 * (i - 1) + 4].type = "block_stop"
    <3>1. /\ u[4 * (i - 1) + 1] = blocks[i][1] /\ u[4 * (i - 1) + 2] = blocks[i][2]
          /\ u[4 * (i - 1) + 3] = blocks[i][3] /\ u[4 * (i - 1) + 4] = blocks[i][4]
      BY <2>5
    <3> DEFINE b == blocks[i]
    <3>2. AreToolFrames(b, r.tools[i], 2)
      BY <2>2
    <3> HIDE DEF b
    <3>3. /\ b[1].type = "block_start" /\ b[1].block = "tool_use" /\ b[1].name \in Names
          /\ b[2].type = "input_json_delta" /\ b[3].type = "input_json_delta"
          /\ b[4].type = "block_stop"
      <4>1. 1 \in 1..2 /\ 2 \in 1..2 /\ 1 + 1 = 2 /\ 1 + 2 = 3 /\ 2 + 2 = 4
        OBVIOUS
      <4> QED BY <1>0, <3>2, <4>1 DEF AreToolFrames
    <3> QED BY <3>1, <3>3 DEF b
  <2>7. AreToolBlocks(u, r, n)
    BY <1>1, <2>5, <2>6 DEF AreToolBlocks, Body
  <2> QED BY <2>1, <2>7
<1>2. CASE r.truncated
  <2> DEFINE block  == ToolFrames(r.tools[1], 1)
             blocks == [i \in 1..1 |-> block]
  <2>1. ToolBlocks(r) = FlattenSeq(blocks)
    <3>1. \A i \in 1..1 : i = 1
      OBVIOUS
    <3> QED BY <1>0, <1>2, <3>1 DEF ToolBlocks, InputPieces
  <2>2. AreToolFrames(block, r.tools[1], 1)
    BY <1>0, <1>2, ToolFramesAre
  <2> HIDE DEF block
  <2>3. block \in Seq(Frame)
    BY <2>2 DEF AreToolFrames
  <2>4. FlattenSeq(blocks) = block
    <3>1. blocks \in [1..1 -> Seq(Frame)] /\ blocks[1] = block
      BY <2>3
    <3> HIDE DEF blocks
    <3> QED BY <3>1, FlattenOne
  <2>5. /\ block \in Seq(Frame) /\ Len(block) = 3
        /\ block[1].type = "block_start" /\ block[1].block = "tool_use" /\ block[1].name \in Names
        /\ block[2].type = "input_json_delta" /\ block[3].type = "block_stop"
    <3>1. 1 \in 1..1 /\ 1 + 1 = 2 /\ 1 + 2 = 3 /\ r.tools[1] \in Names
      BY <1>0, <1>2
    <3> QED BY <2>2, <3>1 DEF AreToolFrames
  <2>6. AreToolBlocks(block, r, n)
    BY <1>2, <2>5 DEF AreToolBlocks, Body
  <2> QED BY <2>1, <2>4, <2>6
<1> QED BY <1>0, <1>1, <1>2

LEMMA FramesAre ==
    ASSUME NEW r, NEW n, IsReply(r, n)
    PROVE  AreFrames(Frames(r), r, n)
<1> DEFINE start == <<[type |-> "message_start"]>>
           think == IF r.thinking THEN ThinkingFrames ELSE <<>>
           tail  == <<[type |-> "message_delta"], [type |-> "message_stop"]>>
<1>0. /\ n \in Nat /\ r.truncated \in BOOLEAN /\ r.thinking \in BOOLEAN
      /\ r.truncated => n = 1
  BY DEF IsReply
<1>1. PICK a : a = IF r.thinking THEN 4 ELSE 0
  OBVIOUS
<1>2. PICK b : b = Body(r, n)
  OBVIOUS
<1>3. a \in Nat /\ b \in Nat /\ Head0(r) = 1 + a
  BY <1>0, <1>1, <1>2 DEF Body, Head0
<1>4. start \in Seq(Frame) /\ Len(start) = 1 /\ start[1].type = "message_start"
  <2>1. [type |-> "message_start"] \in Frame
    BY DEF Frame
  <2> QED BY <2>1, OneFrame
<1>5. think \in Seq(Frame) /\ Len(think) = a
  <2>1. CASE r.thinking
    <3>1. think = ThinkingFrames /\ a = 4
      BY <1>1, <2>1
    <3> HIDE DEF think
    <3> QED BY <3>1, ThinkingFramesAre
  <2>2. CASE ~r.thinking
    BY <1>1, <2>2
  <2> QED BY <2>1, <2>2
<1>6. tail \in Seq(Frame) /\ Len(tail) = 2
      /\ tail[1].type = "message_delta" /\ tail[2].type = "message_stop"
  <2>1. [type |-> "message_delta"] \in Frame /\ [type |-> "message_stop"] \in Frame
    BY DEF Frame
  <2> QED BY <2>1
<1>7. PICK tools : tools = ToolBlocks(r)
  OBVIOUS
<1>8. tools \in Seq(Frame) /\ Len(tools) = b
  BY <1>2, <1>7, ToolBlocksAre DEF AreToolBlocks
<1>9. Frames(r) = ((start \o think) \o tools) \o tail
  BY <1>7 DEF Frames, ToolBlocks
<1>t. r.thinking => think = ThinkingFrames
  OBVIOUS
<1> HIDE DEF start, think, tail
<1>10. PICK u : u = start \o think
  OBVIOUS
<1>11. Glued(u, Frame, start, 1, think, a)
  BY <1>4, <1>5, <1>10, Concatenated
<1>12. u \in Seq(Frame) /\ Len(u) = 1 + a
  BY <1>11 DEF Glued
<1>13. PICK v : v = u \o tools
  OBVIOUS
<1>14. Glued(v, Frame, u, 1 + a, tools, b)
  BY <1>8, <1>12, <1>13, Concatenated
<1>15. v \in Seq(Frame) /\ Len(v) = 1 + a + b
  BY <1>14 DEF Glued
<1>16. PICK f : f = Frames(r)
  OBVIOUS
<1>17. Glued(f, Frame, v, 1 + a + b, tail, 2)
  BY <1>6, <1>9, <1>10, <1>13, <1>15, <1>16, Concatenated
<1>18. \A i \in 1..b : f[1 + a + i] = tools[i]
  <2> SUFFICES ASSUME NEW i \in 1..b PROVE f[1 + a + i] = tools[i]
    OBVIOUS
  <2>1. 1 + a + i \in 1..(1 + a + b)
    BY <1>3
  <2> QED BY <1>14, <1>17, <2>1 DEF Glued
<1>19. \A i \in 1..a : f[1 + i] = think[i]
  <2> SUFFICES ASSUME NEW i \in 1..a PROVE f[1 + i] = think[i]
    OBVIOUS
  <2>1. 1 + i \in 1..(1 + a + b) /\ 1 + i \in 1..(1 + a)
    BY <1>3
  <2> QED BY <1>11, <1>14, <1>17, <2>1 DEF Glued
<1>20. f[1] = start[1]
  <2>1. 1 \in 1..(1 + a + b) /\ 1 \in 1..(1 + a) /\ 1 \in 1..1
    BY <1>3
  <2> QED BY <1>11, <1>14, <1>17, <2>1 DEF Glued
<1>21. f[1 + a + b + 1] = tail[1] /\ f[1 + a + b + 2] = tail[2]
  BY <1>17 DEF Glued
<1>22. f \in Seq(Frame) /\ Len(f) = 1 + a + b + 2
  BY <1>17 DEF Glued
<1>23. r.thinking => /\ f[2] = think[1] /\ f[3] = think[2] /\ f[4] = think[3] /\ f[5] = think[4]
  <2> SUFFICES ASSUME a = 4
               PROVE  /\ f[2] = think[1] /\ f[3] = think[2] /\ f[4] = think[3] /\ f[5] = think[4]
    BY <1>1
  <2>1. f[1 + 1] = think[1] /\ f[1 + 2] = think[2] /\ f[1 + 3] = think[3] /\ f[1 + 4] = think[4]
    BY <1>19
  <2> QED BY <2>1
<1>24. ~r.truncated => \A i \in 1..n :
          /\ f[1 + a + 4 * (i - 1) + 1] = tools[4 * (i - 1) + 1]
          /\ f[1 + a + 4 * (i - 1) + 2] = tools[4 * (i - 1) + 2]
          /\ f[1 + a + 4 * (i - 1) + 3] = tools[4 * (i - 1) + 3]
          /\ f[1 + a + 4 * (i - 1) + 4] = tools[4 * (i - 1) + 4]
  <2> SUFFICES ASSUME b = 4 * n, NEW i \in 1..n
               PROVE  \A j \in 1..4 : f[1 + a + 4 * (i - 1) + j] = tools[4 * (i - 1) + j]
    BY <1>2 DEF Body
  <2> SUFFICES ASSUME NEW j \in 1..4
               PROVE  f[1 + a + 4 * (i - 1) + j] = tools[4 * (i - 1) + j]
    OBVIOUS
  <2>1. PICK x : x = 4 * (i - 1) + j
    OBVIOUS
  <2>2. x \in 1..b /\ 1 + a + 4 * (i - 1) + j = 1 + a + x
    BY <1>0, <1>3, <2>1
  <2> QED BY <1>18, <2>1, <2>2
<1>25. r.truncated => f[1 + a + 1] = tools[1] /\ f[1 + a + 2] = tools[2] /\ f[1 + a + 3] = tools[3]
  <2> SUFFICES ASSUME b = 3
               PROVE  f[1 + a + 1] = tools[1] /\ f[1 + a + 2] = tools[2] /\ f[1 + a + 3] = tools[3]
    BY <1>2 DEF Body
  <2> QED BY <1>18
<1>26. AreToolBlocks(tools, r, n)
  BY <1>7, ToolBlocksAre
<1>27. r.thinking => ThinkingFirst(f)
  BY <1>23, <1>t, ThinkingFramesAre DEF ThinkingFirst
<1>28. AreFrames(f, r, n)
  <2>1. ~r.truncated => ToolsFrom(f, Head0(r), n)
    BY <1>3, <1>24, <1>26 DEF AreToolBlocks, ToolsFrom
  <2>2. r.truncated => HalfToolFrom(f, Head0(r))
    BY <1>3, <1>25, <1>26 DEF AreToolBlocks, HalfToolFrom
  <2> QED BY <1>2, <1>3, <1>4, <1>6, <1>20, <1>21, <1>22, <1>27, <2>1, <2>2 DEF AreFrames
<1> QED BY <1>16, <1>28

-----------------------------------------------------------------------------
(* What the assembler makes of a frame, of any blocks.                     *)

PartBlock == [type : {"thinking", "tool_use"}, name : Names, text : Nat,
              signed : BOOLEAN, buf : Nat, input : {"empty", "whole"}]

Parts == [blocks : Seq(PartBlock), usage : {"none", "input", "full"}]

Started(frame) == [type |-> frame.block, name |-> frame.name, text |-> 0,
                   signed |-> FALSE, buf |-> 0, input |-> "empty"]

Grown(block, frame) ==
    CASE frame.type = "thinking_delta"   -> [block EXCEPT !.text = @ + 1]
      [] frame.type = "signature_delta"  -> [block EXCEPT !.signed = TRUE]
      [] frame.type = "input_json_delta" -> [block EXCEPT !.buf = @ + 1]
      [] frame.type = "block_stop"       -> Finalized(block)

Growing == {"thinking_delta", "signature_delta", "input_json_delta", "block_stop"}

\* u is s with x for its last element, the m-th.
Touched(u, A, s, m, x) ==
    /\ u \in Seq(A) /\ Len(u) = m
    /\ \A i \in 1..m : u[i] = IF i = m THEN x ELSE s[i]

LEMMA LastTouched ==
    ASSUME NEW A, NEW s \in Seq(A), NEW m, m = Len(s), m > 0, NEW x \in A
    PROVE  Touched([s EXCEPT ![m] = x], A, s, m, x)
<1>1. m \in Nat /\ s \in [1..m -> A]
  OBVIOUS
<1> DEFINE u == [s EXCEPT ![m] = x]
<1>2. u \in [1..m -> A] /\ \A i \in 1..m : u[i] = IF i = m THEN x ELSE s[i]
  BY <1>1
<1> HIDE DEF u
<1>3. u \in Seq(A) /\ Len(u) = m
  BY <1>1, <1>2
<1>4. Touched(u, A, s, m, x)
  BY <1>2, <1>3 DEF Touched
<1> QED BY <1>4 DEF u

LEMMA GrownType ==
    ASSUME NEW block \in PartBlock, NEW frame \in Frame, frame.type \in Growing
    PROVE  Grown(block, frame) \in PartBlock
<1>1. /\ block = [type |-> block.type, name |-> block.name, text |-> block.text,
                  signed |-> block.signed, buf |-> block.buf, input |-> block.input]
      /\ block.type \in {"thinking", "tool_use"} /\ block.name \in Names /\ block.text \in Nat
      /\ block.signed \in BOOLEAN /\ block.buf \in Nat /\ block.input \in {"empty", "whole"}
  BY DEF PartBlock
<1>2. CASE frame.type = "thinking_delta"
  <2>1. Grown(block, frame) = [block EXCEPT !.text = @ + 1]
    BY <1>2 DEF Grown
  <2> QED BY <1>1, <2>1 DEF PartBlock
<1>3. CASE frame.type = "signature_delta"
  <2>1. Grown(block, frame) = [block EXCEPT !.signed = TRUE]
    BY <1>3 DEF Grown
  <2> QED BY <1>1, <2>1 DEF PartBlock
<1>4. CASE frame.type = "input_json_delta"
  <2>1. Grown(block, frame) = [block EXCEPT !.buf = @ + 1]
    BY <1>4 DEF Grown
  <2> QED BY <1>1, <2>1 DEF PartBlock
<1>5. CASE frame.type = "block_stop"
  <2>1. Grown(block, frame) = Finalized(block)
    BY <1>5 DEF Grown
  <2>2. [block EXCEPT !.input = "whole"] \in PartBlock
    BY <1>1 DEF PartBlock
  <2> QED BY <2>1, <2>2 DEF Finalized
<1> QED BY <1>2, <1>3, <1>4, <1>5 DEF Growing

LEMMA StartedType ==
    ASSUME NEW frame \in Frame, frame.type = "block_start"
    PROVE  Started(frame) \in PartBlock
BY DEF Started, Frame, PartBlock

LEMMA FeedIs ==
    ASSUME NEW part \in Parts, NEW frame \in Frame, NEW m, m = Len(part.blocks)
    PROVE  /\ Feed(part, frame) \in Parts
           /\ frame.type \in {"message_start", "message_delta", "message_stop"} =>
                 Feed(part, frame).blocks = part.blocks
           /\ frame.type = "block_start" =>
                 Feed(part, frame).blocks = Append(part.blocks, Started(frame))
           /\ m > 0 /\ frame.type \in Growing =>
                 Touched(Feed(part, frame).blocks, PartBlock, part.blocks, m,
                         Grown(part.blocks[m], frame))
<1> DEFINE b == part.blocks
<1>0. m \in Nat /\ b \in Seq(PartBlock) /\ part.usage \in {"none", "input", "full"}
      /\ part = [blocks |-> b, usage |-> part.usage]
  BY DEF Parts
<1>1. CASE frame.type \in {"message_start", "message_delta", "message_stop"}
  <2>1. Feed(part, frame).blocks = b /\ Feed(part, frame) \in Parts
    BY <1>1 DEF Feed, Parts
  <2> QED BY <1>1, <2>1 DEF Growing
<1>2. CASE frame.type = "block_start"
  <2>1. Feed(part, frame) = [part EXCEPT !.blocks = Append(b, Started(frame))]
    BY <1>2 DEF Feed, Started
  <2>2. Append(b, Started(frame)) \in Seq(PartBlock)
    BY <1>0, <1>2, StartedType
  <2>3. /\ Feed(part, frame).blocks = Append(b, Started(frame))
        /\ Feed(part, frame) \in Parts
    BY <2>1, <2>2 DEF Parts
  <2> QED BY <1>2, <2>3 DEF Growing
<1>3. CASE frame.type \in Growing /\ m > 0
  <2>1. PICK x : x = Grown(b[m], frame)
    OBVIOUS
  <2>2. b[m] \in PartBlock
    BY <1>0, <1>3
  <2>3. x \in PartBlock
    BY <1>3, <2>1, <2>2, GrownType
  <2>4. Feed(part, frame) = [part EXCEPT !.blocks = [b EXCEPT ![m] = x]]
    BY <1>3, <2>1 DEF Feed, Grown, Growing
  <2>5. Touched([b EXCEPT ![m] = x], PartBlock, b, m, x)
    <3> HIDE DEF b
    <3> QED BY <1>0, <1>3, <2>3, LastTouched DEF b
  <2> DEFINE u == [b EXCEPT ![m] = x]
  <2>6. Touched(u, PartBlock, b, m, x) /\ u \in Seq(PartBlock)
    BY <2>5 DEF Touched
  <2>7. Feed(part, frame) = [part EXCEPT !.blocks = u]
    BY <2>4
  <2> HIDE DEF u, b
  <2>8. Feed(part, frame).blocks = u /\ Feed(part, frame) \in Parts
    BY <2>6, <2>7 DEF Parts
  <2> QED BY <1>3, <2>1, <2>6, <2>8 DEF b, Growing
<1>4. CASE frame.type \in Growing /\ ~(m > 0)
  <2>1. m = 0 /\ DOMAIN b = {} /\ b = <<>>
    BY <1>0, <1>4
  <2>a. PICK x : x = Grown(b[m], frame)
    OBVIOUS
  <2>b. Feed(part, frame) = [part EXCEPT !.blocks = [b EXCEPT ![m] = x]]
    BY <1>4, <2>a DEF Feed, Grown, Growing
  <2>c. [b EXCEPT ![m] = x] = b
    BY <2>1
  <2>d. Feed(part, frame) = [part EXCEPT !.blocks = b]
    BY <2>b, <2>c
  <2>2. Feed(part, frame) = part
    <3> HIDE DEF b
    <3> QED BY <1>0, <2>d
  <2> QED BY <1>4, <2>2 DEF Growing
<1>5. frame.type \in {"message_start", "message_delta", "message_stop", "block_start"} \cup Growing
  BY DEF Frame, Growing
<1> QED BY <1>1, <1>2, <1>3, <1>4, <1>5

-----------------------------------------------------------------------------
(* The assembly of the first k frames of a reply.                          *)

\* The thinking block comes first; it is whole before a tool_use opens.
Thinks(b, r, k) ==
    /\ k = 0 => Len(b) = 0
    /\ k <= Head0(r) => Len(b) = IF r.thinking /\ k >= 2 THEN 1 ELSE 0
    /\ r.thinking /\ k >= 2 =>
          /\ Len(b) >= 1 /\ b[1].type = "thinking"
          /\ b[1].text = IF k >= 3 THEN 1 ELSE 0
          /\ b[1].signed <=> k >= 4
    /\ \A i \in 1..Len(b) : b[i].type = "thinking" => i = 1 /\ r.thinking

\* The last block while frame j of a tool_use has been fed.
Uses(b, j) ==
    /\ Len(b) >= 1 /\ b[Len(b)].type = "tool_use"
    /\ b[Len(b)].buf = IF j = 1 THEN 0 ELSE IF j = 2 THEN 1 ELSE 2

Assembled(part, r, n, k) ==
    /\ part \in Parts
    /\ \A i \in 1..Len(part.blocks) : part.blocks[i].text <= 1 /\ part.blocks[i].buf <= 2
    /\ Thinks(part.blocks, r, k)
    /\ ~r.truncated => \A i \in 1..n : \A j \in 1..4 :
                          k = Head0(r) + 4 * (i - 1) + j => Uses(part.blocks, j)
    /\ r.truncated => \A j \in 1..2 : k = Head0(r) + j => Uses(part.blocks, j)

\* Frame k + 1: one of the thinking block, frame j of tool_use i, or neither.
InThinking(r, k) == r.thinking /\ k \in 1..4

InTool(r, n, k, i, j) ==
    IF r.truncated THEN i = 1 /\ j \in 1..3 /\ k = Head0(r) + j - 1
    ELSE i \in 1..n /\ j \in 1..4 /\ k = Head0(r) + 4 * (i - 1) + j - 1

InTools(r, n, k) == \E i, j : InTool(r, n, k, i, j)

LEMMA WhichFrame ==
    ASSUME NEW r, NEW n, IsReply(r, n),
           NEW k \in 0..(Head0(r) + Body(r, n) + 1)
    PROVE  \/ k = 0 \/ InThinking(r, k) \/ InTools(r, n, k)
           \/ k = Head0(r) + Body(r, n) \/ k = Head0(r) + Body(r, n) + 1
<1>0. /\ n \in Nat /\ r.truncated \in BOOLEAN /\ r.thinking \in BOOLEAN
      /\ k \in Nat /\ Head0(r) \in {1, 5} /\ (r.thinking <=> Head0(r) = 5)
  BY DEF IsReply, Head0, Body
<1>1. CASE k < Head0(r)
  BY <1>0, <1>1 DEF InThinking
<1>2. CASE k >= Head0(r) /\ k < Head0(r) + Body(r, n) /\ r.truncated
  <2>1. PICK j : j = k - Head0(r) + 1
    OBVIOUS
  <2>2. j \in 1..3 /\ k = Head0(r) + j - 1
    BY <1>0, <1>2, <2>1 DEF Body
  <2>3. InTool(r, n, k, 1, j)
    BY <1>2, <2>2 DEF InTool
  <2> QED BY <2>3 DEF InTools
<1>3. CASE k >= Head0(r) /\ k < Head0(r) + Body(r, n) /\ ~r.truncated
  <2>1. PICK x \in Nat : x = k - Head0(r)
    BY <1>0, <1>3
  <2>2. x < 4 * n
    BY <1>0, <1>3, <2>1 DEF Body
  <2>3. PICK q, d : q = x \div 4 /\ d = x % 4
    OBVIOUS
  <2>4. q \in Int /\ d \in 0..3 /\ x = 4 * q + d
    BY <2>3
  <2>5. q + 1 \in 1..n /\ d + 1 \in 1..4
    BY <1>0, <2>2, <2>4
  <2>6. k = Head0(r) + 4 * ((q + 1) - 1) + (d + 1) - 1
    BY <1>0, <2>1, <2>4
  <2>7. InTool(r, n, k, q + 1, d + 1)
    BY <1>3, <2>5, <2>6 DEF InTool
  <2> QED BY <2>7 DEF InTools
<1>4. CASE k >= Head0(r) + Body(r, n)
  <2>1. Body(r, n) \in Nat
    BY <1>0 DEF Body
  <2> QED BY <1>0, <1>4, <2>1
<1>5. Head0(r) + Body(r, n) \in Nat
  BY <1>0 DEF Body
<1> QED BY <1>0, <1>1, <1>2, <1>3, <1>4, <1>5

\* u is s with one element more.
Appended(u, A, s, m, x) ==
    /\ u \in Seq(A) /\ Len(u) = m + 1 /\ u[m + 1] = x
    /\ \A i \in 1..m : u[i] = s[i]

LEMMA OneMore ==
    ASSUME NEW A, NEW s \in Seq(A), NEW m, m = Len(s), NEW x \in A
    PROVE  Appended(Append(s, x), A, s, m, x)
BY DEF Appended

\* A frame that no block takes.
LEMMA StepOutside ==
    ASSUME NEW r, NEW n, IsReply(r, n), NEW k \in Nat,
           k = 0 \/ k >= Head0(r) + Body(r, n),
           NEW part, Assembled(part, r, n, k),
           NEW new \in Parts, new.blocks = part.blocks
    PROVE  Assembled(new, r, n, k + 1)
<1>0. /\ n \in Nat /\ r.truncated \in BOOLEAN /\ r.thinking \in BOOLEAN
      /\ Head0(r) \in {1, 5} /\ (r.thinking <=> Head0(r) = 5)
      /\ (r.truncated => Body(r, n) = 3) /\ (~r.truncated => Body(r, n) = 4 * n)
  BY DEF IsReply, Head0, Body
<1> DEFINE b == part.blocks
<1>1. Thinks(b, r, k)
  BY DEF Assembled
<1>2. Len(b) \in Nat
  BY DEF Assembled, Parts
<1>a. Body(r, n) \in Nat
  BY <1>0
<1> HIDE DEF b
<1>3. Thinks(b, r, k + 1)
  BY <1>0, <1>a, <1>1, <1>2 DEF Thinks
<1>4. ~r.truncated => \A i \in 1..n : \A j \in 1..4 : k + 1 # Head0(r) + 4 * (i - 1) + j
  BY <1>0
<1>5. r.truncated => \A j \in 1..2 : k + 1 # Head0(r) + j
  BY <1>0
<1>6. \A i \in 1..Len(new.blocks) : new.blocks[i].text <= 1 /\ new.blocks[i].buf <= 2
  BY DEF Assembled
<1> QED BY <1>3, <1>4, <1>5, <1>6 DEF Assembled, b

LEMMA StepThinking ==
    ASSUME NEW r, NEW n, IsReply(r, n), NEW k, InThinking(r, k),
           NEW f, AreFrames(f, r, n),
           NEW part, Assembled(part, r, n, k),
           NEW new, new = Feed(part, f[k + 1])
    PROVE  Assembled(new, r, n, k + 1)
<1>0. /\ n \in Nat /\ r.thinking /\ k \in 1..4 /\ Head0(r) = 5
      /\ (r.truncated => Body(r, n) = 3) /\ (~r.truncated => Body(r, n) = 4 * n)
  BY DEF IsReply, Head0, Body, InThinking
<1>1. k + 1 \in 1..Len(f) /\ f[k + 1] \in Frame
  <2>1. f \in Seq(Frame) /\ Len(f) = Head0(r) + Body(r, n) + 2
    BY DEF AreFrames
  <2>2. Body(r, n) \in Nat
    BY <1>0
  <2>3. k + 1 \in 1..Len(f)
    BY <1>0, <2>1, <2>2
  <2> QED BY <2>1, <2>3
<1>2. PICK frame \in Frame : frame = f[k + 1]
  BY <1>1
<1>3. PICK b : b = part.blocks
  OBVIOUS
<1>4. PICK m : m = Len(b)
  OBVIOUS
<1>5. PICK u : u = new.blocks
  OBVIOUS
<1>6. Thinks(b, r, k) /\ part \in Parts /\ b \in Seq(PartBlock) /\ m \in Nat
  BY <1>3, <1>4 DEF Assembled, Parts
<1>7. \A i \in 1..m : b[i].text <= 1 /\ b[i].buf <= 2
  BY <1>3, <1>4 DEF Assembled
<1>8. /\ new \in Parts
      /\ frame.type = "block_start" => Appended(u, PartBlock, b, m, Started(frame))
      /\ m > 0 /\ frame.type \in Growing => Touched(u, PartBlock, b, m, Grown(b[m], frame))
  <2>1. frame.type = "block_start" => Appended(Append(b, Started(frame)), PartBlock, b, m, Started(frame))
    BY <1>4, <1>6, StartedType, OneMore
  <2> QED BY <1>2, <1>3, <1>4, <1>5, <1>6, <2>1, FeedIs
<1>9. m = (IF k >= 2 THEN 1 ELSE 0) /\ \A i \in 1..m : i = 1
  BY <1>0, <1>4, <1>6 DEF Thinks
<1>f. ThinkingFirst(f)
  BY <1>0 DEF AreFrames
<1>10. Thinks(u, r, k + 1) /\ \A i \in 1..Len(u) : u[i].text <= 1 /\ u[i].buf <= 2
  <2>1. CASE k = 1
    <3>0. k + 1 = 2 /\ ~(k >= 2)
      BY <2>1
    <3>a. frame = f[2]
      BY <1>2, <3>0
    <3>1. frame.type = "block_start" /\ frame.block = "thinking"
      <4>1. frame = [type |-> "block_start", block |-> "thinking", name |-> ""]
        BY <1>f, <3>a, Zenon DEF ThinkingFirst
      <4> QED BY <4>1
    <3>2. Appended(u, PartBlock, b, m, Started(frame)) /\ m = 0
      BY <1>8, <1>9, <3>0, <3>1
    <3>3. Len(u) = 1 /\ u[1] = Started(frame)
      BY <3>2 DEF Appended
    <3>4. u[1].type = "thinking" /\ u[1].text = 0 /\ ~u[1].signed /\ u[1].buf = 0
      BY <3>1, <3>3 DEF Started
    <3>5. \A i \in 1..Len(u) : i = 1
      BY <3>3
    <3> QED BY <1>0, <2>1, <3>3, <3>4, <3>5 DEF Thinks
  <2>2. CASE k \in 2..4
    <3>a. k >= 2
      BY <2>2
    <3>b. m = 1
      BY <1>9, <3>a
    <3>0. m = 1 /\ b[1] \in PartBlock
      <4>1. b \in Seq(PartBlock) /\ 1 \in 1..Len(b)
        BY <1>4, <1>6, <3>b
      <4> QED BY <3>b, <4>1
    <3>1. /\ m = 1 /\ b[1].type = "thinking" /\ b[1] \in PartBlock
          /\ b[1].text = IF k >= 3 THEN 1 ELSE 0
          /\ b[1].signed <=> k >= 4
      BY <1>0, <1>6, <2>2, <3>0 DEF Thinks
    <3>2. frame.type = CASE k = 2 -> "thinking_delta" [] k = 3 -> "signature_delta"
                         [] OTHER -> "block_stop"
      <4>1. CASE k = 2
        <5>1. frame = f[3]
          BY <1>2, <4>1
        <5> QED BY <1>f, <4>1, <5>1 DEF ThinkingFirst
      <4>2. CASE k = 3
        <5>1. frame = f[4]
          BY <1>2, <4>2
        <5> QED BY <1>f, <4>2, <5>1 DEF ThinkingFirst
      <4>3. CASE k = 4
        <5>1. frame = f[5]
          BY <1>2, <4>3
        <5> QED BY <1>f, <4>3, <5>1 DEF ThinkingFirst
      <4> QED BY <2>2, <4>1, <4>2, <4>3
    <3>3. frame.type \in Growing
      BY <2>2, <3>2 DEF Growing
    <3>4. Touched(u, PartBlock, b, m, Grown(b[m], frame))
      BY <1>8, <3>1, <3>3
    <3>5. Len(u) = 1 /\ u[1] = Grown(b[1], frame)
      BY <3>1, <3>4 DEF Touched
    <3>6. /\ u[1].type = "thinking" /\ u[1].buf = b[1].buf
          /\ u[1].text = 1
          /\ u[1].signed <=> k + 1 >= 4
      <4>1. CASE k = 2
        BY <3>1, <3>2, <3>5, <4>1 DEF Grown, PartBlock
      <4>2. CASE k = 3
        BY <3>1, <3>2, <3>5, <4>2 DEF Grown, PartBlock
      <4>3. CASE k = 4
        BY <3>1, <3>2, <3>5, <4>3 DEF Grown, PartBlock, Finalized
      <4> QED BY <2>2, <4>1, <4>2, <4>3
    <3>7. \A i \in 1..Len(u) : i = 1
      BY <3>5
    <3>8. b[1].buf <= 2
      BY <1>7, <3>1
    <3> QED BY <1>0, <2>2, <3>5, <3>6, <3>7, <3>8 DEF Thinks
  <2> QED BY <1>0, <2>1, <2>2
<1>11. ~r.truncated => \A i \in 1..n : \A j \in 1..4 : k + 1 # Head0(r) + 4 * (i - 1) + j
  BY <1>0
<1>12. r.truncated => \A j \in 1..2 : k + 1 # Head0(r) + j
  BY <1>0
<1> QED BY <1>5, <1>8, <1>10, <1>11, <1>12 DEF Assembled

LEMMA NextPlace ==
    ASSUME NEW k \in Nat, NEW q \in Nat, NEW p \in Nat, NEW d \in 1..4, k = q + 4 * p + d - 1
    PROVE  k >= q /\ k + 1 = q + 4 * p + d
OBVIOUS

LEMMA FourApart ==
    ASSUME NEW p \in Nat, NEW q \in Nat, NEW i \in 1..4, NEW j \in 1..4, 4 * p + i = 4 * q + j
    PROVE  i = j
<1>1. CASE p = q
  BY <1>1
<1>2. CASE p # q
  BY <1>2
<1> QED BY <1>1, <1>2

LEMMA StepTool ==
    ASSUME NEW r, NEW n, IsReply(r, n), NEW k \in Nat, NEW h, NEW d, InTool(r, n, k, h, d),
           NEW f, AreFrames(f, r, n), k < Len(f),
           NEW part, Assembled(part, r, n, k),
           NEW new, new = Feed(part, f[k + 1])
    PROVE  Assembled(new, r, n, k + 1)
<1>0. /\ n \in Nat /\ r.truncated \in BOOLEAN /\ r.thinking \in BOOLEAN
      /\ Head0(r) \in {1, 5} /\ Head0(r) \in Nat /\ (r.thinking <=> Head0(r) = 5)
      /\ (r.truncated => n = 1)
  BY DEF IsReply, Head0
<1>1. f[k + 1] \in Frame
  <2>1. f \in Seq(Frame)
    BY DEF AreFrames
  <2>2. k + 1 \in 1..Len(f)
    BY <2>1
  <2> QED BY <2>1, <2>2
<1>2. PICK frame \in Frame : frame = f[k + 1]
  BY <1>1
<1>3. PICK b : b = part.blocks
  OBVIOUS
<1>4. PICK m : m = Len(b)
  OBVIOUS
<1>5. PICK u : u = new.blocks
  OBVIOUS
<1>6. Thinks(b, r, k) /\ part \in Parts /\ b \in Seq(PartBlock) /\ m \in Nat
  BY <1>3, <1>4 DEF Assembled, Parts
<1>7. \A i \in 1..m : b[i].text <= 1 /\ b[i].buf <= 2
  BY <1>3, <1>4 DEF Assembled
<1>8. /\ new \in Parts
      /\ frame.type = "block_start" => Appended(u, PartBlock, b, m, Started(frame))
      /\ m > 0 /\ frame.type \in Growing => Touched(u, PartBlock, b, m, Grown(b[m], frame))
  <2>1. frame.type = "block_start" => Appended(Append(b, Started(frame)), PartBlock, b, m, Started(frame))
    BY <1>4, <1>6, StartedType, OneMore
  <2> QED BY <1>2, <1>3, <1>4, <1>5, <1>6, <2>1, FeedIs
<1>9. /\ k >= Head0(r) /\ h \in 1..n /\ d \in 1..4 /\ (r.truncated => d \in 1..3)
      /\ k + 1 = Head0(r) + 4 * (h - 1) + d
  <2>1. CASE r.truncated
    <3>1. h = 1 /\ d \in 1..3 /\ k = Head0(r) + d - 1
      BY <2>1, Zenon DEF InTool
    <3>2. k >= Head0(r) /\ d \in 1..4 /\ k + 1 = Head0(r) + d
      BY <1>0, <3>1
    <3>3. h \in 1..n /\ 4 * (h - 1) = 0
      BY <1>0, <2>1, <3>1
    <3> QED BY <1>0, <3>1, <3>2, <3>3
  <2>2. CASE ~r.truncated
    <3>1. h \in 1..n /\ d \in 1..4 /\ k = Head0(r) + 4 * (h - 1) + d - 1
      BY <2>2, Zenon DEF InTool
    <3>2. PICK p \in Nat : p = h - 1
      BY <3>1
    <3>3. k = Head0(r) + 4 * p + d - 1
      BY <3>1, <3>2
    <3>4. PICK q \in Nat : q = Head0(r)
      BY <1>0
    <3>5. k = q + 4 * p + d - 1
      BY <3>3, <3>4
    <3>6. k >= q /\ k + 1 = q + 4 * p + d
      BY <3>1, <3>5, NextPlace
    <3>7. k >= Head0(r) /\ k + 1 = Head0(r) + 4 * (h - 1) + d
      BY <3>2, <3>4, <3>6
    <3> QED BY <2>2, <3>1, <3>7
  <2> QED BY <1>0, <2>1, <2>2
<1>10. /\ d = 1 => frame.type = "block_start" /\ frame.block = "tool_use"
       /\ d = 2 => frame.type = "input_json_delta"
       /\ d = 3 /\ ~r.truncated => frame.type = "input_json_delta"
       /\ d = 4 \/ (d = 3 /\ r.truncated) => frame.type = "block_stop"
  <2>1. CASE r.truncated
    <3>1. k + 1 = Head0(r) + d /\ d \in 1..3
      BY <1>0, <1>9, <2>1
    <3>2. /\ f[Head0(r) + 1].type = "block_start" /\ f[Head0(r) + 1].block = "tool_use"
          /\ f[Head0(r) + 2].type = "input_json_delta" /\ f[Head0(r) + 3].type = "block_stop"
      BY <2>1 DEF AreFrames, HalfToolFrom
    <3>3. frame = f[Head0(r) + d]
      BY <1>2, <3>1
    <3>4. d = 1 \/ d = 2 \/ d = 3
      BY <3>1
    <3>5. d # 4
      BY <3>1
    <3> QED BY <2>1, <3>2, <3>3, <3>5
  <2>2. CASE ~r.truncated
    <3>1. PICK at : at = Head0(r) + 4 * (h - 1)
      OBVIOUS
    <3>2. /\ f[at + 1].type = "block_start" /\ f[at + 1].block = "tool_use"
          /\ f[at + 2].type = "input_json_delta" /\ f[at + 3].type = "input_json_delta"
          /\ f[at + 4].type = "block_stop"
      <4>1. ToolsFrom(f, Head0(r), n)
        BY <2>2 DEF AreFrames
      <4> QED BY <1>9, <3>1, <4>1 DEF ToolsFrom
    <3>3. k + 1 = at + d
      BY <1>9, <3>1
    <3>4. frame = f[at + d]
      BY <1>2, <3>3
    <3>5. d = 1 \/ d = 2 \/ d = 3 \/ d = 4
      BY <1>9
    <3> QED BY <2>2, <3>2, <3>4
  <2> QED BY <1>0, <2>1, <2>2
<1>11. /\ Thinks(u, r, k + 1) /\ ((r.truncated /\ d = 3) \/ Uses(u, d))
       /\ \A i \in 1..Len(u) : u[i].text <= 1 /\ u[i].buf <= 2
  <2>0. k + 1 > Head0(r) /\ (r.thinking => k >= 2)
    BY <1>0, <1>9
  <2>1. CASE d = 1
    <3>a. frame.type = "block_start" /\ frame.block = "tool_use"
      BY <1>10, <2>1
    <3>1. Appended(u, PartBlock, b, m, Started(frame)) /\ frame.block = "tool_use"
      BY <1>8, <3>a
    <3>2. Len(u) = m + 1 /\ u[m + 1] = Started(frame) /\ \A i \in 1..m : u[i] = b[i]
      BY <3>1 DEF Appended
    <3>3. u[m + 1].type = "tool_use" /\ u[m + 1].buf = 0 /\ u[m + 1].text = 0
      BY <3>1, <3>2 DEF Started
    <3>4. \A i \in 1..Len(u) : i \in 1..m \/ i = m + 1
      BY <1>6, <3>2
    <3>5. \A i \in 1..Len(u) : u[i].text <= 1 /\ u[i].buf <= 2
      BY <1>7, <3>2, <3>3, <3>4
    <3>6. Uses(u, 1)
      BY <1>6, <3>2, <3>3 DEF Uses
    <3>7. r.thinking => /\ m >= 1 /\ b[1].type = "thinking" /\ u[1] = b[1]
                        /\ b[1].text = (IF k >= 3 THEN 1 ELSE 0) /\ (b[1].signed <=> k >= 4)
                        /\ k >= 5
      BY <1>0, <1>4, <1>6, <1>9, <2>0, <3>2 DEF Thinks
    <3>8. \A i \in 1..Len(u) : u[i].type = "thinking" => i = 1 /\ r.thinking
      BY <1>4, <1>6, <3>2, <3>3, <3>4 DEF Thinks
    <3>9. Thinks(u, r, k + 1)
      BY <1>0, <1>6, <2>0, <3>2, <3>7, <3>8 DEF Thinks
    <3> QED BY <2>1, <3>5, <3>6, <3>9
  <2>2. CASE d # 1
    <3>1. Uses(b, d - 1)
      <4>1. CASE r.truncated
        <5>1. d - 1 \in 1..2 /\ k = Head0(r) + (d - 1)
          BY <1>0, <1>9, <2>2, <4>1
        <5> QED BY <1>3, <4>1, <5>1 DEF Assembled
      <4>2. CASE ~r.truncated
        <5>1. d - 1 \in 1..4 /\ k = Head0(r) + 4 * (h - 1) + (d - 1)
          BY <1>0, <1>9, <2>2
        <5> QED BY <1>3, <1>9, <4>2, <5>1 DEF Assembled
      <4> QED BY <1>0, <4>1, <4>2
    <3>a. m > 0 /\ m \in 1..m /\ b[m] \in PartBlock
      BY <1>4, <1>6, <3>1 DEF Uses
    <3>2. /\ m > 0 /\ m \in 1..m /\ b[m].type = "tool_use" /\ b[m] \in PartBlock
          /\ b[m].buf = IF d = 2 THEN 0 ELSE IF d = 3 THEN 1 ELSE 2
      BY <1>4, <3>1, <3>a DEF Uses
    <3>3. frame.type \in {"input_json_delta", "block_stop"} /\ frame.type \in Growing
      <4>1. d = 2 \/ d = 3 \/ d = 4
        BY <1>9, <2>2
      <4> QED BY <1>0, <1>10, <4>1 DEF Growing
    <3>4. Touched(u, PartBlock, b, m, Grown(b[m], frame))
      BY <1>8, <3>2, <3>3
    <3>5. PICK x : x = Grown(b[m], frame)
      OBVIOUS
    <3>6. /\ x.type = "tool_use" /\ x.text = b[m].text
          /\ x.buf = IF frame.type = "block_stop" THEN b[m].buf ELSE b[m].buf + 1
      BY <3>2, <3>3, <3>5 DEF Grown, Finalized, PartBlock
    <3>7. Len(u) = m /\ \A i \in 1..m : u[i] = IF i = m THEN x ELSE b[i]
      BY <3>4, <3>5 DEF Touched
    <3>8. x.buf = IF d = 2 \/ (r.truncated /\ d = 3) THEN 1 ELSE 2
      <4>1. CASE d = 2
        BY <1>10, <3>2, <3>6, <4>1
      <4>2. CASE d = 3 /\ ~r.truncated
        BY <1>10, <3>2, <3>6, <4>2
      <4>3. CASE d = 3 /\ r.truncated
        BY <1>10, <3>2, <3>6, <4>3
      <4>4. CASE d = 4
        BY <1>10, <3>2, <3>6, <4>4
      <4> QED BY <1>0, <1>9, <2>2, <4>1, <4>2, <4>3, <4>4
    <3>9. (r.truncated /\ d = 3) \/ Uses(u, d)
      BY <2>2, <3>2, <3>6, <3>7, <3>8 DEF Uses
    <3>10. x.text <= 1 /\ x.buf <= 2
      BY <1>7, <1>9, <3>2, <3>6, <3>8
    <3>11. \A i \in 1..Len(u) : u[i].text <= 1 /\ u[i].buf <= 2
      BY <1>7, <3>7, <3>10
    <3>12. r.thinking => /\ m >= 1 /\ b[1].type = "thinking" /\ u[1] = b[1]
                         /\ b[1].text = (IF k >= 3 THEN 1 ELSE 0) /\ (b[1].signed <=> k >= 4)
                         /\ k >= 5
      BY <1>0, <1>4, <1>6, <1>9, <2>0, <3>2, <3>7 DEF Thinks
    <3>13. \A i \in 1..Len(u) : u[i].type = "thinking" => i = 1 /\ r.thinking
      BY <1>4, <1>6, <3>6, <3>7 DEF Thinks
    <3>14. Thinks(u, r, k + 1)
      BY <1>0, <1>6, <2>0, <3>2, <3>7, <3>12, <3>13 DEF Thinks
    <3> QED BY <3>9, <3>11, <3>14
  <2> QED BY <2>1, <2>2
<1>12. ~r.truncated => \A i \in 1..n : \A j \in 1..4 : k + 1 = Head0(r) + 4 * (i - 1) + j => j = d
  <2> SUFFICES ASSUME NEW i \in 1..n, NEW j \in 1..4, k + 1 = Head0(r) + 4 * (i - 1) + j
               PROVE  j = d
    OBVIOUS
  <2>1. PICK p \in Nat, q \in Nat : p = i - 1 /\ q = h - 1
    BY <1>0, <1>9
  <2>2. 4 * p + j = 4 * q + d
    BY <1>0, <1>9, <2>1
  <2> QED BY <1>9, <2>2, FourApart
<1>13. r.truncated => \A j \in 1..2 : k + 1 = Head0(r) + j => j = d
  <2> SUFFICES ASSUME r.truncated PROVE \A j \in 1..2 : k + 1 = Head0(r) + j => j = d
    OBVIOUS
  <2>1. h = 1
    BY <1>0, <1>9
  <2> QED BY <1>0, <1>9, <2>1
<1> QED BY <1>5, <1>8, <1>11, <1>12, <1>13 DEF Assembled

LEMMA AssembledNew ==
    ASSUME NEW r, NEW n, IsReply(r, n)
    PROVE  Assembled(NewAssembler, r, n, 0)
<1>1. NewAssembler \in Parts /\ NewAssembler.blocks = <<>> /\ Len(<<>>) = 0
  <2>1. <<>> \in Seq(PartBlock)
    OBVIOUS
  <2> QED BY <2>1 DEF NewAssembler, Parts
<1>2. n \in Nat /\ Head0(r) \in Nat /\ r.truncated \in BOOLEAN /\ Head0(r) >= 1
  BY DEF IsReply, Head0
<1>3. \A i \in 1..n : \A j \in 1..4 : 0 # Head0(r) + 4 * (i - 1) + j
  BY <1>2
<1>4. \A j \in 1..2 : 0 # Head0(r) + j
  BY <1>2
<1>5. Thinks(<<>>, r, 0)
  BY <1>1 DEF Thinks
<1>6. \A i \in 1..Len(<<>>) : FALSE
  OBVIOUS
<1> QED BY <1>1, <1>3, <1>4, <1>5, <1>6 DEF Assembled

LEMMA AssembledStep ==
    ASSUME NEW r, NEW n, IsReply(r, n), NEW f, AreFrames(f, r, n),
           NEW k \in Nat, k < Len(f),
           NEW part, Assembled(part, r, n, k)
    PROVE  Assembled(Feed(part, f[k + 1]), r, n, k + 1)
<1>0. /\ f \in Seq(Frame) /\ Len(f) = Head0(r) + Body(r, n) + 2
      /\ f[1].type = "message_start"
      /\ f[Head0(r) + Body(r, n) + 1].type = "message_delta"
      /\ f[Head0(r) + Body(r, n) + 2].type = "message_stop"
  BY DEF AreFrames
<1>1. PICK new : new = Feed(part, f[k + 1])
  OBVIOUS
<1>2. PICK frame : frame = f[k + 1]
  OBVIOUS
<1>3. frame \in Frame
  BY <1>0, <1>2
<1>4. PICK e \in Nat : e = Head0(r) + Body(r, n)
  BY DEF IsReply, Head0, Body
<1>5. k \in 0..(Head0(r) + Body(r, n) + 1)
  BY <1>0, <1>4
<1>6. CASE k = 0 \/ k = e \/ k = e + 1
  <2>1. frame.type \in {"message_start", "message_delta", "message_stop"}
    <3>1. CASE k = 0
      BY <1>0, <1>2, <3>1
    <3>2. CASE k = e
      BY <1>0, <1>2, <1>4, <3>2
    <3>3. CASE k = e + 1
      <4>1. k + 1 = e + 2
        BY <3>3
      <4> QED BY <1>0, <1>2, <1>4, <4>1
    <3> QED BY <1>6, <3>1, <3>2, <3>3
  <2>2. part \in Parts
    BY DEF Assembled
  <2>3. PICK m : m = Len(part.blocks)
    OBVIOUS
  <2>4. new \in Parts /\ new.blocks = part.blocks
    BY <1>1, <1>2, <1>3, <2>1, <2>2, <2>3, FeedIs
  <2>5. k = 0 \/ k >= Head0(r) + Body(r, n)
    BY <1>4, <1>6
  <2> QED BY <1>1, <2>4, <2>5, StepOutside
<1>7. CASE InThinking(r, k)
  BY <1>7, StepThinking
<1>8. CASE InTools(r, n, k)
  <2>1. PICK h, d : InTool(r, n, k, h, d)
    BY <1>8 DEF InTools
  <2> QED BY <2>1, StepTool
<1> QED BY <1>4, <1>5, <1>6, <1>7, <1>8, WhichFrame

\* A reply in one piece is the assembly of all its frames.
FeedStep == [p \in Parts \X Frame |-> Feed(p[1], p[2])]

LEMMA FeedIsStep == /\ FeedStep \in [Parts \X Frame -> Parts]
                    /\ \A part \in Parts, frame \in Frame :
                          FeedStep[<<part, frame>>] = Feed(part, frame)
<1>1. ASSUME NEW part \in Parts, NEW frame \in Frame PROVE Feed(part, frame) \in Parts
  <2>1. PICK m : m = Len(part.blocks)
    OBVIOUS
  <2> QED BY <2>1, FeedIs
<1> QED BY <1>1 DEF FeedStep

LEMMA WholeRuns ==
    ASSUME NEW r, Frames(r) \in Seq(Frame)
    PROVE  FoldsInto(Whole(r), Parts, NewAssembler, FeedStep, Frames(r))
<1>l. PICK l : l = Frames(r)
  OBVIOUS
<1>t. l \in Seq(Frame)
  BY <1>l
<1> DEFINE Folds(g) == g = [s \in SUBSET DOMAIN l |->
                               IF s = {} THEN NewAssembler ELSE Feed(g[s \ {Max(s)}], l[Max(s)])]
<1>0. PICK n \in Nat : Len(l) = n /\ DOMAIN l = 1..n /\ \A i \in 1..n : l[i] \in Frame
  BY <1>t
<1>n. NewAssembler \in Parts
  BY DEF NewAssembler, Parts
<1>1. \E g : Folds(g)
  <2>1. PICK g : Folded(g, n, Parts, Frame, NewAssembler, FeedStep, l)
    BY <1>t, <1>0, <1>n, FeedIsStep, FoldValues
  <2>2. \A s \in SUBSET (1..n) : g[s] = IF s = {} THEN NewAssembler ELSE Feed(g[s \ {Max(s)}], l[Max(s)])
    BY <2>1, FeedIsStep DEF Folded
  <2>3. Folds(g)
    BY <1>0, <2>1, <2>2 DEF Folded
  <2> QED BY <2>3
<1> DEFINE iter == CHOOSE g : Folds(g)
<1>2. Folds(iter)
  BY <1>1, Zenon
<1>3. Whole(r) = iter[DOMAIN l]
  BY <1>l DEF Whole, FoldLeft, MapThenFoldSet
<1> HIDE DEF iter
<1>4. iter[1..0] = NewAssembler
  BY <1>0, <1>2
<1>5. \A s \in SUBSET (1..n) : s # {} => iter[s] = Feed(iter[s \ {Max(s)}], l[Max(s)])
  BY <1>0, <1>2
<1> HIDE DEF Folds
<1>6. ASSUME NEW k \in 0..(n-1), iter[1..k] \in Parts
      PROVE  iter[1..(k+1)] = FeedStep[<<iter[1..k], l[k + 1]>>]
  <2>1. iter[1..(k+1)] = Feed(iter[1..k], l[k+1])
    <3>1. /\ 1..(k+1) \in SUBSET (1..n) /\ 1..(k+1) # {}
          /\ Max(1..(k+1)) = k + 1 /\ (1..(k+1)) \ {k + 1} = 1..k
      BY <1>0, NextPosition
    <3> QED BY <1>5, <3>1
  <2>2. l[k+1] \in Frame
    BY <1>0
  <2> QED BY <1>6, <2>1, <2>2, FeedIsStep
<1>7. Steps(iter, n, Parts, NewAssembler, FeedStep, l)
  BY <1>4, <1>6 DEF Steps
<1>8. FoldsInto(iter[1..n], Parts, NewAssembler, FeedStep, l)
  BY <1>t, <1>0, <1>7, <1>n, FeedIsStep, FoldResult
<1> QED BY <1>l, <1>0, <1>3, <1>8

LEMMA WholeAssembled ==
    ASSUME NEW r, NEW n, IsReply(r, n)
    PROVE  Assembled(Whole(r), r, n, Len(Frames(r)))
<1>1. PICK f : f = Frames(r)
  OBVIOUS
<1>2. AreFrames(f, r, n)
  BY <1>1, FramesAre
<1>3. f \in Seq(Frame)
  BY <1>2 DEF AreFrames
<1>4. PICK h : Running(h, Parts, NewAssembler, FeedStep, f) /\ h[Len(f)] = Whole(r)
  BY <1>1, <1>3, WholeRuns DEF FoldsInto
<1>5. PICK len \in Nat : len = Len(f)
  BY <1>3
<1> DEFINE S == {k \in Nat : k <= len => Assembled(h[k], r, n, k)}
<1>6. 0 \in S
  <2>1. h[0] = NewAssembler
    BY <1>4 DEF Running
  <2> QED BY <2>1, AssembledNew
<1>7. ASSUME NEW k \in S PROVE k + 1 \in S
  <2> SUFFICES ASSUME k + 1 <= len PROVE Assembled(h[k + 1], r, n, k + 1)
    OBVIOUS
  <2>1. k \in Nat /\ k < Len(f) /\ Assembled(h[k], r, n, k) /\ k \in 0..(Len(f) - 1)
    BY <1>5
  <2>2. h[k] \in Parts
    BY <2>1 DEF Assembled
  <2>3. k + 1 \in 1..Len(f)
    BY <1>5, <2>1
  <2>4. f[k + 1] \in Frame
    BY <1>3, <2>3
  <2>5. h[k + 1] = FeedStep[<<h[k], f[k + 1]>>]
    BY <1>4, <2>1 DEF Running
  <2>6. h[k + 1] = Feed(h[k], f[k + 1])
    BY <2>2, <2>4, <2>5, FeedIsStep
  <2> QED BY <1>2, <2>1, <2>6, AssembledStep
<1>8. S = Nat
  <2>1. S \in SUBSET Nat
    OBVIOUS
  <2> HIDE DEF S
  <2> QED BY <1>6, <1>7, <2>1, NatSetInduction
<1>9. Assembled(h[len], r, n, len)
  BY <1>5, <1>8
<1> QED BY <1>1, <1>4, <1>5, <1>9

-----------------------------------------------------------------------------
(* The inductive invariants of a hunt.                                     *)

Choice == [name : Names, input : {"empty", "whole"}, valid : BOOLEAN,
           catch : 0..MaxCatch, usage : {"none", "input", "full"},
           thinking : {"none", "verbatim", "damaged"}]

Calling == {"ask", "stream"}

(* The assembly is that of the frames fed, or of a whole reply that does   *)
(* not think.                                                              *)
Assembling ==
    pc \in {"stream", "parse"} =>
        \E k \in 0..Len(Frames(reply)) :
            /\ Assembled(asm, reply, Len(reply.tools), k)
            /\ pc = "stream" \/ reply.thinking => k = fed

Control ==
    /\ TypeOK
    /\ decision \in Choice
    /\ pc \notin {"plan", "over"} => turn >= 1
    /\ pc \in {"ask", "stream", "execute"} => attempt >= 1
    /\ pc = "act" => captured <= decision.catch
    /\ pc \notin {"stream", "parse", "over"} => fed = 0
    /\ Assembling

\* A conversation the provider accepts; its ids are those of turns before t.
Accepted(ms, t) ==
    /\ ms \in Seq(Message) /\ Len(ms) >= 1
    /\ ms[1].part = "seed" /\ Len(ms) % 2 = 1
    /\ \A i \in 2..Len(ms) :
          IF i % 2 = 0
          THEN ms[i].part = "tool_use" /\ ms[i].id \notin {ms[j].id : j \in 1..(i-1)}
          ELSE ms[i].part = "tool_result" /\ ms[i].id = ms[i-1].id
    /\ \A i \in 1..Len(ms) : ms[i].id < t

Asked(ms, t) == \E before, th : /\ Accepted(before, t)
                               /\ ms = Append(before, Msg("assistant", "tool_use", t, th))
                               /\ th \in {"none", "verbatim", "damaged"}

(* What the log projects to, between the turns and in one.                 *)
Conversing ==
    /\ request # <<>> => Accepted(request, turn)
    /\ pc = "plan" => Accepted(Project(log), turn + 1)
    /\ pc \in {"ask", "stream", "parse", "act"} => Accepted(Project(log), turn)
    /\ pc = "execute" => Asked(Project(log), turn)

CallsOf(l) == {i \in DOMAIN l : l[i].type = "tool_call"}

ResultsIn(l) == {i \in DOMAIN l : l[i].type = "tool_result"}

\* The ids on a log are those of turns up to t; each is used once.
Numbered(l, t) ==
    /\ \A i \in CallsOf(l) \cup ResultsIn(l) : l[i].id <= t
    /\ \A i, j \in CallsOf(l) : l[i].id = l[j].id => i = j

HasResult(l, i) == \E j \in ResultsIn(l) : /\ j > i /\ l[j].id = l[i].id
                                           /\ \A k \in ResultsIn(l) : l[k].id = l[i].id => k = j

NoResult(l, i) == \A k \in ResultsIn(l) : l[k].id # l[i].id

AllAnswered(l) == \A i \in CallsOf(l) : HasResult(l, i)

\* The call of turn t is the last one, and open; the others are answered.
LastOpen(l, t) ==
    \E i \in CallsOf(l) :
        /\ l[i].id = t /\ NoResult(l, i)
        /\ \A k \in CallsOf(l) : k # i => k < i /\ HasResult(l, k)

Answering ==
    /\ Numbered(log, turn)
    /\ pc \in {"ask", "stream", "parse", "act"} => Numbered(log, turn - 1)
    /\ IF pc = "execute" \/ outcome = <<"aborted", "tool failure">>
       THEN AllAnswered(log) \/ LastOpen(log, turn)
       ELSE AllAnswered(log)
    /\ pc = "execute" => LastOpen(log, turn)

Failures(l) == {i \in DOMAIN l : l[i].type \in {"brain_error", "loop_error"}}

Spending ==
    /\ SpendBounded
    /\ pc \in {"ask", "stream", "parse"} => Spend(log) < CostCeiling
    /\ pc \in {"ask", "stream"} =>
          Cardinality(Failures(log)) <= RetryBudget * (turn - 1) + (attempt - 1)
    /\ pc # "over" => Cardinality(Failures(log)) <= RetryBudget * turn

\* The retryable errors of a type that nothing but telemetry follows.
Recent(l, type) == {i \in DOMAIN l : /\ l[i].type = type /\ l[i].retryable
                                     /\ \A j \in i..Len(l) : l[j].type \in {type, "thinking_delta"}}

\* ReasonTold, the events before the last aside.
ReasonKept ==
    outcome # <<>> =>
        CASE outcome[2] = "tool failure"      -> EndsWithErrors("tool_error")
          [] outcome[2] = "brain call failed" -> EndsWithErrors("brain_error")
          [] outcome[2] = "malformed provider response" ->
                EndsWithErrors("brain_error") /\ ~log[Len(log)].retryable
          [] outcome[2] = "unhandled exception in loop" ->
                log # <<>> /\ log[Len(log)].type = "loop_error"
          [] outcome[2] = "cost ceiling"      -> Spend(log) >= CostCeiling
          [] outcome[2] = "max iterations"    ->
                Cardinality({i \in DOMAIN log : log[i].type = "tool_result"}) = MaxIterations
          [] OTHER -> outcome \in {<<"completed", "">>, <<"needs_help", "">>}

Retrying ==
    /\ pc = "plan" => log = <<>> \/ log[Len(log)].type = "tool_result"
    /\ pc \in {"ask", "stream"} => Cardinality(Recent(log, "brain_error")) = attempt - 1
    /\ pc = "execute" => Cardinality(Recent(log, "tool_error")) = attempt - 1
    /\ pc = "plan" => Cardinality(ResultsIn(log)) = turn
    /\ pc \in {"ask", "stream", "parse", "act", "execute"} =>
          Cardinality(ResultsIn(log)) = turn - 1
    /\ ReasonKept

\* Whatever failed for good ended the hunt, and gave the reason.
Unscathed(l) == \A i \in DOMAIN l : ~Fatal(l[i])

Surviving ==
    /\ pc # "over" => Unscathed(log)
    /\ outcome # <<>> => \A i \in DOMAIN log :
                            Fatal(log[i]) => i = Len(log) /\ outcome[2] \in FatalReasons

\* A piece of thinking was relayed since the last call and result.
Relayed(l) == \E j \in DOMAIN l :
                 /\ l[j].type = "thinking_delta"
                 /\ \A k \in (j + 1)..Len(l) : l[k].type \notin {"tool_call", "tool_result"}

Thinking ==
    /\ ThinkingVerbatim
    /\ pc \in {"stream", "parse"} /\ reply.thinking /\ fed >= 3 => Relayed(log)
    /\ pc = "act" => /\ decision.thinking # "damaged"
                     /\ decision.thinking = "verbatim" => Relayed(log)

LEMMA ReplyFrames ==
    ASSUME NEW r \in Replies \cup {NoReply}
    PROVE  /\ IsReply(r, Len(r.tools)) /\ AreFrames(Frames(r), r, Len(r.tools))
           /\ Frames(r) \in Seq(Frame) /\ Len(Frames(r)) \in Nat
<1>1. PICK n : IsReply(r, n)
  BY ReplyIs
<1>2. n = Len(r.tools)
  BY <1>1 DEF IsReply
<1>3. PICK f : f = Frames(r)
  OBVIOUS
<1>4. AreFrames(f, r, n)
  BY <1>1, <1>3, FramesAre
<1>5. f \in Seq(Frame)
  BY <1>4 DEF AreFrames
<1>6. Len(f) \in Nat
  BY <1>5
<1> QED BY <1>1, <1>2, <1>3, <1>4, <1>5, <1>6

LEMMA AssembledType ==
    ASSUME NEW part, NEW r, NEW n, NEW k, Assembled(part, r, n, k)
    PROVE  part \in Assembly
<1>1. PICK b : b = part.blocks
  OBVIOUS
<1>2. /\ b \in Seq(PartBlock) /\ part.usage \in {"none", "input", "full"}
      /\ part = [blocks |-> b, usage |-> part.usage]
      /\ \A i \in 1..Len(b) : b[i].text <= 1 /\ b[i].buf <= 2
  BY <1>1 DEF Assembled, Parts
<1>3. PICK m \in Nat : m = Len(b)
  BY <1>2
<1>4. ASSUME NEW i \in 1..m PROVE b[i] \in Block
  <2>1. b[i] \in PartBlock /\ b[i].text <= 1 /\ b[i].buf <= 2
    BY <1>2, <1>3
  <2>2. b[i].text \in Nat /\ b[i].buf \in Nat
    BY <2>1 DEF PartBlock
  <2>3. b[i].text \in 0..1 /\ b[i].buf \in 0..2
    BY <2>1, <2>2
  <2> QED BY <2>1, <2>3 DEF PartBlock, Block, ThinkingPieces, InputPieces, Names
<1>5. b \in [1..m -> Block]
  BY <1>2, <1>3, <1>4
<1>6. b \in Seq(Block)
  BY <1>3, <1>5
<1> QED BY <1>2, <1>6 DEF Assembly

LEMMA AssembledUsage ==
    ASSUME NEW part, NEW r, NEW n, NEW k, Assembled(part, r, n, k),
           NEW usage \in {"none", "full"}
    PROVE  Assembled([part EXCEPT !.usage = usage], r, n, k)
<1>1. PICK new : new = [part EXCEPT !.usage = usage]
  OBVIOUS
<1>2. new.blocks = part.blocks /\ new \in Parts
  BY <1>1 DEF Assembled, Parts
<1>3. Assembled(new, r, n, k)
  BY <1>2 DEF Assembled
<1> QED BY <1>1, <1>3

(* What parse_decision makes of a message it does not refuse.              *)
LEMMA DecisionIs ==
    ASSUME NEW r, NEW n, IsReply(r, n), NEW k \in Nat,
           NEW part, Assembled(part, r, n, k), ~Malformed(part, r)
    PROVE  /\ Decision(part, r) \in Choice
           /\ Decision(part, r).thinking # "damaged"
           /\ Decision(part, r).thinking = "verbatim" => r.thinking /\ k >= 3
<1>1. PICK b : b = part.blocks
  OBVIOUS
<1>2. b \in Seq(PartBlock) /\ part.usage \in {"none", "input", "full"} /\ Thinks(b, r, k)
  BY <1>1 DEF Assembled, Parts
<1>3. PICK m \in Nat : m = Len(b) /\ DOMAIN b = 1..m
  BY <1>2
<1>4. PICK i : i = CHOOSE j \in ToolUses(part) : TRUE
  OBVIOUS
<1>5. i \in 1..m /\ b[i].type = "tool_use" /\ b[i] \in PartBlock
  <2>1. ToolUses(part) # {}
    BY FS_EmptySet DEF Malformed
  <2>2. i \in ToolUses(part)
    BY <1>4, <2>1
  <2> QED BY <1>1, <1>2, <1>3, <2>2 DEF ToolUses, BlocksOf
<1>6. r.thinking \in BOOLEAN /\ r.valid \in BOOLEAN /\ r.catch \in 0..MaxCatch
  BY DEF IsReply
<1>7. k > Head0(r)
  <2>1. Head0(r) \in Nat
    BY DEF Head0
  <2> SUFFICES ASSUME k <= Head0(r) PROVE FALSE
    BY <2>1
  <2>2. m = IF r.thinking /\ k >= 2 THEN 1 ELSE 0
    BY <1>2, <1>3 DEF Thinks
  <2>3. i = 1 /\ r.thinking /\ k >= 2
    BY <1>5, <2>2
  <2> QED BY <1>2, <1>5, <2>3 DEF Thinks
<1>8. ThinkingOf(part) = IF r.thinking THEN "verbatim" ELSE "none"
  <2>1. CASE ~r.thinking
    <3>1. \A j \in 1..m : b[j].type # "thinking"
      BY <1>2, <1>3, <2>1 DEF Thinks
    <3>2. BlocksOf(part, "thinking") = {}
      BY <1>1, <1>3, <3>1 DEF BlocksOf
    <3> QED BY <2>1, <3>2 DEF ThinkingOf
  <2>2. CASE r.thinking
    <3>1. k >= 6
      BY <1>7, <2>2 DEF Head0
    <3>2. 1 \in 1..m /\ b[1].type = "thinking" /\ b[1].text = 1 /\ b[1].signed
      BY <1>2, <1>3, <2>2, <3>1 DEF Thinks
    <3>3. \A j \in 1..m : b[j].type = "thinking" => j = 1
      BY <1>2, <1>3 DEF Thinks
    <3>4. BlocksOf(part, "thinking") = {1}
      BY <1>1, <1>3, <3>2, <3>3 DEF BlocksOf
    <3>5. Min({1}) = 1
      BY DEF Min
    <3> QED BY <1>1, <2>2, <3>2, <3>4, <3>5 DEF ThinkingOf, ThinkingPieces
  <2> QED BY <1>6, <2>1, <2>2
<1>9. Decision(part, r) =
        [name |-> b[i].name, input |-> b[i].input,
         valid |-> IF b[i].input = "whole" THEN r.valid ELSE b[i].name \in DefaultArgs,
         catch |-> IF b[i].input = "whole" THEN r.catch ELSE 0,
         usage |-> part.usage, thinking |-> ThinkingOf(part)]
  BY <1>1, <1>4 DEF Decision
<1>10. 0 \in 0..MaxCatch
  <2>1. MaxCatch \in Nat
    BY HuntLoopAssumption
  <2> QED BY <2>1
<1>11. Decision(part, r) \in Choice
  <2>1. b[i].name \in Names /\ b[i].input \in {"empty", "whole"}
    BY <1>5 DEF PartBlock
  <2>2. PICK valid : valid = IF b[i].input = "whole" THEN r.valid ELSE b[i].name \in DefaultArgs
    OBVIOUS
  <2>3. valid \in BOOLEAN
    <3>1. CASE b[i].input = "whole"
      BY <1>6, <2>2, <3>1
    <3>2. CASE b[i].input # "whole"
      <4>1. valid = (b[i].name \in DefaultArgs)
        BY <2>2, <3>2
      <4>2. (b[i].name \in DefaultArgs) \in BOOLEAN
        OBVIOUS
      <4> QED BY <4>1, <4>2, Zenon
    <3> QED BY <3>1, <3>2
  <2>4. PICK catch : catch = IF b[i].input = "whole" THEN r.catch ELSE 0
    OBVIOUS
  <2>5. catch \in 0..MaxCatch
    BY <1>6, <1>10, <2>4
  <2>6. Decision(part, r) = [name |-> b[i].name, input |-> b[i].input, valid |-> valid,
                             catch |-> catch, usage |-> part.usage,
                             thinking |-> ThinkingOf(part)]
    BY <1>9, <2>2, <2>4
  <2> QED BY <1>2, <1>8, <2>1, <2>3, <2>5, <2>6 DEF Choice
<1>12. Decision(part, r).thinking = ThinkingOf(part)
  BY <1>9
<1>13. r.thinking => k >= 3
  BY <1>7 DEF Head0
<1> QED BY <1>6, <1>8, <1>11, <1>12, <1>13

-----------------------------------------------------------------------------
(* Control.                                                                *)

LEMMA Bounds ==
    /\ MaxIterations \in Nat /\ RetryBudget \in Nat /\ MaxCatch \in Nat
    /\ CostCeiling \in Nat /\ InputCost \in Nat /\ OutputCost \in Nat
BY HuntLoopAssumption

LEMMA EventTypes ==
    /\ [type |-> "thinking_delta"] \in Event
    /\ [type |-> "prey_captured"] \in Event
    /\ [type |-> "loop_error"] \in Event
    /\ \A retryable \in BOOLEAN :
          /\ [type |-> "brain_error", retryable |-> retryable] \in Event
          /\ [type |-> "tool_error", retryable |-> retryable] \in Event
    /\ \A cost \in Nat : [type |-> "usage", cost |-> cost] \in Event
    /\ \A id \in Nat : [type |-> "tool_result", id |-> id] \in Event
    /\ \A id \in Nat, thinking \in {"none", "verbatim", "damaged"} :
          [type |-> "tool_call", id |-> id, thinking |-> thinking] \in Event
BY DEF Event

LEMMA CostType == \A usage : CostOf(usage) \in Nat
BY Bounds DEF CostOf

LEMMA ProjectType == \A l \in Seq(Event) : Project(l) \in Seq(Message)
<1> SUFFICES ASSUME NEW l \in Seq(Event) PROVE Project(l) \in Seq(Message)
  OBVIOUS
<1>1. PICK acc : FoldsInto(acc, Conversation, Opening, ToldStep, l) /\ Project(l) = acc.msgs
  BY ProjectRuns
<1>2. acc \in Conversation
  BY <1>1, FoldType
<1> QED BY <1>1, <1>2 DEF Conversation

LEMMA NoReplyFrames == 0 \in 0..Len(Frames(NoReply)) /\ NewAssembler \in Assembly
<1>1. Len(Frames(NoReply)) \in Nat
  BY ReplyFrames
<1>2. <<>> \in Seq(Block)
  OBVIOUS
<1>3. NewAssembler \in Assembly
  BY <1>2 DEF NewAssembler, Assembly
<1> QED BY <1>1, <1>3

LEMMA InitControl == Init => Control
<1> SUFFICES ASSUME Init PROVE Control
  OBVIOUS
<1>1. /\ log = <<>> /\ pc = "plan" /\ turn = 0 /\ attempt = 0 /\ request = <<>>
      /\ reply = NoReply /\ fed = 0 /\ asm = NewAssembler
      /\ captured = 0 /\ outcome = <<>>
  BY DEF Init
<1>2. log \in Seq(Event) /\ request \in Seq(Message)
  BY <1>1
<1>3. turn \in 0..MaxIterations /\ attempt \in 0..(RetryBudget + 1) /\ captured \in 0..MaxCatch
  BY <1>1, Bounds
<1>4. reply \in Replies \cup {NoReply} /\ fed \in 0..Len(Frames(reply)) /\ asm \in Assembly
  BY <1>1, NoReplyFrames
<1>5. decision \in Choice
  <2>1. 0 \in 0..MaxCatch
    BY Bounds
  <2> QED BY <2>1 DEF Init, Choice, Names
<1> QED BY <1>1, <1>2, <1>3, <1>4, <1>5 DEF Control, TypeOK, Assembling

\* The stream is left alone and not read from.
LEMMA NotStreaming ==
    ASSUME Control, UNCHANGED stream
    PROVE  /\ reply' \in Replies \cup {NoReply} /\ fed' \in 0..Len(Frames(reply'))
           /\ asm' \in Assembly
BY DEF Control, TypeOK, stream

LEMMA StreamIsOver ==
    ASSUME StreamOver
    PROVE  /\ reply' \in Replies \cup {NoReply} /\ fed' \in 0..Len(Frames(reply'))
           /\ asm' \in Assembly
BY NoReplyFrames DEF StreamOver

LEMMA FedKept ==
    /\ StreamOver => fed' = 0
    /\ UNCHANGED stream => fed' = fed
BY DEF StreamOver, stream

LEMMA ControlStep ==
    ASSUME Control, [Next]_vars
    PROVE  Control'
<1>0. /\ log \in Seq(Event) /\ turn \in 0..MaxIterations /\ attempt \in 0..(RetryBudget + 1)
      /\ request \in Seq(Message) /\ captured \in 0..MaxCatch /\ decision \in Choice
      /\ decision.catch \in 0..MaxCatch
      /\ decision.thinking \in {"none", "verbatim", "damaged"}
      /\ outcome = <<>> <=> pc # "over"
  BY DEF Control, TypeOK, Choice
<1>1. /\ pc \notin {"plan", "over"} => turn >= 1
      /\ pc \in {"ask", "stream", "execute"} => attempt >= 1
      /\ pc = "act" => captured <= decision.catch
      /\ pc \notin {"stream", "parse", "over"} => fed = 0
  BY DEF Control
<1>e. \A o, reason : <<o, reason>> # <<>>
  OBVIOUS
<1>b. RetryBudget \in Nat /\ MaxIterations \in Nat /\ MaxCatch \in Nat
  BY Bounds
<1> DEFINE Kept == log' \in Seq(Event) /\ turn' \in 0..MaxIterations
                   /\ attempt' \in 0..(RetryBudget + 1) /\ request' \in Seq(Message)
                   /\ captured' \in 0..MaxCatch /\ decision' \in Choice
           Streamed == /\ reply' \in Replies \cup {NoReply} /\ fed' \in 0..Len(Frames(reply'))
                       /\ asm' \in Assembly
<1>c. ASSUME Kept, Streamed, Assembling',
             pc' \in {"plan", "ask", "stream", "parse", "act", "execute", "over"},
             outcome' = <<>> <=> pc' # "over",
             pc' \notin {"plan", "over"} => turn' >= 1,
             pc' \in {"ask", "stream", "execute"} => attempt' >= 1,
             pc' = "act" => captured' <= decision'.catch,
             pc' \notin {"stream", "parse", "over"} => fed' = 0
      PROVE  Control'
  BY <1>c DEF Control, TypeOK
<1>d. (pc' \notin {"stream", "parse"}) => Assembling'
  BY DEF Assembling
<1>2. CASE Exhausted \/ TooDear \/ Complete \/ AskHelp
  <2>1. /\ pc' = "over" /\ outcome' # <<>>
        /\ UNCHANGED <<log, turn, attempt, request, stream, decision, captured>>
    BY <1>2, <1>e DEF Exhausted, TooDear, Complete, AskHelp, End
  <2>2. Kept /\ Streamed
    BY <1>0, <2>1, NotStreaming
  <2> HIDE DEF Kept, Streamed
  <2> QED BY <1>c, <1>d, <2>1, <2>2
<1>3. CASE Plan
  <2>1. /\ pc' = "ask" /\ turn < MaxIterations /\ turn' = turn + 1 /\ attempt' = 1
        /\ request' = Project(log) /\ pc = "plan"
        /\ UNCHANGED <<log, stream, decision, captured, outcome>>
    BY <1>3 DEF Plan, PlanBelow
  <2>2. Kept /\ Streamed /\ turn' >= 1 /\ attempt' >= 1
    BY <1>0, <1>b, <2>1, NotStreaming, ProjectType
  <2> HIDE DEF Kept, Streamed
  <2> QED BY FedKept, <1>0, <1>1, <1>c, <1>d, <2>1, <2>2
<1>4. CASE StreamOpens
  <2>1. /\ pc = "ask" /\ pc' = "stream" /\ reply' \in Replies /\ fed' = 0 /\ asm' = NewAssembler
        /\ UNCHANGED <<log, turn, attempt, request, decision, captured, outcome>>
    BY <1>4 DEF StreamOpens
  <2>2. PICK r : r = reply' /\ r \in Replies \cup {NoReply}
    BY <2>1
  <2>3. IsReply(r, Len(r.tools)) /\ Len(Frames(r)) \in Nat
    BY <2>2, ReplyFrames
  <2>4. Assembled(NewAssembler, r, Len(r.tools), 0) /\ 0 \in 0..Len(Frames(r))
    BY <2>3, AssembledNew
  <2>5. Assembling'
    BY <2>1, <2>2, <2>4 DEF Assembling
  <2>6. Kept /\ Streamed
    BY <1>0, <2>1, <2>2, <2>4, NoReplyFrames
  <2> HIDE DEF Kept, Streamed
  <2> QED BY <1>0, <1>1, <1>c, <2>1, <2>5, <2>6
<1>5. CASE Answers
  <2>1. PICK r \in Replies, usage \in {"none", "full"} :
           /\ ~r.thinking /\ reply' = r /\ asm' = [Whole(r) EXCEPT !.usage = usage]
    BY <1>5 DEF Answers
  <2>2. /\ pc = "ask" /\ pc' = "parse" /\ fed' = fed
        /\ UNCHANGED <<log, turn, attempt, request, decision, captured, outcome>>
    BY <1>5 DEF Answers
  <2>3. IsReply(r, Len(r.tools)) /\ Len(Frames(r)) \in Nat
    BY <2>1, ReplyFrames
  <2>4. Assembled(Whole(r), r, Len(r.tools), Len(Frames(r)))
    BY <2>3, WholeAssembled
  <2>5. Assembled(asm', r, Len(r.tools), Len(Frames(r)))
    BY <2>1, <2>4, AssembledUsage
  <2>6. Len(Frames(r)) \in 0..Len(Frames(r))
    BY <2>3
  <2>7. Assembling'
    BY <2>1, <2>2, <2>5, <2>6 DEF Assembling
  <2>8. fed = 0
    BY <1>1, <2>2
  <2>9. asm' \in Assembly
    BY <2>5, AssembledType
  <2>10. Kept /\ Streamed
    BY <1>0, <2>1, <2>2, <2>3, <2>8, <2>9
  <2> HIDE DEF Kept, Streamed
  <2> QED BY <1>0, <1>1, <1>c, <2>2, <2>7, <2>10
<1>6. CASE FeedFrame
  <2>1. /\ pc = "stream" /\ fed < Len(Frames(reply))
        /\ asm' = Feed(asm, Frames(reply)[fed + 1]) /\ fed' = fed + 1
        /\ log' = log \/ log' = Append(log, [type |-> "thinking_delta"])
        /\ UNCHANGED <<pc, turn, attempt, request, reply, decision, captured, outcome>>
    BY <1>6 DEF FeedFrame, NextFrame, AppendEvent
  <2>2. PICK f : f = Frames(reply)
    OBVIOUS
  <2>3. PICK n : n = Len(reply.tools)
    OBVIOUS
  <2>4. /\ IsReply(reply, n) /\ AreFrames(f, reply, n) /\ Len(f) \in Nat
        /\ reply \in Replies \cup {NoReply}
    BY <2>2, <2>3, ReplyFrames DEF Control, TypeOK
  <2>5. Assembled(asm, reply, n, fed) /\ fed \in 0..Len(f)
    BY <2>1, <2>2, <2>3 DEF Control, TypeOK, Assembling
  <2>6. fed \in Nat /\ fed < Len(f) /\ fed + 1 \in 0..Len(f)
    BY <2>1, <2>2, <2>4, <2>5
  <2>7. Assembled(Feed(asm, f[fed + 1]), reply, n, fed + 1)
    BY <2>4, <2>5, <2>6, AssembledStep
  <2>8. Assembled(asm', reply', Len(reply'.tools), fed')
    BY <2>1, <2>2, <2>3, <2>7
  <2>9. Assembling'
    BY <2>1, <2>2, <2>6, <2>8 DEF Assembling
  <2>10. asm' \in Assembly
    BY <2>8, AssembledType
  <2>11. log' \in Seq(Event)
    <3>1. PICK e \in Event : e = [type |-> "thinking_delta"]
      BY EventTypes
    <3>2. Append(log, e) \in Seq(Event)
      BY <1>0
    <3> QED BY <1>0, <2>1, <3>1, <3>2
  <2>12. Kept /\ Streamed
    BY <1>0, <2>1, <2>2, <2>4, <2>6, <2>10, <2>11
  <2> HIDE DEF Kept, Streamed
  <2> QED BY <1>0, <1>1, <1>c, <2>1, <2>9, <2>12
<1>7. CASE StreamEnds
  <2>1. /\ pc = "stream" /\ pc' = "parse"
        /\ UNCHANGED <<log, turn, attempt, request, stream, decision, captured, outcome>>
    BY <1>7 DEF StreamEnds
  <2>2. Assembled(asm, reply, Len(reply.tools), fed) /\ fed \in 0..Len(Frames(reply))
    BY <2>1 DEF Control, TypeOK, Assembling
  <2>3. Assembling'
    BY <2>1, <2>2 DEF Assembling, stream
  <2>4. Kept /\ Streamed
    BY <1>0, <2>1, NotStreaming
  <2> HIDE DEF Kept, Streamed
  <2> QED BY <1>0, <1>1, <1>c, <2>1, <2>3, <2>4
<1>8. CASE CallFails
  <2>1. PICK retryable \in BOOLEAN :
           /\ log' = Append(log, [type |-> "brain_error", retryable |-> retryable])
           /\ IF retryable /\ attempt <= RetryBudget
              THEN pc' = "ask" /\ attempt' = attempt + 1 /\ UNCHANGED outcome
              ELSE End("aborted", "brain call failed") /\ UNCHANGED attempt
    BY <1>8 DEF CallFails, CallFailsWithin, AppendEvent
  <2>2. /\ pc \in {"ask", "stream"} /\ StreamOver
        /\ UNCHANGED <<turn, request, decision, captured>>
    BY <1>8 DEF CallFails, CallFailsWithin
  <2>3. log' \in Seq(Event)
    <3>1. PICK e \in Event : e = [type |-> "brain_error", retryable |-> retryable]
      BY EventTypes
    <3>2. Append(log, e) \in Seq(Event)
      BY <1>0
    <3> QED BY <1>0, <2>1, <3>1, <3>2
  <2>4. /\ attempt' \in 0..(RetryBudget + 1)
        /\ pc' = "ask" \/ pc' = "over"
        /\ pc' = "ask" => attempt' >= 1
        /\ outcome' = <<>> <=> pc' # "over"
    <3>1. CASE retryable /\ attempt <= RetryBudget
      <4>1. pc' = "ask" /\ attempt' = attempt + 1 /\ outcome' = outcome
        BY <2>1, <3>1
      <4> QED BY <1>0, <1>b, <2>2, <3>1, <4>1
    <3>2. CASE ~(retryable /\ attempt <= RetryBudget)
      <4>1. pc' = "over" /\ attempt' = attempt /\ outcome' = <<"aborted", "brain call failed">>
        BY <2>1, <3>2 DEF End
      <4>2. outcome' # <<>>
        BY <1>e, <4>1
      <4> QED BY <1>0, <4>1, <4>2
    <3> QED BY <3>1, <3>2
  <2>5. Kept /\ Streamed
    BY <1>0, <2>2, <2>3, <2>4, StreamIsOver
  <2> HIDE DEF Kept, Streamed
  <2> QED BY FedKept, <1>1, <1>c, <1>d, <2>2, <2>4, <2>5
<1>9. CASE BrainRaises \/ ParseFails \/ Refuse
  <2>1. /\ \E e \in Event : log' = Append(log, e)
        /\ pc' = "over" /\ outcome' # <<>>
        /\ UNCHANGED <<turn, attempt, request, stream, decision, captured>>
    BY <1>9, <1>e, EventTypes DEF BrainRaises, ParseFails, Refuse, End, AppendEvent
  <2>2. log' \in Seq(Event)
    BY <1>0, <2>1
  <2>3. Kept /\ Streamed
    BY <1>0, <2>1, <2>2, NotStreaming
  <2> HIDE DEF Kept, Streamed
  <2> QED BY <1>c, <1>d, <2>1, <2>3
<1>10. CASE Decide
  <2>1. /\ pc = "parse" /\ ~Malformed(asm, reply) /\ decision' = Decision(asm, reply)
        /\ log' = log \/ log' = Append(log, [type |-> "usage", cost |-> CostOf(asm.usage)])
        /\ captured' = 0 /\ pc' = "act" /\ StreamOver
        /\ UNCHANGED <<turn, attempt, request, outcome>>
    BY <1>10 DEF Decide, AppendEvent
  <2>2. PICK k \in 0..Len(Frames(reply)) : Assembled(asm, reply, Len(reply.tools), k)
    BY <2>1 DEF Control, Assembling
  <2>3. IsReply(reply, Len(reply.tools)) /\ k \in Nat
    BY <2>2, ReplyFrames DEF Control, TypeOK
  <2>4. decision' \in Choice
    BY <2>1, <2>2, <2>3, DecisionIs
  <2>5. decision'.catch \in 0..MaxCatch
    BY <2>4 DEF Choice
  <2>6. captured' <= decision'.catch
    BY <2>1, <2>5
  <2>7. log' \in Seq(Event)
    <3>1. PICK e \in Event : e = [type |-> "usage", cost |-> CostOf(asm.usage)]
      BY EventTypes, CostType
    <3>2. Append(log, e) \in Seq(Event)
      BY <1>0
    <3> QED BY <1>0, <2>1, <3>1, <3>2
  <2>8. Kept /\ Streamed
    BY <1>0, <1>b, <2>1, <2>4, <2>7, StreamIsOver
  <2> HIDE DEF Kept, Streamed
  <2> QED BY FedKept, <1>0, <1>1, <1>c, <1>d, <2>1, <2>6, <2>8
<1>11. CASE Dispatch
  <2>1. /\ pc = "act" /\ pc' = "execute" /\ attempt' = 1
        /\ log' = Append(log, [type |-> "tool_call", id |-> turn, thinking |-> decision.thinking])
        /\ UNCHANGED <<turn, request, stream, decision, captured, outcome>>
    BY <1>11 DEF Dispatch, AppendEvent
  <2>2. log' \in Seq(Event)
    <3>1. PICK e \in Event : e = [type |-> "tool_call", id |-> turn, thinking |-> decision.thinking]
      <4>1. turn \in Nat /\ decision.thinking \in {"none", "verbatim", "damaged"}
        BY <1>0
      <4> QED BY <4>1, EventTypes
    <3>2. Append(log, e) \in Seq(Event)
      BY <1>0
    <3> QED BY <1>0, <2>1, <3>1, <3>2
  <2>3. Kept /\ Streamed
    BY <1>0, <1>b, <2>1, <2>2, NotStreaming
  <2>9. fed' = 0 /\ outcome' = <<>> /\ turn' >= 1
    BY <1>0, <1>1, <2>1, FedKept
  <2> HIDE DEF Kept, Streamed
  <2> QED BY <2>9, <1>0, <1>c, <1>d, <2>1, <2>3
<1>12. CASE ToolReturns
  <2>1. /\ pc = "execute" /\ pc' = "plan"
        /\ log' = Append(log, [type |-> "tool_result", id |-> turn])
        /\ UNCHANGED <<turn, attempt, request, stream, decision, captured, outcome>>
    BY <1>12 DEF ToolReturns, AppendEvent
  <2>2. log' \in Seq(Event)
    <3>1. PICK e \in Event : e = [type |-> "tool_result", id |-> turn]
      <4>1. turn \in Nat /\ decision.thinking \in {"none", "verbatim", "damaged"}
        BY <1>0
      <4> QED BY <4>1, EventTypes
    <3>2. Append(log, e) \in Seq(Event)
      BY <1>0
    <3> QED BY <1>0, <2>1, <3>1, <3>2
  <2>3. Kept /\ Streamed
    BY <1>0, <2>1, <2>2, NotStreaming
  <2>9. fed' = 0 /\ outcome' = <<>> /\ turn' >= 1
    BY <1>0, <1>1, <2>1, FedKept
  <2> HIDE DEF Kept, Streamed
  <2> QED BY <2>9, <1>0, <1>c, <1>d, <2>1, <2>3
<1>13. CASE ToolFails
  <2>1. PICK retryable \in BOOLEAN :
           /\ log' = Append(log, [type |-> "tool_error", retryable |-> retryable])
           /\ IF retryable /\ attempt <= RetryBudget
              THEN attempt' = attempt + 1 /\ UNCHANGED <<pc, outcome>>
              ELSE End("aborted", "tool failure") /\ UNCHANGED attempt
    BY <1>13 DEF ToolFails, ToolFailsUntil, AppendEvent
  <2>2. /\ pc = "execute"
        /\ UNCHANGED <<turn, request, stream, decision, captured>>
    BY <1>13 DEF ToolFails, ToolFailsUntil
  <2>3. log' \in Seq(Event)
    <3>1. PICK e \in Event : e = [type |-> "tool_error", retryable |-> retryable]
      BY EventTypes
    <3>2. Append(log, e) \in Seq(Event)
      BY <1>0
    <3> QED BY <1>0, <2>1, <3>1, <3>2
  <2>4. /\ attempt' \in 0..(RetryBudget + 1)
        /\ pc' = "execute" \/ pc' = "over"
        /\ pc' = "execute" => attempt' >= 1
        /\ outcome' = <<>> <=> pc' # "over"
    <3>1. CASE retryable /\ attempt <= RetryBudget
      <4>1. pc' = pc /\ attempt' = attempt + 1 /\ outcome' = outcome
        BY <2>1, <3>1
      <4> QED BY <1>0, <1>b, <2>2, <3>1, <4>1
    <3>2. CASE ~(retryable /\ attempt <= RetryBudget)
      <4>1. pc' = "over" /\ attempt' = attempt /\ outcome' = <<"aborted", "tool failure">>
        BY <2>1, <3>2 DEF End
      <4>2. outcome' # <<>>
        BY <1>e, <4>1
      <4> QED BY <1>0, <4>1, <4>2
    <3> QED BY <3>1, <3>2
  <2>5. Kept /\ Streamed
    BY <1>0, <2>2, <2>3, <2>4, NotStreaming
  <2> HIDE DEF Kept, Streamed
  <2> QED BY FedKept, <1>1, <1>c, <1>d, <2>2, <2>4, <2>5
<1>14. CASE CapturePrey
  <2>1. /\ pc = "act" /\ captured < decision.catch /\ captured' = captured + 1
        /\ log' = Append(log, [type |-> "prey_captured"])
        /\ UNCHANGED <<pc, turn, attempt, request, stream, decision, outcome>>
    BY <1>14 DEF CapturePrey, AppendEvent
  <2>2. log' \in Seq(Event)
    <3>1. PICK e \in Event : e = [type |-> "prey_captured"]
      <4>1. turn \in Nat /\ decision.thinking \in {"none", "verbatim", "damaged"}
        BY <1>0
      <4> QED BY <4>1, EventTypes
    <3>2. Append(log, e) \in Seq(Event)
      BY <1>0
    <3> QED BY <1>0, <2>1, <3>1, <3>2
  <2>3. captured' \in 0..MaxCatch /\ captured' <= decision'.catch
    BY <1>0, <1>b, <2>1
  <2>4. Kept /\ Streamed
    BY <1>0, <2>1, <2>2, <2>3, NotStreaming
  <2>9. fed' = 0 /\ outcome' = <<>> /\ turn' >= 1
    BY <1>0, <1>1, <2>1, FedKept
  <2> HIDE DEF Kept, Streamed
  <2> QED BY <2>9, <1>0, <1>c, <1>d, <2>1, <2>3, <2>4
<1>15. CASE UNCHANGED vars
  BY <1>15 DEF vars, stream, Control, TypeOK, Assembling
<1> QED BY <1>2, <1>3, <1>4, <1>5, <1>6, <1>7, <1>8, <1>9, <1>10, <1>11, <1>12, <1>13,
           <1>14, <1>15 DEF Next

(* Where a hunt is in its loop, which bounds its counters keep there, and  *)
(* that what it assembles is what the provider sent so far.                *)
THEOREM ControlInvariant == Spec => []Control
<1>1. Init => Control
  BY InitControl
<1>2. Control /\ [Next]_vars => Control'
  BY ControlStep
<1> QED BY <1>1, <1>2, PTL DEF Spec

(* The values every variable of a hunt ranges over.                        *)
THEOREM HuntTypes == Spec => []TypeOK
<1>1. Control => TypeOK
  BY DEF Control
<1> QED BY <1>1, ControlInvariant, PTL

-----------------------------------------------------------------------------
(* The steps, by what they do to the log.                                  *)

InATurn == {"ask", "stream", "parse", "act"}

Untold == {"thinking_delta", "prey_captured", "loop_error", "usage", "tool_error", "brain_error"}

\* The log stays or gets an event of one of the types.
Grows(types) == log' = log \/ \E e \in Event : e.type \in types /\ log' = Append(log, e)

Ends == /\ pc # "over" /\ pc' = "over" /\ UNCHANGED <<turn, request>>
        /\ Grows(Untold)
        /\ pc = "execute" => outcome' = <<"aborted", "tool failure">>

TurnsOn == /\ pc \in InATurn /\ pc' \in InATurn
           /\ UNCHANGED <<turn, request, outcome>>
           /\ Grows({"thinking_delta", "brain_error", "usage", "prey_captured"})

RunsAgain == /\ pc = "execute" /\ pc' = "execute"
             /\ UNCHANGED <<turn, request, outcome>>
             /\ \E e \in Event : e.type = "tool_error" /\ e.retryable /\ log' = Append(log, e)

LEMMA StepKinds ==
    ASSUME Control, [Next]_vars
    PROVE  Ends \/ Plan \/ TurnsOn \/ Dispatch \/ RunsAgain \/ ToolReturns \/ UNCHANGED vars
<1>1. CASE Exhausted \/ TooDear \/ Complete \/ AskHelp
  BY <1>1 DEF Exhausted, TooDear, Complete, AskHelp, End, Ends, Grows
<1>2. CASE BrainRaises
  <2>1. PICK e \in Event : e = [type |-> "loop_error"]
    BY EventTypes
  <2>2. e.type \in Untold
    BY <2>1 DEF Untold
  <2> QED BY <1>2, <2>1, <2>2 DEF BrainRaises, AppendEvent, End, Ends, Grows
<1>3. CASE ParseFails
  <2>1. PICK e \in Event : e = [type |-> "brain_error", retryable |-> FALSE]
    BY EventTypes
  <2>2. e.type \in Untold
    BY <2>1 DEF Untold
  <2> QED BY <1>3, <2>1, <2>2 DEF ParseFails, AppendEvent, End, Ends, Grows
<1>4. CASE Refuse
  <2>1. PICK e \in Event : e = [type |-> "tool_error", retryable |-> FALSE]
    BY EventTypes
  <2>2. e.type \in Untold
    BY <2>1 DEF Untold
  <2> QED BY <1>4, <2>1, <2>2 DEF Refuse, AppendEvent, End, Ends, Grows
<1>5. CASE CallFails
  <2>1. PICK retryable \in BOOLEAN :
           /\ log' = Append(log, [type |-> "brain_error", retryable |-> retryable])
           /\ IF retryable /\ attempt <= RetryBudget
              THEN pc' = "ask" /\ attempt' = attempt + 1 /\ UNCHANGED outcome
              ELSE End("aborted", "brain call failed") /\ UNCHANGED attempt
    BY <1>5 DEF CallFails, CallFailsWithin, AppendEvent
  <2>2. pc \in {"ask", "stream"} /\ UNCHANGED <<turn, request>>
    BY <1>5 DEF CallFails, CallFailsWithin
  <2>3. PICK e \in Event : e = [type |-> "brain_error", retryable |-> retryable]
    BY EventTypes
  <2>4. e.type = "brain_error"
    BY <2>3
  <2>5. CASE retryable /\ attempt <= RetryBudget
    BY <2>1, <2>2, <2>3, <2>4, <2>5 DEF TurnsOn, InATurn, Grows
  <2>6. CASE ~(retryable /\ attempt <= RetryBudget)
    BY <2>1, <2>2, <2>3, <2>4, <2>6 DEF Ends, End, Untold, Grows
  <2> QED BY <2>5, <2>6
<1>6. CASE StreamOpens \/ Answers \/ StreamEnds
  BY <1>6 DEF StreamOpens, Answers, StreamEnds, TurnsOn, InATurn, Grows
<1>7. CASE FeedFrame
  <2>1. PICK e \in Event : e = [type |-> "thinking_delta"]
    BY EventTypes
  <2>2. e.type = "thinking_delta"
    BY <2>1
  <2> QED BY <1>7, <2>1, <2>2 DEF FeedFrame, AppendEvent, TurnsOn, InATurn, Grows
<1>8. CASE Decide
  <2>1. PICK e \in Event : e = [type |-> "usage", cost |-> CostOf(asm.usage)]
    BY EventTypes, CostType
  <2>2. e.type = "usage"
    BY <2>1
  <2> QED BY <1>8, <2>1, <2>2 DEF Decide, AppendEvent, TurnsOn, InATurn, Grows
<1>9. CASE CapturePrey
  <2>1. PICK e \in Event : e = [type |-> "prey_captured"]
    BY EventTypes
  <2>2. e.type = "prey_captured"
    BY <2>1
  <2> QED BY <1>9, <2>1, <2>2 DEF CapturePrey, AppendEvent, TurnsOn, InATurn, Grows
<1>10. CASE ToolFails
  <2>1. PICK retryable \in BOOLEAN :
           /\ log' = Append(log, [type |-> "tool_error", retryable |-> retryable])
           /\ IF retryable /\ attempt <= RetryBudget
              THEN attempt' = attempt + 1 /\ UNCHANGED <<pc, outcome>>
              ELSE End("aborted", "tool failure") /\ UNCHANGED attempt
    BY <1>10 DEF ToolFails, ToolFailsUntil, AppendEvent
  <2>2. pc = "execute" /\ UNCHANGED <<turn, request>>
    BY <1>10 DEF ToolFails, ToolFailsUntil
  <2>3. PICK e \in Event : e = [type |-> "tool_error", retryable |-> retryable]
    BY EventTypes
  <2>4. e.type = "tool_error" /\ e.retryable = retryable
    BY <2>3
  <2>5. CASE retryable /\ attempt <= RetryBudget
    BY <2>1, <2>2, <2>3, <2>4, <2>5 DEF RunsAgain
  <2>6. CASE ~(retryable /\ attempt <= RetryBudget)
    BY <2>1, <2>2, <2>3, <2>4, <2>6 DEF Ends, End, Untold, Grows
  <2> QED BY <2>5, <2>6
<1> QED BY <1>1, <1>2, <1>3, <1>4, <1>5, <1>6, <1>7, <1>8, <1>9, <1>10 DEF Next

-----------------------------------------------------------------------------
(* Every request is a conversation the provider accepts.                   *)

LEMMA Unprojected ==
    ASSUME log \in Seq(Event),
           \/ Grows({"thinking_delta", "brain_error", "usage", "prey_captured"})
           \/ \E e \in Event : e.type = "tool_error" /\ e.retryable /\ log' = Append(log, e)
    PROVE  Project(log') = Project(log)
<1>1. CASE log' = log
  BY <1>1
<1>2. CASE \E e \in Event : /\ e.type \in {"thinking_delta", "brain_error", "usage", "prey_captured"}
                            /\ log' = Append(log, e)
  BY <1>2, ProjectAppend
<1>3. CASE \E e \in Event : e.type = "tool_error" /\ e.retryable /\ log' = Append(log, e)
  BY <1>3, ProjectAppend
<1> QED BY <1>1, <1>2, <1>3 DEF Grows

LEMMA AcceptedLater ==
    ASSUME NEW ms, NEW t \in Nat, NEW u \in Nat, t <= u, Accepted(ms, t)
    PROVE  Accepted(ms, u)
<1>1. ms \in Seq(Message) /\ \A i \in 1..Len(ms) : ms[i].id < t
  BY DEF Accepted
<1>2. ASSUME NEW i \in 1..Len(ms) PROVE ms[i].id < u
  <2>1. ms[i] \in Message
    BY <1>1
  <2>2. ms[i].id \in Nat
    BY <2>1 DEF Message
  <2> QED BY <1>1, <2>2
<1> QED BY <1>2 DEF Accepted

LEMMA AcceptedSeed == Accepted(<<Msg("user", "seed", 0, "none")>>, 1)
<1>1. PICK ms : ms = <<Msg("user", "seed", 0, "none")>>
  OBVIOUS
<1>2. ms \in Seq(Message)
  BY <1>1, OpeningType DEF Opening, Conversation
<1>3. Len(ms) = 1 /\ ms[1].part = "seed" /\ ms[1].id = 0
  BY <1>1 DEF Msg
<1>4. \A i \in 2..1 : FALSE
  OBVIOUS
<1>5. \A i \in 1..1 : i = 1
  OBVIOUS
<1>6. Accepted(ms, 1)
  BY <1>2, <1>3, <1>4, <1>5 DEF Accepted
<1> QED BY <1>1, <1>6

\* An answered tool_use makes the conversation longer by two.
LEMMA AcceptedAnswer ==
    ASSUME NEW ms, NEW t \in Nat, Asked(ms, t)
    PROVE  Accepted(Append(ms, Msg("user", "tool_result", t, "none")), t + 1)
<1>1. PICK before, th : /\ Accepted(before, t) /\ th \in {"none", "verbatim", "damaged"}
                        /\ ms = Append(before, Msg("assistant", "tool_use", t, th))
  BY DEF Asked
<1>2. PICK use : use = Msg("assistant", "tool_use", t, th)
  OBVIOUS
<1>3. PICK answer : answer = Msg("user", "tool_result", t, "none")
  OBVIOUS
<1>4. /\ use \in Message /\ answer \in Message
      /\ use.part = "tool_use" /\ use.id = t
      /\ answer.part = "tool_result" /\ answer.id = t
  BY <1>1, <1>2, <1>3 DEF Msg, Message
<1>5. before \in Seq(Message)
  BY <1>1 DEF Accepted
<1>6. PICK n \in Nat : n = Len(before)
  BY <1>5
<1>7. PICK after : after = Append(ms, answer)
  OBVIOUS
<1>8. Appended(ms, Message, before, n, use)
  BY <1>1, <1>2, <1>4, <1>5, <1>6, OneMore
<1>9. ms \in Seq(Message) /\ Len(ms) = n + 1
  BY <1>8 DEF Appended
<1>10. Appended(after, Message, ms, n + 1, answer)
  BY <1>4, <1>7, <1>9, OneMore
<1>11. /\ after \in Seq(Message) /\ Len(after) = n + 2
       /\ after[n + 2] = answer /\ after[n + 1] = use
       /\ \A i \in 1..n : after[i] = before[i]
  BY <1>6, <1>8, <1>10 DEF Appended
<1>12. /\ n >= 1 /\ n % 2 = 1 /\ before[1].part = "seed"
       /\ \A i \in 2..n : IF i % 2 = 0
             THEN before[i].part = "tool_use" /\ before[i].id \notin {before[j].id : j \in 1..(i-1)}
             ELSE before[i].part = "tool_result" /\ before[i].id = before[i-1].id
       /\ \A i \in 1..n : before[i].id < t
  BY <1>1, <1>6 DEF Accepted
<1>13. \A i \in 1..n : before[i].id # t
  BY <1>12
<1>14. ASSUME NEW i \in 2..(n + 2)
       PROVE  IF i % 2 = 0
              THEN after[i].part = "tool_use" /\ after[i].id \notin {after[j].id : j \in 1..(i-1)}
              ELSE after[i].part = "tool_result" /\ after[i].id = after[i-1].id
  <2>1. CASE i = n + 2
    <3>1. i % 2 = 1 /\ i - 1 = n + 1
      BY <1>6, <1>12, <2>1
    <3> QED BY <1>4, <1>11, <2>1, <3>1
  <2>2. CASE i = n + 1
    <3>1. i % 2 = 0 /\ i - 1 = n
      BY <1>6, <1>12, <2>2
    <3>2. \A j \in 1..n : after[j].id # t
      BY <1>11, <1>13
    <3> QED BY <1>4, <1>11, <2>2, <3>1, <3>2
  <2>3. CASE i \in 2..n
    <3>1. i \in 1..n /\ i - 1 \in 1..n /\ \A j \in 1..(i-1) : j \in 1..n
      BY <1>6, <2>3
    <3>2. after[i] = before[i] /\ after[i-1] = before[i-1]
      BY <1>11, <3>1
    <3>3. {after[j].id : j \in 1..(i-1)} = {before[j].id : j \in 1..(i-1)}
      BY <1>11, <3>1
    <3> QED BY <1>12, <2>3, <3>2, <3>3
  <2> QED BY <1>6, <2>1, <2>2, <2>3
<1>15. ASSUME NEW i \in 1..(n + 2) PROVE after[i].id < t + 1
  <2>1. CASE i \in 1..n
    <3>1. before[i] \in Message
      BY <1>5, <1>6, <2>1
    <3>2. before[i].id \in Nat /\ before[i].id < t
      BY <1>12, <2>1, <3>1 DEF Message
    <3> QED BY <1>11, <2>1, <3>2
  <2>2. CASE i = n + 1 \/ i = n + 2
    BY <1>4, <1>11, <2>2
  <2> QED BY <1>6, <2>1, <2>2
<1>16. (n + 2) % 2 = 1 /\ after[1].part = "seed"
  BY <1>6, <1>11, <1>12
<1>17. Accepted(after, t + 1)
  BY <1>6, <1>11, <1>14, <1>15, <1>16 DEF Accepted
<1> QED BY <1>3, <1>7, <1>17

LEMMA ConversingStep ==
    ASSUME Control, Conversing, [Next]_vars
    PROVE  Conversing'
<1>0. log \in Seq(Event) /\ turn \in Nat /\ turn + 1 \in Nat
  BY DEF Control, TypeOK
<1>1. CASE Ends
  BY <1>1 DEF Ends, Conversing
<1>2. CASE Plan
  <2>1. /\ pc = "plan" /\ pc' = "ask" /\ turn' = turn + 1
        /\ request' = Project(log) /\ log' = log
    BY <1>2 DEF Plan, PlanBelow
  <2> QED BY <2>1 DEF Conversing
<1>3. CASE TurnsOn
  <2>1. Project(log') = Project(log)
    BY <1>0, <1>3, Unprojected DEF TurnsOn
  <2> QED BY <1>3, <2>1 DEF TurnsOn, InATurn, Conversing
<1>4. CASE RunsAgain
  <2>1. Project(log') = Project(log)
    BY <1>0, <1>4, Unprojected DEF RunsAgain
  <2> QED BY <1>4, <2>1 DEF RunsAgain, Conversing
<1>5. CASE Dispatch
  <2>1. /\ pc = "act" /\ pc' = "execute"
        /\ log' = Append(log, [type |-> "tool_call", id |-> turn, thinking |-> decision.thinking])
        /\ UNCHANGED <<turn, request>>
    BY <1>5 DEF Dispatch, AppendEvent
  <2>2. decision.thinking \in {"none", "verbatim", "damaged"}
    BY DEF Control, Choice
  <2>3. PICK e \in Event : e = [type |-> "tool_call", id |-> turn, thinking |-> decision.thinking]
    BY <1>0, <2>2, EventTypes
  <2>4. e.type = "tool_call" /\ e.id = turn /\ e.thinking = decision.thinking
    BY <2>3
  <2>5. Project(Append(log, e)) =
           Append(Project(log), Msg("assistant", "tool_use", turn, decision.thinking))
    BY <1>0, <2>4, ProjectAppend
  <2>6. Accepted(Project(log), turn)
    BY <2>1 DEF Conversing
  <2>7. Asked(Project(Append(log, e)), turn)
    BY <2>2, <2>5, <2>6 DEF Asked
  <2>8. Asked(Project(log'), turn')
    BY <2>1, <2>3, <2>7
  <2> QED BY <2>1, <2>8 DEF Conversing
<1>6. CASE ToolReturns
  <2>1. /\ pc = "execute" /\ pc' = "plan"
        /\ log' = Append(log, [type |-> "tool_result", id |-> turn])
        /\ UNCHANGED <<turn, request>>
    BY <1>6 DEF ToolReturns, AppendEvent
  <2>2. PICK e \in Event : e = [type |-> "tool_result", id |-> turn]
    BY <1>0, EventTypes
  <2>3. e.type = "tool_result" /\ e.id = turn
    BY <2>2
  <2>4. Project(Append(log, e)) = Append(Project(log), Msg("user", "tool_result", turn, "none"))
    BY <1>0, <2>3, ProjectAppend
  <2>5. Asked(Project(log), turn)
    BY <2>1 DEF Conversing
  <2>6. Accepted(Project(Append(log, e)), turn + 1)
    BY <1>0, <2>4, <2>5, AcceptedAnswer
  <2>7. Accepted(Project(log'), turn' + 1)
    BY <2>1, <2>2, <2>6
  <2> QED BY <2>1, <2>7 DEF Conversing
<1>7. CASE UNCHANGED vars
  BY <1>7 DEF vars, Conversing
<1> QED BY <1>1, <1>2, <1>3, <1>4, <1>5, <1>6, <1>7, StepKinds

(* brain.project_messages: every request opens with the seed, and each     *)
(* tool_use in it is answered at once, by a result, under an id of its     *)
(* own.                                                                    *)
THEOREM RequestsWellFormed == Spec => []RequestWellFormed
<1>1. Init => Conversing
  <2> SUFFICES ASSUME Init PROVE Conversing
    OBVIOUS
  <2>1. log = <<>> /\ pc = "plan" /\ turn = 0 /\ request = <<>>
    BY DEF Init
  <2> QED BY <2>1, ProjectEmpty, AcceptedSeed DEF Conversing
<1>2. Control /\ Conversing /\ [Next]_vars => Conversing'
  BY ConversingStep
<1>3. Conversing => RequestWellFormed
  BY DEF Conversing, Accepted, RequestWellFormed
<1> QED BY <1>1, <1>2, <1>3, ControlInvariant, PTL DEF Spec

-----------------------------------------------------------------------------
(* A dispatched tool_use has one result, later than its call.              *)

\* An event that is neither a call nor a result.
LEMMA NumbersKept ==
    ASSUME log \in Seq(Event), Grows(Untold)
    PROVE  /\ CallsOf(log') = CallsOf(log) /\ ResultsIn(log') = ResultsIn(log)
           /\ \A i \in CallsOf(log) \cup ResultsIn(log) : log'[i] = log[i]
<1>1. CASE log' = log
  BY <1>1
<1>2. CASE \E e \in Event : e.type \in Untold /\ log' = Append(log, e)
  <2>1. PICK e \in Event : e.type \in Untold /\ log' = Append(log, e)
    BY <1>2
  <2>2. PICK n \in Nat : n = Len(log)
    OBVIOUS
  <2>3. Appended(log', Event, log, n, e)
    BY <2>1, <2>2, OneMore
  <2>4. /\ DOMAIN log' = 1..(n + 1) /\ DOMAIN log = 1..n
        /\ log'[n + 1] = e /\ \A i \in 1..n : log'[i] = log[i]
    BY <2>2, <2>3 DEF Appended
  <2>5. \A i : i \in 1..(n + 1) <=> i \in 1..n \/ i = n + 1
    BY <2>2
  <2>6. e.type # "tool_call" /\ e.type # "tool_result"
    BY <2>1 DEF Untold
  <2> QED BY <2>4, <2>5, <2>6 DEF CallsOf, ResultsIn
<1> QED BY <1>1, <1>2 DEF Grows

LEMMA AnswersKept ==
    ASSUME log \in Seq(Event), Grows(Untold)
    PROVE  /\ \A t : Numbered(log, t) => Numbered(log', t)
           /\ AllAnswered(log) => AllAnswered(log')
           /\ \A t : LastOpen(log, t) => LastOpen(log', t)
<1>1. /\ CallsOf(log') = CallsOf(log) /\ ResultsIn(log') = ResultsIn(log)
      /\ \A i \in CallsOf(log) \cup ResultsIn(log) : log'[i] = log[i]
  BY NumbersKept
<1>2. \A t : Numbered(log, t) => Numbered(log', t)
  BY <1>1 DEF Numbered
<1>3. \A i \in CallsOf(log) : HasResult(log, i) => HasResult(log', i)
  BY <1>1 DEF HasResult
<1>4. \A i \in CallsOf(log) : NoResult(log, i) => NoResult(log', i)
  BY <1>1 DEF NoResult
<1>5. AllAnswered(log) => AllAnswered(log')
  BY <1>1, <1>3 DEF AllAnswered
<1>6. \A t : LastOpen(log, t) => LastOpen(log', t)
  BY <1>1, <1>3, <1>4 DEF LastOpen
<1> QED BY <1>2, <1>5, <1>6

\* The positions of a log are numbers, the ids those of turns.
LEMMA NumberedType ==
    ASSUME NEW l \in Seq(Event)
    PROVE  /\ \A i \in CallsOf(l) \cup ResultsIn(l) : i \in Nat /\ l[i].id \in Nat
           /\ CallsOf(l) \subseteq 1..Len(l) /\ ResultsIn(l) \subseteq 1..Len(l)
<1>1. ASSUME NEW i \in CallsOf(l) \cup ResultsIn(l) PROVE i \in 1..Len(l) /\ l[i].id \in Nat
  <2>1. i \in DOMAIN l /\ l[i].type \in {"tool_call", "tool_result"}
    BY DEF CallsOf, ResultsIn
  <2>2. i \in 1..Len(l) /\ l[i] \in Event
    BY <2>1
  <2> QED BY <2>1, <2>2 DEF Event
<1>2. Len(l) \in Nat
  OBVIOUS
<1> QED BY <1>1, <1>2

\* A new call: under a fresh id it is the one that is open.
LEMMA CallOpens ==
    ASSUME NEW l \in Seq(Event), NEW t \in Nat, NEW m, NEW e \in Event,
           Numbered(l, t - 1), AllAnswered(l),
           e.type = "tool_call", e.id = t, m = Append(l, e)
    PROVE  Numbered(m, t) /\ LastOpen(m, t)
<1>1. PICK n \in Nat : n = Len(l)
  OBVIOUS
<1>2. Appended(m, Event, l, n, e)
  BY <1>1, OneMore
<1>3. /\ DOMAIN m = 1..(n + 1) /\ DOMAIN l = 1..n
      /\ m[n + 1] = e /\ \A i \in 1..n : m[i] = l[i]
  BY <1>1, <1>2 DEF Appended
<1>4. \A i : i \in 1..(n + 1) <=> i \in 1..n \/ i = n + 1
  BY <1>1
<1>5. CallsOf(m) = CallsOf(l) \cup {n + 1} /\ ResultsIn(m) = ResultsIn(l)
  BY <1>3, <1>4 DEF CallsOf, ResultsIn
<1>6. \A i \in CallsOf(l) \cup ResultsIn(l) : m[i] = l[i] /\ i \in 1..n /\ l[i].id \in Nat
  BY <1>1, <1>3, NumberedType
<1>7. \A i \in CallsOf(l) \cup ResultsIn(l) : l[i].id <= t /\ l[i].id # t
  BY <1>6 DEF Numbered
<1>8. Numbered(m, t)
  <2>1. \A i \in CallsOf(m) \cup ResultsIn(m) : m[i].id <= t
    BY <1>3, <1>5, <1>6, <1>7
  <2>2. ASSUME NEW i \in CallsOf(m), NEW j \in CallsOf(m), m[i].id = m[j].id PROVE i = j
    BY <1>3, <1>5, <1>6, <1>7, <2>2 DEF Numbered
  <2> QED BY <2>1, <2>2 DEF Numbered
<1>9. ASSUME NEW k \in CallsOf(m), k # n + 1 PROVE k < n + 1 /\ HasResult(m, k)
  <2>1. k \in CallsOf(l) /\ k \in 1..n
    BY <1>5, <1>6, <1>9
  <2>2. HasResult(l, k)
    BY <2>1 DEF AllAnswered
  <2>3. HasResult(m, k)
    BY <1>5, <1>6, <2>1, <2>2 DEF HasResult
  <2> QED BY <1>1, <2>1, <2>3
<1>10. m[n + 1].id = t /\ NoResult(m, n + 1) /\ n + 1 \in CallsOf(m)
  BY <1>3, <1>5, <1>6, <1>7 DEF NoResult
<1> QED BY <1>8, <1>9, <1>10 DEF LastOpen

\* The result of the open call.
LEMMA ResultAnswers ==
    ASSUME NEW l \in Seq(Event), NEW t \in Nat, NEW m, NEW e \in Event,
           Numbered(l, t), LastOpen(l, t),
           e.type = "tool_result", e.id = t, m = Append(l, e)
    PROVE  Numbered(m, t) /\ AllAnswered(m)
<1>1. PICK n \in Nat : n = Len(l)
  OBVIOUS
<1>2. Appended(m, Event, l, n, e)
  BY <1>1, OneMore
<1>3. /\ DOMAIN m = 1..(n + 1) /\ DOMAIN l = 1..n
      /\ m[n + 1] = e /\ \A i \in 1..n : m[i] = l[i]
  BY <1>1, <1>2 DEF Appended
<1>4. \A i : i \in 1..(n + 1) <=> i \in 1..n \/ i = n + 1
  BY <1>1
<1>5. ResultsIn(m) = ResultsIn(l) \cup {n + 1} /\ CallsOf(m) = CallsOf(l)
  BY <1>3, <1>4 DEF CallsOf, ResultsIn
<1>6. \A i \in CallsOf(l) \cup ResultsIn(l) : m[i] = l[i] /\ i \in 1..n /\ l[i].id \in Nat
  BY <1>1, <1>3, NumberedType
<1>7. Numbered(m, t)
  <2>1. \A i \in CallsOf(m) \cup ResultsIn(m) : m[i].id <= t
    BY <1>3, <1>5, <1>6 DEF Numbered
  <2>2. ASSUME NEW i \in CallsOf(m), NEW j \in CallsOf(m), m[i].id = m[j].id PROVE i = j
    BY <1>5, <1>6, <2>2 DEF Numbered
  <2> QED BY <2>1, <2>2 DEF Numbered
<1>8. PICK i \in CallsOf(l) :
         /\ l[i].id = t /\ NoResult(l, i)
         /\ \A k \in CallsOf(l) : k # i => k < i /\ HasResult(l, k)
  BY DEF LastOpen
<1>9. HasResult(m, i)
  <2>1. n + 1 \in ResultsIn(m) /\ n + 1 > i /\ m[n + 1].id = m[i].id
    BY <1>1, <1>3, <1>5, <1>6, <1>8
  <2>2. \A k \in ResultsIn(m) : m[k].id = m[i].id => k = n + 1
    BY <1>5, <1>6, <1>8 DEF NoResult
  <2> QED BY <2>1, <2>2 DEF HasResult
<1>10. ASSUME NEW k \in CallsOf(m), k # i PROVE HasResult(m, k)
  <2>1. k \in CallsOf(l) /\ HasResult(l, k) /\ l[k].id # t
    BY <1>5, <1>8, <1>10 DEF Numbered
  <2>2. PICK j \in ResultsIn(l) : /\ j > k /\ l[j].id = l[k].id
                                  /\ \A x \in ResultsIn(l) : l[x].id = l[k].id => x = j
    BY <2>1 DEF HasResult
  <2>3. m[k].id # t /\ m[n + 1].id = t
    BY <1>3, <1>6, <2>1
  <2>4. \A x \in ResultsIn(m) : m[x].id = m[k].id => x = j
    BY <1>5, <1>6, <2>1, <2>2, <2>3
  <2>5. j \in ResultsIn(m) /\ m[j].id = m[k].id
    BY <1>5, <1>6, <2>1, <2>2
  <2> QED BY <2>2, <2>4, <2>5 DEF HasResult
<1> QED BY <1>5, <1>7, <1>9, <1>10 DEF AllAnswered

LEMMA NumberedLater ==
    ASSUME NEW l \in Seq(Event), NEW t \in Int, NEW u \in Int, t <= u, Numbered(l, t)
    PROVE  Numbered(l, u)
<1>1. \A i \in CallsOf(l) \cup ResultsIn(l) : l[i].id \in Nat /\ l[i].id <= t
  BY NumberedType DEF Numbered
<1>2. \A i \in CallsOf(l) \cup ResultsIn(l) : l[i].id <= u
  BY <1>1
<1> QED BY <1>2 DEF Numbered

LEMMA AnsweringStep ==
    ASSUME Control, Answering, [Next]_vars
    PROVE  Answering'
<1>0. log \in Seq(Event) /\ turn \in Nat
  BY DEF Control, TypeOK
<1>1. outcome = <<>> <=> pc # "over"
  BY DEF Control, TypeOK
<1>2. Numbered(log, turn)
  BY DEF Answering
<1>e. <<>> # <<"aborted", "tool failure">>
  OBVIOUS
<1>3. CASE Ends
  <2>1. Numbered(log', turn') /\ pc' = "over"
    BY <1>0, <1>2, <1>3, AnswersKept DEF Ends
  <2>2. CASE pc = "execute"
    <3>1. LastOpen(log', turn') /\ outcome' = <<"aborted", "tool failure">>
      BY <1>0, <1>3, <2>2, AnswersKept DEF Ends, Answering
    <3> QED BY <2>1, <3>1 DEF Answering
  <2>3. CASE pc \notin {"execute", "over"}
    <3>1. AllAnswered(log)
      BY <1>1, <1>e, <2>3 DEF Answering
    <3>2. AllAnswered(log')
      BY <1>0, <1>3, <3>1, AnswersKept DEF Ends
    <3> QED BY <2>1, <3>2 DEF Answering, InATurn
  <2>4. pc # "over"
    BY <1>3 DEF Ends
  <2> QED BY <2>2, <2>3, <2>4
<1>4. CASE Plan
  <2>1. /\ pc = "plan" /\ pc' = "ask" /\ turn' = turn + 1
        /\ log' = log /\ outcome' = outcome
    BY <1>4 DEF Plan, PlanBelow
  <2>2. AllAnswered(log') /\ Numbered(log', turn' - 1)
    <3>1. turn' - 1 = turn
      BY <1>0, <2>1
    <3> QED BY <1>1, <1>2, <1>e, <2>1, <3>1 DEF Answering
  <2>3. Numbered(log', turn')
    BY <1>0, <1>2, <2>1, NumberedLater
  <2> QED BY <1>1, <1>e, <2>1, <2>2, <2>3 DEF Answering
<1>5. CASE TurnsOn
  <2>0. Grows(Untold)
    <3>1. Grows({"thinking_delta", "brain_error", "usage", "prey_captured"})
      BY <1>5 DEF TurnsOn
    <3> QED BY <3>1 DEF Grows, Untold
  <2>1. pc \in InATurn /\ pc' \in InATurn /\ turn' = turn /\ outcome' = outcome
    BY <1>5 DEF TurnsOn
  <2>2. AllAnswered(log) /\ Numbered(log, turn - 1)
    BY <1>1, <1>e, <2>1 DEF Answering, InATurn
  <2>3. AllAnswered(log') /\ Numbered(log', turn' - 1) /\ Numbered(log', turn')
    BY <1>0, <1>2, <2>0, <2>1, <2>2, AnswersKept
  <2> QED BY <1>1, <1>e, <2>1, <2>3 DEF Answering, InATurn
<1>6. CASE RunsAgain
  <2>1. Grows(Untold) /\ pc = "execute" /\ pc' = "execute" /\ turn' = turn
    BY <1>6 DEF RunsAgain, Grows, Untold
  <2>2. LastOpen(log', turn') /\ Numbered(log', turn')
    BY <1>0, <1>2, <2>1, AnswersKept DEF Answering
  <2> QED BY <2>1, <2>2 DEF Answering
<1>7. CASE Dispatch
  <2>1. /\ pc = "act" /\ pc' = "execute"
        /\ log' = Append(log, [type |-> "tool_call", id |-> turn, thinking |-> decision.thinking])
        /\ turn' = turn
    BY <1>7 DEF Dispatch, AppendEvent
  <2>2. decision.thinking \in {"none", "verbatim", "damaged"}
    BY DEF Control, Choice
  <2>3. PICK e \in Event : e = [type |-> "tool_call", id |-> turn, thinking |-> decision.thinking]
    BY <1>0, <2>2, EventTypes
  <2>4. e.type = "tool_call" /\ e.id = turn /\ log' = Append(log, e)
    BY <2>1, <2>3
  <2>5. AllAnswered(log) /\ Numbered(log, turn - 1)
    BY <1>1, <1>e, <2>1 DEF Answering
  <2>6. Numbered(log', turn) /\ LastOpen(log', turn)
    BY <1>0, <2>4, <2>5, CallOpens
  <2> QED BY <2>1, <2>6 DEF Answering
<1>8. CASE ToolReturns
  <2>1. /\ pc = "execute" /\ pc' = "plan"
        /\ log' = Append(log, [type |-> "tool_result", id |-> turn])
        /\ UNCHANGED <<turn, outcome>>
    BY <1>8 DEF ToolReturns, AppendEvent
  <2>2. PICK e \in Event : e = [type |-> "tool_result", id |-> turn]
    BY <1>0, EventTypes
  <2>3. e.type = "tool_result" /\ e.id = turn /\ log' = Append(log, e)
    BY <2>1, <2>2
  <2>4. LastOpen(log, turn)
    BY <2>1 DEF Answering
  <2>5. Numbered(log', turn) /\ AllAnswered(log')
    BY <1>0, <1>2, <2>3, <2>4, ResultAnswers
  <2> QED BY <1>1, <1>e, <2>1, <2>5 DEF Answering
<1>9. CASE UNCHANGED vars
  BY <1>9 DEF vars, Answering
<1> QED BY <1>3, <1>4, <1>5, <1>6, <1>7, <1>8, <1>9, StepKinds

(* _run_tool: a dispatched tool_use has one result on the log, later than  *)
(* its call, unless it is being executed or its failure aborted the hunt.  *)
THEOREM CallsAnswered == Spec => []Answered
<1>1. Init => Answering
  <2> SUFFICES ASSUME Init PROVE Answering
    OBVIOUS
  <2>0. log = <<>> /\ pc = "plan" /\ outcome = <<>>
    BY DEF Init
  <2>1. DOMAIN log = {}
    BY <2>0
  <2>2. CallsOf(log) = {} /\ ResultsIn(log) = {}
    BY <2>1 DEF CallsOf, ResultsIn
  <2> QED BY <2>0, <2>2 DEF Answering, Numbered, AllAnswered
<1>2. Control /\ Answering /\ [Next]_vars => Answering'
  BY AnsweringStep
<1>3. Control /\ Answering => Answered
  <2> SUFFICES ASSUME Control, Answering, NEW i \in ToolCalls
               PROVE  /\ \A j \in ResultsOf(i) : j > i
                      /\ \/ Cardinality(ResultsOf(i)) = 1
                         \/ /\ ResultsOf(i) = {} /\ \A k \in ToolCalls : k <= i
                            /\ pc = "execute" \/ outcome = <<"aborted", "tool failure">>
    BY DEF Answered
  <2>0. log \in Seq(Event)
    BY DEF Control, TypeOK
  <2>1. ToolCalls = CallsOf(log) /\ ResultsOf(i) = {j \in ResultsIn(log) : log[j].id = log[i].id}
    BY DEF ToolCalls, CallsOf, ResultsOf, ResultsIn
  <2>2. CASE HasResult(log, i)
    <3>1. PICK j \in ResultsIn(log) : /\ j > i /\ log[j].id = log[i].id
                                      /\ \A k \in ResultsIn(log) : log[k].id = log[i].id => k = j
      BY <2>2 DEF HasResult
    <3>2. ResultsOf(i) = {j}
      BY <2>1, <3>1
    <3>3. Cardinality({j}) = 1
      BY FS_Singleton
    <3> QED BY <3>1, <3>2, <3>3
  <2>3. CASE ~HasResult(log, i)
    <3>1. /\ LastOpen(log, turn)
          /\ pc = "execute" \/ outcome = <<"aborted", "tool failure">>
      BY <2>1, <2>3 DEF Answering, AllAnswered
    <3>2. PICK h \in CallsOf(log) : /\ NoResult(log, h)
                                    /\ \A k \in CallsOf(log) : k # h => k < h /\ HasResult(log, k)
      BY <3>1 DEF LastOpen
    <3>3. h = i
      BY <2>1, <2>3, <3>2
    <3>4. ResultsOf(i) = {}
      BY <2>1, <3>2, <3>3 DEF NoResult
    <3>5. \A k \in ToolCalls : k <= i
      BY <2>0, <2>1, <3>2, <3>3, NumberedType
    <3> QED BY <3>1, <3>4, <3>5
  <2> QED BY <2>2, <2>3
<1> QED BY <1>1, <1>2, <1>3, ControlInvariant, PTL DEF Spec
-----------------------------------------------------------------------------
(* The cost breaker and the retry budget.                                  *)

LEMMA FailuresFinite ==
    ASSUME NEW l \in Seq(Event)
    PROVE  IsFiniteSet(Failures(l)) /\ Cardinality(Failures(l)) \in Nat
<1>1. PICK n \in Nat : n = Len(l) /\ DOMAIN l = 1..n
  OBVIOUS
<1>2. IsFiniteSet(1..n)
  BY FS_Interval
<1>3. Failures(l) \subseteq 1..n
  BY <1>1 DEF Failures
<1>4. IsFiniteSet(Failures(l))
  BY <1>2, <1>3, FS_Subset
<1> QED BY <1>4, FS_CardinalityType

\* A failure on the log is one more, no other event is.
LEMMA FailuresAppend ==
    ASSUME NEW l \in Seq(Event), NEW e \in Event, NEW m, m = Append(l, e)
    PROVE  /\ e.type \notin {"brain_error", "loop_error"} =>
                 Cardinality(Failures(m)) = Cardinality(Failures(l))
           /\ e.type \in {"brain_error", "loop_error"} =>
                 Cardinality(Failures(m)) = Cardinality(Failures(l)) + 1
<1>1. PICK n \in Nat : n = Len(l)
  OBVIOUS
<1>2. Appended(m, Event, l, n, e)
  BY <1>1, OneMore
<1>3. /\ DOMAIN m = 1..(n + 1) /\ DOMAIN l = 1..n
      /\ m[n + 1] = e /\ \A i \in 1..n : m[i] = l[i]
  BY <1>1, <1>2 DEF Appended
<1>4. \A i : i \in 1..(n + 1) <=> i \in 1..n \/ i = n + 1
  BY <1>1
<1>5. CASE e.type \notin {"brain_error", "loop_error"}
  <2>1. Failures(m) = Failures(l)
    BY <1>3, <1>4, <1>5 DEF Failures
  <2> QED BY <1>5, <2>1
<1>6. CASE e.type \in {"brain_error", "loop_error"}
  <2>1. Failures(m) = Failures(l) \cup {n + 1}
    BY <1>3, <1>4, <1>6 DEF Failures
  <2>2. n + 1 \notin Failures(l)
    <3>1. n + 1 \notin 1..n
      BY <1>1
    <3> QED BY <1>3, <3>1 DEF Failures
  <2>3. IsFiniteSet(Failures(l))
    BY FailuresFinite
  <2>4. Cardinality(Failures(l) \cup {n + 1}) = Cardinality(Failures(l)) + 1
    BY <2>2, <2>3, FS_AddElement
  <2> QED BY <1>6, <2>1, <2>4
<1> QED BY <1>5, <1>6

Unbilled == {"thinking_delta", "prey_captured", "tool_call", "tool_result", "tool_error"}

\* Telemetry, calls and results cost nothing and are no failures.
LEMMA Free ==
    ASSUME log \in Seq(Event), Grows(Unbilled)
    PROVE  /\ Spend(log') = Spend(log)
           /\ Cardinality(Failures(log')) = Cardinality(Failures(log))
<1>1. CASE log' = log
  BY <1>1
<1>2. CASE \E e \in Event : e.type \in Unbilled /\ log' = Append(log, e)
  <2>1. PICK e \in Event : e.type \in Unbilled /\ log' = Append(log, e)
    BY <1>2
  <2>2. e.type # "usage" /\ e.type \notin {"brain_error", "loop_error"}
    BY <2>1 DEF Unbilled
  <2>3. Spend(log') = Paid(Spend(log), e)
    BY <2>1, SpendAppend
  <2>4. Cardinality(Failures(log')) = Cardinality(Failures(log))
    BY <2>1, <2>2, FailuresAppend
  <2> QED BY <2>2, <2>3, <2>4 DEF Paid
<1> QED BY <1>1, <1>2 DEF Grows

\* A failed call, however it is told.
LEMMA Failed ==
    ASSUME log \in Seq(Event), NEW e \in Event, e.type \in {"brain_error", "loop_error"},
           log' = Append(log, e)
    PROVE  /\ Spend(log') = Spend(log)
           /\ Cardinality(Failures(log')) = Cardinality(Failures(log)) + 1
<1>1. Spend(log') = Paid(Spend(log), e)
  BY SpendAppend
<1>2. Cardinality(Failures(log')) = Cardinality(Failures(log)) + 1
  BY FailuresAppend
<1> QED BY <1>1, <1>2 DEF Paid

Billed(spent, failures, t) ==
    /\ spent > 0 => spent < CostCeiling + InputCost + OutputCost
    /\ failures <= RetryBudget * t + 1

LEMMA SpendBoundedIs == SpendBounded <=> Billed(Spend(log), Cardinality(Failures(log)), turn)
BY DEF SpendBounded, Billed, Failures

LEMMA SpendingStep ==
    ASSUME Control, Control', Spending, [Next]_vars
    PROVE  Spending'
<1> DEFINE s == Spend(log)
           f == Cardinality(Failures(log))
<1>0. /\ log \in Seq(Event) /\ turn \in Nat /\ attempt \in Nat
      /\ s \in Nat /\ f \in Nat
  <2>1. log \in Seq(Event) /\ turn \in 0..MaxIterations /\ attempt \in 0..(RetryBudget + 1)
    BY DEF Control, TypeOK
  <2>2. turn \in Nat /\ attempt \in Nat
    BY <2>1, Bounds
  <2> QED BY <2>1, <2>2, SpendIsNat, FailuresFinite
<1>b. /\ RetryBudget \in Nat /\ CostCeiling \in Nat /\ InputCost \in Nat /\ OutputCost \in Nat
  BY Bounds
<1>m. /\ RetryBudget * turn \in Nat
      /\ RetryBudget * (turn + 1) = RetryBudget * turn + RetryBudget
      /\ RetryBudget * (turn - 1) = RetryBudget * turn - RetryBudget
      /\ (turn + 1) - 1 = turn /\ 1 - 1 = 0
  BY <1>0, <1>b
<1>1. /\ Billed(s, f, turn)
      /\ pc \in {"ask", "stream", "parse"} => s < CostCeiling
      /\ pc \in {"ask", "stream"} => f <= RetryBudget * (turn - 1) + (attempt - 1)
      /\ pc # "over" => f <= RetryBudget * turn
  BY SpendBoundedIs DEF Spending
<1>t. pc \in {"ask", "stream"} => attempt >= 1 /\ attempt <= RetryBudget + 1
  BY <1>b DEF Control, TypeOK
<1>c. ASSUME Billed(s', f', turn'),
             pc' \in {"ask", "stream", "parse"} => s' < CostCeiling,
             pc' \in {"ask", "stream"} => f' <= RetryBudget * (turn' - 1) + (attempt' - 1),
             pc' # "over" => f' <= RetryBudget * turn'
      PROVE  Spending'
  <2>1. SpendBounded' <=> Billed(s', f', turn')
    BY DEF SpendBounded, Billed, Failures
  <2> QED BY <1>c, <2>1 DEF Spending
<1> HIDE DEF s, f
<1>2. CASE Exhausted \/ TooDear \/ Complete \/ AskHelp
  <2>1. pc' = "over" /\ log' = log /\ turn' = turn
    BY <1>2 DEF Exhausted, TooDear, Complete, AskHelp, End
  <2>2. s' = s /\ f' = f
    BY <2>1 DEF s, f
  <2> QED BY <1>1, <1>c, <2>1, <2>2
<1>3. CASE Plan
  <2>1. /\ pc = "plan" /\ pc' = "ask" /\ log' = log /\ turn' = turn + 1 /\ attempt' = 1
        /\ Spend(log) < CostCeiling
    BY <1>3 DEF Plan, PlanBelow
  <2>2. s' = s /\ f' = f /\ s < CostCeiling
    BY <2>1 DEF s, f
  <2>3. Billed(s, f, turn + 1)
    BY <1>0, <1>1, <1>b, <1>m DEF Billed
  <2>4. /\ f <= RetryBudget * ((turn + 1) - 1) + (1 - 1)
        /\ f <= RetryBudget * (turn + 1)
    BY <1>0, <1>1, <1>b, <1>m, <2>1
  <2> QED BY <1>c, <2>1, <2>2, <2>3, <2>4
<1>4. CASE StreamOpens \/ Answers \/ StreamEnds \/ FeedFrame
  <2>1. /\ pc \in {"ask", "stream"} /\ pc' \in {"stream", "parse"}
        /\ UNCHANGED <<turn, attempt>>
    BY <1>4 DEF StreamOpens, Answers, StreamEnds, FeedFrame
  <2>2. Grows(Unbilled)
    <3>1. PICK e \in Event : e = [type |-> "thinking_delta"]
      BY EventTypes
    <3>2. e.type \in Unbilled
      BY <3>1 DEF Unbilled
    <3> QED BY <1>4, <3>1, <3>2 DEF StreamOpens, Answers, StreamEnds, FeedFrame, AppendEvent, Grows
  <2>3. s' = s /\ f' = f
    BY <1>0, <2>2, Free DEF s, f
  <2> QED BY <1>1, <1>c, <2>1, <2>3
<1>5. CASE CallFails
  <2>1. PICK retryable \in BOOLEAN :
           /\ log' = Append(log, [type |-> "brain_error", retryable |-> retryable])
           /\ IF retryable /\ attempt <= RetryBudget
              THEN pc' = "ask" /\ attempt' = attempt + 1 /\ UNCHANGED outcome
              ELSE End("aborted", "brain call failed") /\ UNCHANGED attempt
    BY <1>5 DEF CallFails, CallFailsWithin, AppendEvent
  <2>2. pc \in {"ask", "stream"} /\ turn' = turn
    BY <1>5 DEF CallFails, CallFailsWithin
  <2>3. PICK e \in Event : e = [type |-> "brain_error", retryable |-> retryable]
    BY EventTypes
  <2>4. s' = s /\ f' = f + 1
    <3>1. e.type \in {"brain_error", "loop_error"} /\ log' = Append(log, e)
      BY <2>1, <2>3
    <3> QED BY <1>0, <3>1, Failed DEF s, f
  <2>5. Billed(s, f + 1, turn)
    BY <1>0, <1>1, <1>b, <1>m, <2>2 DEF Billed
  <2>6. CASE retryable /\ attempt <= RetryBudget
    <3>1. pc' = "ask" /\ attempt' = attempt + 1
      BY <2>1, <2>6
    <3>2. /\ f + 1 <= RetryBudget * (turn - 1) + ((attempt + 1) - 1)
          /\ f + 1 <= RetryBudget * turn
      BY <1>0, <1>1, <1>b, <1>m, <2>2, <2>6
    <3> QED BY <1>1, <1>c, <2>2, <2>4, <2>5, <3>1, <3>2
  <2>7. CASE ~(retryable /\ attempt <= RetryBudget)
    <3>1. pc' = "over"
      BY <2>1, <2>7 DEF End
    <3> QED BY <1>c, <2>2, <2>4, <2>5, <3>1
  <2> QED BY <2>6, <2>7
<1>6. CASE BrainRaises \/ ParseFails
  <2>1. PICK e \in Event : /\ e.type \in {"brain_error", "loop_error"}
                           /\ log' = Append(log, e)
    <3>1. PICK d \in Event : d = [type |-> "loop_error"]
      BY EventTypes
    <3>2. PICK d2 \in Event : d2 = [type |-> "brain_error", retryable |-> FALSE]
      BY EventTypes
    <3>3. d.type = "loop_error" /\ d2.type = "brain_error"
      BY <3>1, <3>2
    <3> QED BY <1>6, <3>1, <3>2, <3>3 DEF BrainRaises, ParseFails, AppendEvent
  <2>2. pc # "over" /\ pc' = "over" /\ turn' = turn
    BY <1>6 DEF BrainRaises, ParseFails, End
  <2>3. s' = s /\ f' = f + 1
    BY <1>0, <2>1, Failed DEF s, f
  <2>4. Billed(s, f + 1, turn)
    BY <1>0, <1>1, <1>b, <1>m, <2>2 DEF Billed
  <2> QED BY <1>c, <2>2, <2>3, <2>4
<1>7. CASE Decide
  <2>1. pc = "parse" /\ pc' = "act" /\ turn' = turn
    BY <1>7 DEF Decide
  <2>2. CASE asm.usage = "none"
    <3>1. log' = log
      BY <1>7, <2>2 DEF Decide
    <3>2. s' = s /\ f' = f
      BY <3>1 DEF s, f
    <3> QED BY <1>1, <1>c, <2>1, <3>2
  <2>3. CASE asm.usage # "none"
    <3>1. PICK c \in Nat : c = CostOf(asm.usage)
      BY CostType
    <3>2. c <= InputCost + OutputCost
      BY <1>b, <3>1 DEF CostOf
    <3>3. PICK e \in Event : e = [type |-> "usage", cost |-> c]
      BY EventTypes
    <3>4. e.type = "usage" /\ e.cost = c /\ log' = Append(log, e)
      BY <1>7, <2>3, <3>1, <3>3 DEF Decide, AppendEvent
    <3>5. s' = s + c
      <4>1. Spend(log') = Paid(Spend(log), e)
        BY <1>0, <3>4, SpendAppend
      <4> QED BY <3>4, <4>1 DEF Paid, s
    <3>6. f' = f
      <4>1. e.type \notin {"brain_error", "loop_error"}
        BY <3>4
      <4> QED BY <1>0, <3>4, <4>1, FailuresAppend DEF f
    <3>7. Billed(s + c, f, turn)
      BY <1>0, <1>1, <1>b, <1>m, <2>1, <3>1, <3>2 DEF Billed
    <3> QED BY <1>1, <1>c, <2>1, <3>5, <3>6, <3>7
  <2> QED BY <2>2, <2>3
<1>8. CASE Refuse \/ Dispatch \/ ToolReturns \/ ToolFails \/ CapturePrey
  <2>1. /\ pc \in {"act", "execute"} /\ pc' \in {"act", "execute", "plan", "over"}
        /\ turn' = turn
    BY <1>8 DEF Refuse, Dispatch, ToolReturns, ToolFails, ToolFailsUntil, CapturePrey, End
  <2>2. Grows(Unbilled)
    <3>1. decision.thinking \in {"none", "verbatim", "damaged"}
      BY DEF Control, Choice
    <3>2. CASE Refuse \/ ToolFails
      <4>1. PICK retryable \in BOOLEAN :
               log' = Append(log, [type |-> "tool_error", retryable |-> retryable])
        BY <3>2 DEF Refuse, ToolFails, ToolFailsUntil, AppendEvent
      <4>2. PICK e \in Event : e = [type |-> "tool_error", retryable |-> retryable]
        BY EventTypes
      <4> QED BY <4>1, <4>2 DEF Unbilled, Grows
    <3>3. CASE Dispatch
      <4>1. PICK e \in Event :
               e = [type |-> "tool_call", id |-> turn, thinking |-> decision.thinking]
        BY <1>0, <3>1, EventTypes
      <4>2. e.type \in Unbilled
        BY <4>1 DEF Unbilled
      <4> QED BY <3>3, <4>1, <4>2 DEF Dispatch, AppendEvent, Grows
    <3>4. CASE ToolReturns
      <4>1. PICK e \in Event : e = [type |-> "tool_result", id |-> turn]
        BY <1>0, EventTypes
      <4>2. e.type \in Unbilled
        BY <4>1 DEF Unbilled
      <4> QED BY <3>4, <4>1, <4>2 DEF ToolReturns, AppendEvent, Grows
    <3>5. CASE CapturePrey
      <4>1. PICK e \in Event : e = [type |-> "prey_captured"]
        BY EventTypes
      <4>2. e.type \in Unbilled
        BY <4>1 DEF Unbilled
      <4> QED BY <3>5, <4>1, <4>2 DEF CapturePrey, AppendEvent, Grows
    <3> QED BY <1>8, <3>2, <3>3, <3>4, <3>5
  <2>3. s' = s /\ f' = f
    BY <1>0, <2>2, Free DEF s, f
  <2> QED BY <1>1, <1>c, <2>1, <2>3
<1>9. CASE UNCHANGED vars
  <2>1. /\ log' = log /\ pc' = pc /\ turn' = turn /\ attempt' = attempt
    BY <1>9 DEF vars
  <2>2. s' = s /\ f' = f
    BY <2>1 DEF s, f
  <2> QED BY <1>1, <1>c, <2>1, <2>2
<1> QED BY <1>2, <1>3, <1>4, <1>5, <1>6, <1>7, <1>8, <1>9 DEF Next

(* The breaker's inductive invariant.                                      *)
THEOREM SpendingInvariant == Spec => []Spending
<1>1. Init => Spending
  <2> SUFFICES ASSUME Init PROVE Spending
    OBVIOUS
  <2>0. log = <<>> /\ pc = "plan" /\ turn = 0
    BY DEF Init
  <2>1. DOMAIN log = {}
    BY <2>0
  <2>2. Failures(log) = {}
    BY <2>1 DEF Failures
  <2>3. Cardinality(Failures(log)) = 0
    BY <2>2, FS_EmptySet
  <2>4. Spend(log) = 0
    BY <2>0, SpendEmpty
  <2>5. RetryBudget * 0 = 0
    BY Bounds
  <2>6. Billed(0, 0, 0)
    BY <2>5 DEF Billed
  <2> QED BY <2>0, <2>3, <2>4, <2>5, <2>6, SpendBoundedIs DEF Spending
<1>2. Control /\ Control' /\ Spending /\ [Next]_vars => Spending'
  BY SpendingStep
<1> QED BY <1>1, <1>2, ControlInvariant, PTL DEF Spec

(* _drive's cost breaker: the recorded spend of a hunt stays below the     *)
(* ceiling plus the price of one call, and the calls that were billed      *)
(* without a record are no more than the retries of its turns and a last   *)
(* one.                                                                    *)
THEOREM SpendIsBounded == Spec => []SpendBounded
<1>1. Spending => SpendBounded
  BY DEF Spending
<1> QED BY <1>1, SpendingInvariant, PTL

-----------------------------------------------------------------------------
(* The reason of an aborted hunt is the one its log tells.                 *)

LEMMA RecentFinite ==
    ASSUME NEW l \in Seq(Event), NEW type
    PROVE  IsFiniteSet(Recent(l, type)) /\ Cardinality(Recent(l, type)) \in Nat
<1>1. PICK n \in Nat : n = Len(l) /\ DOMAIN l = 1..n
  OBVIOUS
<1>2. IsFiniteSet(1..n)
  BY FS_Interval
<1>3. Recent(l, type) \subseteq 1..n
  BY <1>1 DEF Recent
<1>4. IsFiniteSet(Recent(l, type))
  BY <1>2, <1>3, FS_Subset
<1> QED BY <1>4, FS_CardinalityType

\* An event of another kind at the end: no error is recent.
LEMMA RecentNone ==
    ASSUME NEW l \in Seq(Event), NEW type,
           l = <<>> \/ l[Len(l)].type \notin {type, "thinking_delta"}
    PROVE  Cardinality(Recent(l, type)) = 0
<1>1. PICK n \in Nat : n = Len(l) /\ DOMAIN l = 1..n
  OBVIOUS
<1>2. CASE n = 0
  <2>1. Recent(l, type) = {}
    BY <1>1, <1>2 DEF Recent
  <2> QED BY <2>1, FS_EmptySet
<1>3. CASE n # 0
  <2>1. l # <<>>
    BY <1>1, <1>3
  <2>2. l[n].type \notin {type, "thinking_delta"}
    BY <1>1, <2>1
  <2>3. \A i \in 1..n : n \in i..n
    BY <1>3
  <2>4. Recent(l, type) = {}
    BY <1>1, <2>2, <2>3 DEF Recent
  <2> QED BY <2>4, FS_EmptySet
<1> QED BY <1>2, <1>3

\* m is l with e at its end, where the errors of l are as recent as in l.
StillRecent(m, l, kind, n, e) ==
    /\ \A i \in 1..n : i \in Recent(m, kind) <=> i \in Recent(l, kind)
    /\ Recent(l, kind) \subseteq 1..n /\ Recent(m, kind) \subseteq 1..(n + 1)
    /\ n \in Nat /\ Len(m) = n + 1 /\ DOMAIN m = 1..(n + 1) /\ m[n + 1] = e

\* Telemetry, or another error of the type, leaves the recent ones recent.
LEMMA RecentBefore ==
    ASSUME NEW l \in Seq(Event), NEW e \in Event, NEW m, m = Append(l, e),
           NEW kind \in {"brain_error", "tool_error"}, e.type \in {kind, "thinking_delta"},
           NEW n \in Nat, n = Len(l)
    PROVE  StillRecent(m, l, kind, n, e)
<1>1. n \in Nat
  OBVIOUS
<1>2. Appended(m, Event, l, n, e)
  BY OneMore
<1>3. /\ DOMAIN m = 1..(n + 1) /\ DOMAIN l = 1..n /\ Len(m) = n + 1
      /\ m[n + 1] = e /\ \A i \in 1..n : m[i] = l[i]
  BY <1>1, <1>2 DEF Appended
<1>4. \A i : i \in 1..(n + 1) <=> i \in 1..n \/ i = n + 1
  BY <1>1
<1>5. \A i \in 1..n : \A j : j \in i..(n + 1) <=> j \in i..n \/ j = n + 1
  BY <1>1
<1>6. \A i \in 1..n : i..n \subseteq 1..n
  BY <1>1
<1>7. ASSUME NEW i \in 1..n
      PROVE  i \in Recent(m, kind) <=> i \in Recent(l, kind)
  <2>1. (\A j \in i..(n + 1) : m[j].type \in {kind, "thinking_delta"})
        <=> (\A j \in i..n : l[j].type \in {kind, "thinking_delta"})
    BY <1>3, <1>5, <1>6
  <2> QED BY <1>3, <1>4, <2>1 DEF Recent
<1>8. Recent(l, kind) \subseteq 1..n /\ Recent(m, kind) \subseteq 1..(n + 1)
  BY <1>3 DEF Recent
<1> QED BY <1>1, <1>3, <1>7, <1>8 DEF StillRecent

\* Telemetry is no error.
LEMMA RecentKept ==
    ASSUME NEW l \in Seq(Event), NEW e \in Event, e.type = "thinking_delta",
           NEW kind \in {"brain_error", "tool_error"}
    PROVE  Cardinality(Recent(Append(l, e), kind)) = Cardinality(Recent(l, kind))
<1>1. PICK m : m = Append(l, e)
  OBVIOUS
<1>2. PICK n \in Nat : n = Len(l)
  OBVIOUS
<1>r. StillRecent(m, l, kind, n, e)
  BY <1>1, <1>2, RecentBefore
<1>3. /\ \A i \in 1..n : i \in Recent(m, kind) <=> i \in Recent(l, kind)
      /\ Recent(l, kind) \subseteq 1..n /\ Recent(m, kind) \subseteq 1..(n + 1)
      /\ n \in Nat /\ Len(m) = n + 1 /\ m[n + 1] = e
  BY <1>r DEF StillRecent
<1>4. n + 1 \notin Recent(m, kind)
  BY <1>3 DEF Recent
<1>5. \A i : i \in 1..(n + 1) <=> i \in 1..n \/ i = n + 1
  BY <1>3
<1>6. Recent(m, kind) = Recent(l, kind)
  BY <1>3, <1>4, <1>5
<1> QED BY <1>1, <1>6

\* Another retryable error joins the recent ones.
LEMMA RecentJoins ==
    ASSUME NEW l \in Seq(Event), NEW e \in Event, e.retryable,
           e.type \in {"brain_error", "tool_error"}
    PROVE  Cardinality(Recent(Append(l, e), e.type)) = Cardinality(Recent(l, e.type)) + 1
<1>1. PICK m : m = Append(l, e)
  OBVIOUS
<1>2. PICK n \in Nat : n = Len(l)
  OBVIOUS
<1>3. PICK kind \in {"brain_error", "tool_error"} : kind = e.type
  OBVIOUS
<1>r. StillRecent(m, l, kind, n, e)
  BY <1>1, <1>2, <1>3, RecentBefore
<1>4. /\ \A i \in 1..n : i \in Recent(m, kind) <=> i \in Recent(l, kind)
      /\ Recent(l, kind) \subseteq 1..n /\ Recent(m, kind) \subseteq 1..(n + 1)
      /\ n \in Nat /\ Len(m) = n + 1 /\ DOMAIN m = 1..(n + 1) /\ m[n + 1] = e
  BY <1>r DEF StillRecent
<1>5. n + 1 \in Recent(m, kind)
  <2>1. n + 1 \in 1..(n + 1) /\ \A j : j \in (n + 1)..(n + 1) <=> j = n + 1
    BY <1>4
  <2> QED BY <1>3, <1>4, <2>1 DEF Recent
<1>6. \A i : i \in 1..(n + 1) <=> i \in 1..n \/ i = n + 1
  BY <1>4
<1>7. n + 1 \notin 1..n
  BY <1>4
<1>8. Recent(m, kind) = Recent(l, kind) \cup {n + 1}
  BY <1>4, <1>5, <1>6
<1>9. Cardinality(Recent(l, kind) \cup {n + 1}) = Cardinality(Recent(l, kind)) + 1
  <2>1. n + 1 \notin Recent(l, kind)
    BY <1>4, <1>7
  <2> QED BY <2>1, RecentFinite, FS_AddElement
<1> QED BY <1>1, <1>3, <1>8, <1>9

LEMMA ResultsFinite ==
    ASSUME NEW l \in Seq(Event)
    PROVE  IsFiniteSet(ResultsIn(l)) /\ Cardinality(ResultsIn(l)) \in Nat
<1>1. PICK n \in Nat : n = Len(l) /\ DOMAIN l = 1..n
  OBVIOUS
<1>2. IsFiniteSet(1..n)
  BY FS_Interval
<1>3. ResultsIn(l) \subseteq 1..n
  BY <1>1 DEF ResultsIn
<1>4. IsFiniteSet(ResultsIn(l))
  BY <1>2, <1>3, FS_Subset
<1> QED BY <1>4, FS_CardinalityType

LEMMA ResultsAppend ==
    ASSUME NEW l \in Seq(Event), NEW e \in Event, NEW m, m = Append(l, e)
    PROVE  /\ e.type # "tool_result" => Cardinality(ResultsIn(m)) = Cardinality(ResultsIn(l))
           /\ e.type = "tool_result" => Cardinality(ResultsIn(m)) = Cardinality(ResultsIn(l)) + 1
<1>1. PICK n \in Nat : n = Len(l)
  OBVIOUS
<1>2. Appended(m, Event, l, n, e)
  BY <1>1, OneMore
<1>3. /\ DOMAIN m = 1..(n + 1) /\ DOMAIN l = 1..n
      /\ m[n + 1] = e /\ \A i \in 1..n : m[i] = l[i]
  BY <1>1, <1>2 DEF Appended
<1>4. \A i : i \in 1..(n + 1) <=> i \in 1..n \/ i = n + 1
  BY <1>1
<1>5. CASE e.type # "tool_result"
  <2>1. ResultsIn(m) = ResultsIn(l)
    BY <1>3, <1>4, <1>5 DEF ResultsIn
  <2> QED BY <1>5, <2>1
<1>6. CASE e.type = "tool_result"
  <2>1. ResultsIn(m) = ResultsIn(l) \cup {n + 1}
    BY <1>3, <1>4, <1>6 DEF ResultsIn
  <2>2. n + 1 \notin ResultsIn(l)
    <3>1. n + 1 \notin 1..n
      BY <1>1
    <3> QED BY <1>3, <3>1 DEF ResultsIn
  <2>3. IsFiniteSet(ResultsIn(l))
    BY ResultsFinite
  <2>4. Cardinality(ResultsIn(l) \cup {n + 1}) = Cardinality(ResultsIn(l)) + 1
    BY <2>2, <2>3, FS_AddElement
  <2> QED BY <1>6, <2>1, <2>4
<1> QED BY <1>5, <1>6

\* What a growing log keeps, when no result is among what it gets.
LEMMA ResultsKept ==
    ASSUME log \in Seq(Event), Grows(Untold)
    PROVE  Cardinality(ResultsIn(log')) = Cardinality(ResultsIn(log))
BY NumbersKept

EndsWith(l, type) ==
    /\ Len(l) > 0 /\ l[Len(l)].type = type
    /\ l[Len(l)].retryable => Cardinality(Recent(l, type)) = RetryBudget + 1

\* An error that is the last of its budget, or that no retry would help.
LEMMA LastError ==
    ASSUME NEW l \in Seq(Event), NEW type \in {"brain_error", "tool_error"},
           NEW retryable \in BOOLEAN, NEW m,
           m = Append(l, [type |-> type, retryable |-> retryable]),
           retryable => Cardinality(Recent(l, type)) = RetryBudget
    PROVE  EndsWith(m, type)
<1>1. PICK e \in Event : e = [type |-> type, retryable |-> retryable]
  BY EventTypes
<1>2. e.type = type /\ e.retryable = retryable /\ m = Append(l, e)
  BY <1>1
<1>3. Len(m) > 0 /\ m[Len(m)] = e
  <2>1. PICK n \in Nat : n = Len(l)
    OBVIOUS
  <2>2. Appended(m, Event, l, n, e)
    BY <1>2, <2>1, OneMore
  <2>3. Len(m) = n + 1 /\ m[n + 1] = e
    BY <2>2 DEF Appended
  <2>4. n + 1 > 0
    BY <2>1
  <2> QED BY <2>3, <2>4
<1>4. ASSUME retryable PROVE Cardinality(Recent(m, type)) = RetryBudget + 1
  <2>1. e.retryable
    BY <1>2, <1>4
  <2>2. Cardinality(Recent(m, type)) = Cardinality(Recent(l, type)) + 1
    BY <1>2, <2>1, RecentJoins
  <2> QED BY <1>4, <2>2
<1> QED BY <1>2, <1>3, <1>4 DEF EndsWith

LEMMA RetryingStep ==
    ASSUME Control, Control', Retrying, [Next]_vars
    PROVE  Retrying'
<1> DEFINE brain == Cardinality(Recent(log, "brain_error"))
           tool == Cardinality(Recent(log, "tool_error"))
           results == Cardinality(ResultsIn(log))
<1>0. /\ log \in Seq(Event) /\ turn \in Nat /\ attempt \in Nat
      /\ brain \in Nat /\ tool \in Nat /\ results \in Nat
  <2>1. log \in Seq(Event) /\ turn \in 0..MaxIterations /\ attempt \in 0..(RetryBudget + 1)
    BY DEF Control, TypeOK
  <2>2. turn \in Nat /\ attempt \in Nat
    BY <2>1, Bounds
  <2> QED BY <2>1, <2>2, RecentFinite, ResultsFinite
<1>b. RetryBudget \in Nat
  BY Bounds
<1>l. log' \in Seq(Event)
  BY DEF Control, TypeOK
<1>1. /\ pc = "plan" => log = <<>> \/ log[Len(log)].type = "tool_result"
      /\ pc \in {"ask", "stream"} => brain = attempt - 1
      /\ pc = "execute" => tool = attempt - 1
      /\ pc = "plan" => results = turn
      /\ pc \in {"ask", "stream", "parse", "act", "execute"} => results = turn - 1
  BY DEF Retrying
<1>t. pc \in {"ask", "stream", "execute"} => attempt >= 1 /\ attempt <= RetryBudget + 1
  BY <1>b DEF Control, TypeOK
<1>o. outcome' = <<>> <=> pc' # "over"
  BY DEF Control, TypeOK
<1>c. ASSUME pc' = "plan" => log'[Len(log')].type = "tool_result",
             pc' \in {"ask", "stream"} => brain' = attempt' - 1,
             pc' = "execute" => tool' = attempt' - 1,
             pc' = "plan" => results' = turn',
             pc' \in {"ask", "stream", "parse", "act", "execute"} => results' = turn' - 1,
             pc' = "over" => ReasonKept'
      PROVE  Retrying'
  <2>1. pc' # "over" => ReasonKept'
    BY <1>o DEF ReasonKept
  <2> QED BY <1>c, <2>1 DEF Retrying
<1>k. log' = log => brain' = brain /\ tool' = tool /\ results' = results
  OBVIOUS
<1>g. Grows(Untold) => results' = results
  BY <1>0, ResultsKept
<1>r. \A type : EndsWithErrors(type)' <=> EndsWith(log', type)
  BY DEF EndsWithErrors, EndsWith, Recent
<1> HIDE DEF brain, tool, results
<1>2. CASE Exhausted
  <2>1. /\ pc = "plan" /\ turn = MaxIterations /\ pc' = "over" /\ log' = log
        /\ outcome' = <<"aborted", "max iterations">>
    BY <1>2 DEF Exhausted, End
  <2>2. results' = MaxIterations /\ outcome'[2] = "max iterations"
    BY <1>1, <1>k, <2>1
  <2>3. ReasonKept'
    BY <2>2 DEF ReasonKept, results, ResultsIn
  <2> QED BY <1>c, <2>1, <2>3
<1>3. CASE TooDear
  <2>1. /\ pc' = "over" /\ log' = log /\ Spend(log) >= CostCeiling
        /\ outcome' = <<"aborted", "cost ceiling">>
    BY <1>3 DEF TooDear, End
  <2>2. outcome'[2] = "cost ceiling" /\ Spend(log') >= CostCeiling
    BY <2>1
  <2>3. ReasonKept'
    BY <2>2 DEF ReasonKept
  <2> QED BY <1>c, <2>1, <2>3
<1>4. CASE Complete \/ AskHelp
  <2>1. pc' = "over" /\ (outcome' = <<"completed", "">> \/ outcome' = <<"needs_help", "">>)
    BY <1>4 DEF Complete, AskHelp, End
  <2>2. outcome'[2] = ""
    <3>1. CASE outcome' = <<"completed", "">>
      BY <3>1
    <3>2. CASE outcome' = <<"needs_help", "">>
      BY <3>2
    <3> QED BY <2>1, <3>1, <3>2
  <2>3. ReasonKept'
    BY <2>1, <2>2 DEF ReasonKept
  <2> QED BY <1>c, <2>1, <2>3
<1>5. CASE BrainRaises
  <2>1. /\ pc' = "over" /\ outcome' = <<"aborted", "unhandled exception in loop">>
        /\ log' = Append(log, [type |-> "loop_error"])
    BY <1>5 DEF BrainRaises, AppendEvent, End
  <2>2. outcome'[2] = "unhandled exception in loop"
    BY <2>1
  <2>3. PICK e \in Event : e = [type |-> "loop_error"]
    BY EventTypes
  <2>4. e.type = "loop_error" /\ log' = Append(log, e)
    BY <2>1, <2>3
  <2>5. log' # <<>> /\ log'[Len(log')] = e
    BY <1>0, <2>4
  <2>6. ReasonKept'
    BY <2>2, <2>4, <2>5 DEF ReasonKept
  <2> QED BY <1>c, <2>1, <2>6
<1>16. CASE ParseFails
  <2>1. /\ pc' = "over" /\ outcome' = <<"aborted", "malformed provider response">>
        /\ log' = Append(log, [type |-> "brain_error", retryable |-> FALSE])
    BY <1>16 DEF ParseFails, AppendEvent, End
  <2>2. outcome'[2] = "malformed provider response"
    BY <2>1
  <2>3. PICK e \in Event : e = [type |-> "brain_error", retryable |-> FALSE]
    BY EventTypes
  <2>4. ~e.retryable /\ log' = Append(log, e)
    BY <2>1, <2>3
  <2>5. log'[Len(log')] = e
    BY <1>0, <2>4
  <2>6. EndsWith(log', "brain_error")
    BY <1>0, <2>1, LastError
  <2>7. ReasonKept'
    BY <1>r, <2>2, <2>4, <2>5, <2>6 DEF ReasonKept
  <2> QED BY <1>c, <2>1, <2>7
<1>6. CASE Plan
  <2>1. /\ pc = "plan" /\ pc' = "ask" /\ log' = log /\ turn' = turn + 1 /\ attempt' = 1
    BY <1>6 DEF Plan, PlanBelow
  <2>2. log = <<>> \/ log[Len(log)].type \notin {"brain_error", "thinking_delta"}
    BY <1>1, <2>1
  <2>3. brain = 0
    BY <1>0, <2>2, RecentNone DEF brain
  <2>4. brain' = attempt' - 1 /\ results' = turn' - 1
    BY <1>0, <1>1, <1>k, <2>1, <2>3
  <2> QED BY <1>c, <2>1, <2>4
<1>7. CASE StreamOpens \/ FeedFrame
  <2>1. /\ pc \in {"ask", "stream"} /\ pc' = "stream"
        /\ attempt' = attempt /\ turn' = turn
    BY <1>7 DEF StreamOpens, FeedFrame
  <2>2. log' = log \/ log' = Append(log, [type |-> "thinking_delta"])
    BY <1>7 DEF StreamOpens, FeedFrame, AppendEvent
  <2>3. brain' = brain /\ results' = results
    <3>1. CASE log' = log
      BY <1>k, <3>1
    <3>2. CASE log' = Append(log, [type |-> "thinking_delta"])
      <4>1. PICK e \in Event : e = [type |-> "thinking_delta"]
        BY EventTypes
      <4>2. log' = Append(log, e) /\ e.type = "thinking_delta"
        BY <3>2, <4>1
      <4>3. brain' = brain
        <5>1. Cardinality(Recent(log', "brain_error")) = Cardinality(Recent(log, "brain_error"))
          BY <1>0, <4>2, RecentKept
        <5> QED BY <5>1 DEF brain
      <4>4. results' = results
        <5>1. Cardinality(ResultsIn(log')) = Cardinality(ResultsIn(log))
          BY <1>0, <4>2, ResultsAppend
        <5> QED BY <5>1 DEF results
      <4> QED BY <4>3, <4>4
    <3> QED BY <2>2, <3>1, <3>2
  <2> QED BY <1>1, <1>c, <2>1, <2>3
<1>8. CASE Answers \/ StreamEnds
  <2>1. /\ pc \in {"ask", "stream"} /\ pc' = "parse" /\ log' = log /\ turn' = turn
    BY <1>8 DEF Answers, StreamEnds
  <2> QED BY <1>1, <1>c, <1>k, <2>1
<1>9. CASE CallFails
  <2>1. PICK retryable \in BOOLEAN :
           /\ log' = Append(log, [type |-> "brain_error", retryable |-> retryable])
           /\ IF retryable /\ attempt <= RetryBudget
              THEN pc' = "ask" /\ attempt' = attempt + 1 /\ UNCHANGED outcome
              ELSE End("aborted", "brain call failed") /\ UNCHANGED attempt
    BY <1>9 DEF CallFails, CallFailsWithin, AppendEvent
  <2>2. pc \in {"ask", "stream"} /\ turn' = turn
    BY <1>9 DEF CallFails, CallFailsWithin
  <2>3. brain = attempt - 1 /\ attempt >= 1 /\ attempt <= RetryBudget + 1
    BY <1>1, <1>t, <2>2
  <2>4. CASE retryable /\ attempt <= RetryBudget
    <3>1. pc' = "ask" /\ attempt' = attempt + 1
      BY <2>1, <2>4
    <3>2. PICK e \in Event : e = [type |-> "brain_error", retryable |-> retryable]
      BY EventTypes
    <3>3. e.type = "brain_error" /\ e.retryable /\ log' = Append(log, e)
      BY <2>1, <2>4, <3>2
    <3>4. brain' = brain + 1
      <4>1. Cardinality(Recent(log', "brain_error")) = Cardinality(Recent(log, "brain_error")) + 1
        BY <1>0, <3>3, RecentJoins
      <4> QED BY <4>1 DEF brain
    <3>5. results' = results
      <4>1. Cardinality(ResultsIn(log')) = Cardinality(ResultsIn(log))
        BY <1>0, <3>3, ResultsAppend
      <4> QED BY <4>1 DEF results
    <3>6. brain' = attempt' - 1 /\ results' = turn' - 1
      BY <1>0, <1>1, <2>2, <2>3, <3>1, <3>4, <3>5
    <3> QED BY <1>c, <3>1, <3>6
  <2>5. CASE ~(retryable /\ attempt <= RetryBudget)
    <3>1. pc' = "over" /\ outcome' = <<"aborted", "brain call failed">>
      BY <2>1, <2>5 DEF End
    <3>2. retryable => Cardinality(Recent(log, "brain_error")) = RetryBudget
      BY <1>0, <1>b, <2>3, <2>5 DEF brain
    <3>3. EndsWith(log', "brain_error")
      BY <1>0, <2>1, <3>2, LastError
    <3>4. outcome'[2] = "brain call failed"
      BY <3>1
    <3>5. ReasonKept'
      BY <1>r, <3>3, <3>4 DEF ReasonKept
    <3> QED BY <1>c, <3>1, <3>5
  <2> QED BY <2>4, <2>5
<1>10. CASE Decide \/ CapturePrey
  <2>1. pc \in {"parse", "act"} /\ pc' = "act" /\ turn' = turn
    BY <1>10 DEF Decide, CapturePrey
  <2>2. Grows(Untold)
    <3>1. PICK c \in Nat : c = CostOf(asm.usage)
      BY CostType
    <3>2. PICK e \in Event : e = [type |-> "usage", cost |-> c]
      BY EventTypes
    <3>3. PICK d \in Event : d = [type |-> "prey_captured"]
      BY EventTypes
    <3>4. e.type \in Untold /\ d.type \in Untold
      BY <3>2, <3>3 DEF Untold
    <3> QED BY <1>10, <3>1, <3>2, <3>3, <3>4 DEF Decide, CapturePrey, AppendEvent, Grows
  <2> QED BY <1>1, <1>c, <1>g, <2>1, <2>2
<1>11. CASE Refuse
  <2>1. /\ log' = Append(log, [type |-> "tool_error", retryable |-> FALSE])
        /\ pc' = "over" /\ outcome' = <<"aborted", "tool failure">>
    BY <1>11 DEF Refuse, AppendEvent, End
  <2>2. EndsWith(log', "tool_error")
    BY <1>0, <2>1, LastError
  <2>3. outcome'[2] = "tool failure"
    BY <2>1
  <2>4. ReasonKept'
    BY <1>r, <2>2, <2>3 DEF ReasonKept
  <2> QED BY <1>c, <2>1, <2>4
<1>12. CASE Dispatch
  <2>1. /\ pc = "act" /\ pc' = "execute" /\ turn' = turn /\ attempt' = 1
        /\ log' = Append(log, [type |-> "tool_call", id |-> turn, thinking |-> decision.thinking])
    BY <1>12 DEF Dispatch, AppendEvent
  <2>2. decision.thinking \in {"none", "verbatim", "damaged"}
    BY DEF Control, Choice
  <2>3. PICK e \in Event : e = [type |-> "tool_call", id |-> turn, thinking |-> decision.thinking]
    BY <1>0, <2>2, EventTypes
  <2>4. e.type = "tool_call" /\ log' = Append(log, e)
    BY <2>1, <2>3
  <2>5. log'[Len(log')] = e
    BY <1>0, <2>4
  <2>6. tool' = 0
    <3>1. Cardinality(Recent(log', "tool_error")) = 0
      BY <1>l, <2>4, <2>5, RecentNone
    <3> QED BY <3>1 DEF tool
  <2>7. results' = results
    <3>1. Cardinality(ResultsIn(log')) = Cardinality(ResultsIn(log))
      BY <1>0, <2>4, ResultsAppend
    <3> QED BY <3>1 DEF results
  <2> QED BY <1>1, <1>c, <2>1, <2>6, <2>7
<1>13. CASE ToolReturns
  <2>1. /\ pc = "execute" /\ pc' = "plan" /\ turn' = turn
        /\ log' = Append(log, [type |-> "tool_result", id |-> turn])
    BY <1>13 DEF ToolReturns, AppendEvent
  <2>2. PICK e \in Event : e = [type |-> "tool_result", id |-> turn]
    BY <1>0, EventTypes
  <2>3. e.type = "tool_result" /\ log' = Append(log, e)
    BY <2>1, <2>2
  <2>4. log'[Len(log')] = e
    BY <1>0, <2>3
  <2>5. results' = results + 1
    <3>1. Cardinality(ResultsIn(log')) = Cardinality(ResultsIn(log)) + 1
      BY <1>0, <2>3, ResultsAppend
    <3> QED BY <3>1 DEF results
  <2>6. results' = turn'
    BY <1>0, <1>1, <2>1, <2>5
  <2> QED BY <1>c, <2>1, <2>3, <2>4, <2>6
<1>14. CASE ToolFails
  <2>1. PICK retryable \in BOOLEAN :
           /\ log' = Append(log, [type |-> "tool_error", retryable |-> retryable])
           /\ IF retryable /\ attempt <= RetryBudget
              THEN attempt' = attempt + 1 /\ UNCHANGED <<pc, outcome>>
              ELSE End("aborted", "tool failure") /\ UNCHANGED attempt
    BY <1>14 DEF ToolFails, ToolFailsUntil, AppendEvent
  <2>2. pc = "execute" /\ turn' = turn
    BY <1>14 DEF ToolFails, ToolFailsUntil
  <2>3. tool = attempt - 1 /\ attempt >= 1 /\ attempt <= RetryBudget + 1
    BY <1>1, <1>t, <2>2
  <2>4. CASE retryable /\ attempt <= RetryBudget
    <3>1. pc' = "execute" /\ attempt' = attempt + 1
      BY <2>1, <2>2, <2>4
    <3>2. PICK e \in Event : e = [type |-> "tool_error", retryable |-> retryable]
      BY EventTypes
    <3>3. e.type = "tool_error" /\ e.retryable /\ log' = Append(log, e)
      BY <2>1, <2>4, <3>2
    <3>4. tool' = tool + 1
      <4>1. Cardinality(Recent(log', "tool_error")) = Cardinality(Recent(log, "tool_error")) + 1
        BY <1>0, <3>3, RecentJoins
      <4> QED BY <4>1 DEF tool
    <3>5. results' = results
      <4>1. Cardinality(ResultsIn(log')) = Cardinality(ResultsIn(log))
        BY <1>0, <3>3, ResultsAppend
      <4> QED BY <4>1 DEF results
    <3>6. tool' = attempt' - 1 /\ results' = turn' - 1
      BY <1>0, <1>1, <2>2, <2>3, <3>1, <3>4, <3>5
    <3> QED BY <1>c, <3>1, <3>6
  <2>5. CASE ~(retryable /\ attempt <= RetryBudget)
    <3>1. pc' = "over" /\ outcome' = <<"aborted", "tool failure">>
      BY <2>1, <2>5 DEF End
    <3>2. retryable => Cardinality(Recent(log, "tool_error")) = RetryBudget
      BY <1>0, <1>b, <2>3, <2>5 DEF tool
    <3>3. EndsWith(log', "tool_error")
      BY <1>0, <2>1, <3>2, LastError
    <3>4. outcome'[2] = "tool failure"
      BY <3>1
    <3>5. ReasonKept'
      BY <1>r, <3>3, <3>4 DEF ReasonKept
    <3> QED BY <1>c, <3>1, <3>5
  <2> QED BY <2>4, <2>5
<1>15. CASE UNCHANGED vars
  BY <1>15 DEF vars, Retrying, ReasonKept, EndsWithErrors, Recent, ResultsIn
<1> QED BY <1>2, <1>3, <1>4, <1>5, <1>6, <1>7, <1>8, <1>9, <1>10, <1>11, <1>12, <1>13,
           <1>14, <1>15, <1>16 DEF Next

LEMMA UnscathedGrows ==
    ASSUME NEW l \in Seq(Event), NEW e \in Event, Unscathed(l)
    PROVE  /\ ~Fatal(e) => Unscathed(Append(l, e))
           /\ \A i \in DOMAIN Append(l, e) : Fatal(Append(l, e)[i]) => i = Len(Append(l, e))
<1>1. PICK n \in Nat : n = Len(l)
  OBVIOUS
<1>2. Appended(Append(l, e), Event, l, n, e)
  BY <1>1, OneMore
<1>3. ASSUME NEW i \in DOMAIN Append(l, e), i # n + 1
      PROVE  ~Fatal(Append(l, e)[i])
  <2>1. i \in DOMAIN l /\ Append(l, e)[i] = l[i]
    BY <1>1, <1>2, <1>3 DEF Appended
  <2> QED BY <2>1 DEF Unscathed
<1>4. Len(Append(l, e)) = n + 1 /\ Append(l, e)[n + 1] = e
  BY <1>2 DEF Appended
<1> QED BY <1>3, <1>4 DEF Unscathed

\* A failure that is not retried ends the hunt.
LEMMA SurvivingStep ==
    ASSUME Control, Control', Surviving, [Next]_vars
    PROVE  Surviving'
<1>0. log \in Seq(Event)
  BY DEF Control, TypeOK
<1>o. (outcome = <<>> <=> pc # "over") /\ (outcome' = <<>> <=> pc' # "over")
  BY DEF Control, TypeOK
<1>1. CASE UNCHANGED vars
  BY <1>1 DEF vars, Surviving, Unscathed
<1>2. CASE pc # "over"
  <2>0. Unscathed(log)
    BY <1>2 DEF Surviving
  <2>a. ASSUME Grows({"thinking_delta", "prey_captured", "usage", "tool_call", "tool_result"})
        PROVE  Surviving'
    <3>1. CASE log' = log
      BY <1>o, <2>0, <3>1 DEF Surviving, Unscathed
    <3>2. ASSUME NEW e \in Event, log' = Append(log, e),
                 e.type \in {"thinking_delta", "prey_captured", "usage", "tool_call", "tool_result"}
          PROVE  Surviving'
      <4>1. ~Fatal(e)
        BY <3>2 DEF Fatal
      <4>2. Unscathed(log')
        BY <1>0, <2>0, <3>2, <4>1, UnscathedGrows
      <4> QED BY <4>2 DEF Surviving, Unscathed
    <3> QED BY <2>a, <3>1, <3>2 DEF Grows
  <2>b. ASSUME NEW e \in Event, log' = Append(log, e),
               ~Fatal(e) \/ (pc' = "over" /\ outcome'[2] \in FatalReasons)
        PROVE  Surviving'
    <3>1. CASE ~Fatal(e)
      <4>1. Unscathed(log')
        BY <1>0, <2>0, <2>b, <3>1, UnscathedGrows
      <4> QED BY <4>1 DEF Surviving, Unscathed
    <3>2. CASE pc' = "over" /\ outcome'[2] \in FatalReasons
      <4>1. \A i \in DOMAIN log' : Fatal(log'[i]) => i = Len(log')
        BY <1>0, <2>0, <2>b, UnscathedGrows
      <4> QED BY <3>2, <4>1 DEF Surviving
    <3> QED BY <2>b, <3>1, <3>2
  <2>c. ASSUME NEW type \in {"brain_error", "tool_error"}, NEW retryable \in BOOLEAN,
               log' = Append(log, [type |-> type, retryable |-> retryable]),
               retryable \/ (pc' = "over" /\ outcome'[2] \in FatalReasons)
        PROVE  Surviving'
    <3>1. PICK e \in Event : e = [type |-> type, retryable |-> retryable]
      BY EventTypes
    <3>2. e.type = type /\ e.retryable = retryable /\ log' = Append(log, e)
      BY <2>c, <3>1
    <3>3. retryable => ~Fatal(e)
      BY <3>2 DEF Fatal
    <3> QED BY <2>b, <2>c, <3>2, <3>3
  <2>1. CASE Exhausted \/ TooDear \/ Plan \/ StreamOpens \/ Answers \/ StreamEnds
             \/ Complete \/ AskHelp
    BY <2>a, <2>1 DEF Exhausted, TooDear, Plan, PlanBelow, StreamOpens, Answers, StreamEnds,
                      Complete, AskHelp, Grows
  <2>2. CASE FeedFrame
    <3>1. PICK e \in Event : e = [type |-> "thinking_delta"]
      BY EventTypes
    <3>2. e.type = "thinking_delta"
      BY <3>1
    <3> QED BY <2>a, <2>2, <3>1, <3>2 DEF FeedFrame, AppendEvent, Grows
  <2>3. CASE Decide
    <3>1. PICK e \in Event : e = [type |-> "usage", cost |-> CostOf(asm.usage)]
      BY EventTypes, CostType
    <3>2. e.type = "usage"
      BY <3>1
    <3> QED BY <2>a, <2>3, <3>1, <3>2 DEF Decide, AppendEvent, Grows
  <2>4. CASE CapturePrey
    <3>1. PICK e \in Event : e = [type |-> "prey_captured"]
      BY EventTypes
    <3>2. e.type = "prey_captured"
      BY <3>1
    <3> QED BY <2>a, <2>4, <3>1, <3>2 DEF CapturePrey, AppendEvent, Grows
  <2>5. CASE Dispatch
    <3>1. decision.thinking \in {"none", "verbatim", "damaged"} /\ turn \in Nat
      BY Bounds DEF Control, TypeOK, Choice
    <3>2. PICK e \in Event : e = [type |-> "tool_call", id |-> turn, thinking |-> decision.thinking]
      BY <3>1, EventTypes
    <3>3. e.type = "tool_call"
      BY <3>2
    <3> QED BY <2>a, <2>5, <3>2, <3>3 DEF Dispatch, AppendEvent, Grows
  <2>6. CASE ToolReturns
    <3>1. turn \in Nat
      BY Bounds DEF Control, TypeOK
    <3>2. PICK e \in Event : e = [type |-> "tool_result", id |-> turn]
      BY <3>1, EventTypes
    <3>3. e.type = "tool_result"
      BY <3>2
    <3> QED BY <2>a, <2>6, <3>2, <3>3 DEF ToolReturns, AppendEvent, Grows
  <2>7. CASE BrainRaises
    <3>1. PICK e \in Event : e = [type |-> "loop_error"]
      BY EventTypes
    <3>2. /\ log' = Append(log, e) /\ pc' = "over"
          /\ outcome' = <<"aborted", "unhandled exception in loop">>
      BY <2>7, <3>1 DEF BrainRaises, AppendEvent, End
    <3>3. outcome'[2] \in FatalReasons
      BY <3>2 DEF FatalReasons
    <3> QED BY <2>b, <3>2, <3>3
  <2>8. CASE ParseFails
    <3>1. /\ log' = Append(log, [type |-> "brain_error", retryable |-> FALSE]) /\ pc' = "over"
          /\ outcome' = <<"aborted", "malformed provider response">>
      BY <2>8 DEF ParseFails, AppendEvent, End
    <3>2. outcome'[2] \in FatalReasons
      BY <3>1 DEF FatalReasons
    <3> QED BY <2>c, <3>1, <3>2
  <2>9. CASE Refuse
    <3>1. /\ log' = Append(log, [type |-> "tool_error", retryable |-> FALSE]) /\ pc' = "over"
          /\ outcome' = <<"aborted", "tool failure">>
      BY <2>9 DEF Refuse, AppendEvent, End
    <3>2. outcome'[2] \in FatalReasons
      BY <3>1 DEF FatalReasons
    <3> QED BY <2>c, <3>1, <3>2
  <2>10. CASE CallFails
    <3>1. PICK retryable \in BOOLEAN :
             /\ log' = Append(log, [type |-> "brain_error", retryable |-> retryable])
             /\ retryable \/ (pc' = "over" /\ outcome' = <<"aborted", "brain call failed">>)
      BY <2>10 DEF CallFails, CallFailsWithin, AppendEvent, End
    <3>2. ASSUME outcome' = <<"aborted", "brain call failed">> PROVE outcome'[2] \in FatalReasons
      <4>1. outcome'[2] = "brain call failed"
        BY <3>2
      <4> QED BY <4>1 DEF FatalReasons
    <3> QED BY <2>c, <3>1, <3>2
  <2>11. CASE ToolFails
    <3>1. PICK retryable \in BOOLEAN :
             /\ log' = Append(log, [type |-> "tool_error", retryable |-> retryable])
             /\ retryable \/ (pc' = "over" /\ outcome' = <<"aborted", "tool failure">>)
      BY <2>11 DEF ToolFails, ToolFailsUntil, AppendEvent, End
    <3>2. ASSUME outcome' = <<"aborted", "tool failure">> PROVE outcome'[2] \in FatalReasons
      <4>1. outcome'[2] = "tool failure"
        BY <3>2
      <4> QED BY <4>1 DEF FatalReasons
    <3> QED BY <2>c, <3>1, <3>2
  <2> QED BY <1>1, <2>1, <2>2, <2>3, <2>4, <2>5, <2>6, <2>7, <2>8, <2>9, <2>10, <2>11 DEF Next
<1>3. CASE pc = "over"
  <2>1. UNCHANGED vars
    BY <1>3 DEF Next, Exhausted, TooDear, Plan, PlanBelow, StreamOpens, Answers, FeedFrame,
                StreamEnds, CallFails, CallFailsWithin, BrainRaises, ParseFails, Decide, Refuse,
                Dispatch, ToolReturns, ToolFails, ToolFailsUntil, CapturePrey, Complete, AskHelp
  <2> QED BY <1>1, <2>1
<1> QED BY <1>2, <1>3

(* The outcome and reason of a finished hunt are what its log tells: the   *)
(* failure it names, with its retries, and none that it does not name.     *)
THEOREM ReasonIsTold == Spec => []ReasonTold
<1>1. Init => Retrying
  <2> SUFFICES ASSUME Init PROVE Retrying
    OBVIOUS
  <2>0. log = <<>> /\ pc = "plan" /\ turn = 0 /\ outcome = <<>>
    BY DEF Init
  <2>1. DOMAIN log = {}
    BY <2>0
  <2>2. ResultsIn(log) = {}
    BY <2>1 DEF ResultsIn
  <2>3. Cardinality(ResultsIn(log)) = 0
    BY <2>2, FS_EmptySet
  <2>4. ReasonKept
    BY <2>0 DEF ReasonKept
  <2> QED BY <2>0, <2>3, <2>4 DEF Retrying
<1>2. Control /\ Control' /\ Retrying /\ [Next]_vars => Retrying'
  BY RetryingStep
<1>3. Init => Surviving
  <2> SUFFICES ASSUME Init PROVE Surviving
    OBVIOUS
  <2>1. log = <<>> /\ outcome = <<>>
    BY DEF Init
  <2>2. DOMAIN log = {}
    BY <2>1
  <2> QED BY <2>1, <2>2 DEF Surviving, Unscathed
<1>4. Control /\ Control' /\ Surviving /\ [Next]_vars => Surviving'
  BY SurvivingStep
<1>5. Retrying /\ Surviving => ReasonTold
  BY DEF Retrying, ReasonKept, Surviving, ReasonTold
<1> QED BY <1>1, <1>2, <1>3, <1>4, <1>5, ControlInvariant, PTL DEF Spec

-----------------------------------------------------------------------------
(* The thinking a call carries is the whole block or none.                 *)

RelayedBefore(l, i) == \E j \in 1..(i - 1) :
                          /\ l[j].type = "thinking_delta"
                          /\ \A k \in (j + 1)..(i - 1) : l[k].type \notin {"tool_call", "tool_result"}

Carries(l, i) == /\ l[i].thinking # "damaged"
                 /\ l[i].thinking = "verbatim" => RelayedBefore(l, i)

Carried(l) == \A i \in CallsOf(l) : Carries(l, i)

\* Positions of the old log, in the new one.
LEMMA RelayedBeforeKept ==
    ASSUME NEW l \in Seq(Event), NEW e \in Event, NEW m, m = Append(l, e), NEW i \in 1..Len(l)
    PROVE  RelayedBefore(l, i) => RelayedBefore(m, i)
<1>1. PICK n \in Nat : n = Len(l)
  OBVIOUS
<1>2. Appended(m, Event, l, n, e)
  BY <1>1, OneMore
<1>3. \A j \in 1..n : m[j] = l[j]
  BY <1>1, <1>2 DEF Appended
<1>4. i \in 1..n
  BY <1>1
<1>5. \A j \in 1..(i - 1) : j \in 1..n /\ (j + 1)..(i - 1) \subseteq 1..n
  BY <1>1, <1>4
<1> QED BY <1>3, <1>5 DEF RelayedBefore

LEMMA RelayedLater ==
    ASSUME NEW l \in Seq(Event), NEW e \in Event, NEW m, m = Append(l, e)
    PROVE  /\ e.type \notin {"tool_call", "tool_result"} => (Relayed(l) => Relayed(m))
           /\ e.type = "thinking_delta" => Relayed(m)
           /\ Relayed(l) => RelayedBefore(m, Len(l) + 1)
<1>1. PICK n \in Nat : n = Len(l)
  OBVIOUS
<1>2. Appended(m, Event, l, n, e)
  BY <1>1, OneMore
<1>3. /\ DOMAIN m = 1..(n + 1) /\ DOMAIN l = 1..n /\ Len(m) = n + 1
      /\ m[n + 1] = e /\ \A i \in 1..n : m[i] = l[i]
  BY <1>1, <1>2 DEF Appended
<1>4. ASSUME e.type \notin {"tool_call", "tool_result"}, Relayed(l)
      PROVE  Relayed(m)
  <2>1. PICK j \in 1..n : /\ l[j].type = "thinking_delta"
                          /\ \A k \in (j + 1)..n : l[k].type \notin {"tool_call", "tool_result"}
    BY <1>1, <1>3, <1>4 DEF Relayed
  <2>2. j \in 1..(n + 1) /\ m[j].type = "thinking_delta"
    BY <1>1, <1>3, <2>1
  <2>3. \A k \in (j + 1)..(n + 1) : k = n + 1 \/ (k \in (j + 1)..n /\ k \in 1..n)
    BY <1>1
  <2>4. \A k \in (j + 1)..(n + 1) : m[k].type \notin {"tool_call", "tool_result"}
    BY <1>3, <1>4, <2>1, <2>3
  <2> QED BY <1>3, <2>2, <2>4 DEF Relayed
<1>5. ASSUME e.type = "thinking_delta" PROVE Relayed(m)
  <2>1. n + 1 \in 1..(n + 1) /\ ((n + 1) + 1)..(n + 1) = {}
    BY <1>1
  <2> QED BY <1>3, <1>5, <2>1 DEF Relayed
<1>6. ASSUME Relayed(l) PROVE RelayedBefore(m, n + 1)
  <2>1. PICK j \in 1..n : /\ l[j].type = "thinking_delta"
                          /\ \A k \in (j + 1)..n : l[k].type \notin {"tool_call", "tool_result"}
    BY <1>1, <1>3, <1>6 DEF Relayed
  <2>2. (n + 1) - 1 = n /\ (j + 1)..n \subseteq 1..n
    BY <1>1
  <2> QED BY <1>3, <2>1, <2>2 DEF RelayedBefore
<1> QED BY <1>1, <1>4, <1>5, <1>6

LEMMA CarriedKept ==
    ASSUME NEW l \in Seq(Event), NEW e \in Event, Carried(l),
           e.type = "tool_call" => /\ e.thinking # "damaged"
                                   /\ e.thinking = "verbatim" => Relayed(l)
    PROVE  Carried(Append(l, e))
<1>0. PICK m : m = Append(l, e)
  OBVIOUS
<1>1. PICK n \in Nat : n = Len(l)
  OBVIOUS
<1>2. Appended(m, Event, l, n, e)
  BY <1>0, <1>1, OneMore
<1>3. /\ DOMAIN m = 1..(n + 1) /\ DOMAIN l = 1..n
      /\ m[n + 1] = e /\ \A i \in 1..n : m[i] = l[i]
  BY <1>1, <1>2 DEF Appended
<1>4. \A i : i \in 1..(n + 1) <=> i \in 1..n \/ i = n + 1
  BY <1>1
<1>5. ASSUME NEW i \in CallsOf(m) PROVE Carries(m, i)
  <2>1. i \in 1..(n + 1) /\ m[i].type = "tool_call"
    BY <1>3 DEF CallsOf
  <2>2. CASE i \in 1..n
    <3>1. i \in CallsOf(l) /\ m[i] = l[i]
      BY <1>3, <2>1, <2>2 DEF CallsOf
    <3>2. Carries(l, i)
      BY <3>1 DEF Carried
    <3>3. RelayedBefore(l, i) => RelayedBefore(m, i)
      BY <1>0, <1>1, <2>2, RelayedBeforeKept
    <3> QED BY <3>1, <3>2, <3>3 DEF Carries
  <2>3. CASE i = n + 1
    <3>1. e.type = "tool_call" /\ m[i] = e
      BY <1>3, <2>1, <2>3
    <3>2. Relayed(l) => RelayedBefore(m, i)
      BY <1>0, <1>1, <2>3, RelayedLater
    <3> QED BY <3>1, <3>2 DEF Carries
  <2> QED BY <1>4, <2>1, <2>2, <2>3
<1> QED BY <1>0, <1>5 DEF Carried

LEMMA ThinkingKept ==
    ASSUME log \in Seq(Event), Grows(Untold)
    PROVE  /\ Carried(log) => Carried(log')
           /\ Relayed(log) => Relayed(log')
<1>1. CASE log' = log
  BY <1>1
<1>2. CASE \E e \in Event : e.type \in Untold /\ log' = Append(log, e)
  <2>1. PICK e \in Event : e.type \in Untold /\ log' = Append(log, e)
    BY <1>2
  <2>2. e.type \notin {"tool_call", "tool_result"} /\ e.type # "tool_call"
    BY <2>1 DEF Untold
  <2>3. Carried(log) => Carried(log')
    BY <2>1, <2>2, CarriedKept
  <2>4. Relayed(log) => Relayed(log')
    BY <2>1, <2>2, RelayedLater
  <2> QED BY <2>3, <2>4
<1> QED BY <1>1, <1>2 DEF Grows

LEMMA CarriedIs == ThinkingVerbatim <=> Carried(log)
BY DEF ThinkingVerbatim, ToolCalls, Carried, Carries, RelayedBefore, CallsOf

LEMMA ThinkingStep ==
    ASSUME Control, Thinking, [Next]_vars
    PROVE  Thinking'
<1>0. log \in Seq(Event) /\ turn \in Nat /\ reply \in Replies \cup {NoReply}
  <2>1. log \in Seq(Event) /\ turn \in 0..MaxIterations /\ reply \in Replies \cup {NoReply}
    BY DEF Control, TypeOK
  <2> QED BY <2>1, Bounds
<1>1. /\ Carried(log)
      /\ pc \in {"stream", "parse"} /\ reply.thinking /\ fed >= 3 => Relayed(log)
      /\ pc = "act" => /\ decision.thinking # "damaged"
                       /\ decision.thinking = "verbatim" => Relayed(log)
  BY CarriedIs DEF Thinking
<1>c. ASSUME Carried(log'),
             pc' \in {"stream", "parse"} /\ reply'.thinking /\ fed' >= 3 => Relayed(log'),
             pc' = "act" => /\ decision'.thinking # "damaged"
                            /\ decision'.thinking = "verbatim" => Relayed(log')
      PROVE  Thinking'
  <2>1. ThinkingVerbatim' <=> Carried(log')
    BY DEF ThinkingVerbatim, ToolCalls, Carried, Carries, RelayedBefore, CallsOf
  <2> QED BY <1>c, <2>1 DEF Thinking
<1>k. Grows(Untold) => Carried(log') /\ (Relayed(log) => Relayed(log'))
  BY <1>0, <1>1, ThinkingKept
<1>2. CASE Ends
  <2>1. pc' = "over" /\ Grows(Untold)
    BY <1>2 DEF Ends
  <2> QED BY <1>c, <1>k, <2>1
<1>3. CASE Plan
  <2>1. pc' = "ask" /\ log' = log
    BY <1>3 DEF Plan, PlanBelow
  <2> QED BY <1>1, <1>c, <2>1
<1>4. CASE RunsAgain
  <2>1. pc' = "execute" /\ Grows(Untold)
    BY <1>4 DEF RunsAgain, Grows, Untold
  <2> QED BY <1>c, <1>k, <2>1
<1>5. CASE StreamOpens
  <2>1. pc' = "stream" /\ log' = log /\ fed' = 0
    BY <1>5 DEF StreamOpens
  <2> QED BY <1>1, <1>c, <2>1
<1>6. CASE Answers
  <2>1. pc' = "parse" /\ log' = log /\ ~reply'.thinking
    BY <1>6 DEF Answers
  <2> QED BY <1>1, <1>c, <2>1
<1>7. CASE StreamEnds
  <2>1. pc = "stream" /\ pc' = "parse" /\ log' = log /\ reply' = reply /\ fed' = fed
    BY <1>7 DEF StreamEnds, stream
  <2> QED BY <1>1, <1>c, <2>1
<1>8. CASE FeedFrame
  <2>1. /\ pc = "stream" /\ pc' = "stream" /\ reply' = reply /\ fed' = fed + 1
        /\ IF Frames(reply)[fed + 1].type = "thinking_delta"
           THEN log' = Append(log, [type |-> "thinking_delta"]) ELSE log' = log
    BY <1>8 DEF FeedFrame, NextFrame, AppendEvent
  <2>2. PICK e \in Event : e = [type |-> "thinking_delta"]
    BY EventTypes
  <2>3. e.type = "thinking_delta" /\ e.type \in Untold
    BY <2>2 DEF Untold
  <2>4. Grows(Untold)
    BY <2>1, <2>2, <2>3 DEF Grows
  <2>5. ASSUME reply.thinking, fed' >= 3 PROVE Relayed(log')
    <3>1. fed \in Nat
      <4>1. Len(Frames(reply)) \in Nat
        BY <1>0, ReplyFrames
      <4> QED BY <4>1 DEF Control, TypeOK
    <3>2. CASE fed >= 3
      BY <1>1, <1>k, <2>1, <2>4, <2>5, <3>2
    <3>3. CASE fed = 2
      <4>1. AreFrames(Frames(reply), reply, Len(reply.tools))
        BY <1>0, ReplyFrames
      <4>2. ThinkingFirst(Frames(reply))
        BY <2>5, <4>1 DEF AreFrames
      <4>3. Frames(reply)[3].type = "thinking_delta"
        BY <4>2 DEF ThinkingFirst
      <4>4. log' = Append(log, e)
        BY <2>1, <2>2, <3>3, <4>3
      <4> QED BY <1>0, <2>3, <4>4, RelayedLater
    <3> QED BY <2>1, <2>5, <3>1, <3>2, <3>3
  <2> QED BY <1>c, <1>k, <2>1, <2>4, <2>5
<1>9. CASE CallFails /\ TurnsOn
  <2>1. pc' = "ask"
    <3>1. pc' \in {"ask", "over"}
      BY <1>9 DEF CallFails, CallFailsWithin, End
    <3> QED BY <1>9, <3>1 DEF TurnsOn, InATurn
  <2>2. Grows(Untold)
    BY <1>9 DEF TurnsOn, Grows, Untold
  <2> QED BY <1>c, <1>k, <2>1, <2>2
<1>10. CASE Decide
  <2>1. /\ pc = "parse" /\ pc' = "act" /\ ~Malformed(asm, reply)
        /\ decision' = Decision(asm, reply)
    BY <1>10 DEF Decide
  <2>2. Grows(Untold)
    <3>1. PICK c \in Nat : c = CostOf(asm.usage)
      BY CostType
    <3>2. PICK e \in Event : e = [type |-> "usage", cost |-> c]
      BY EventTypes
    <3>3. e.type \in Untold
      BY <3>2 DEF Untold
    <3> QED BY <1>10, <3>1, <3>2, <3>3 DEF Decide, AppendEvent, Grows
  <2>3. PICK k \in 0..Len(Frames(reply)) : /\ Assembled(asm, reply, Len(reply.tools), k)
                                           /\ reply.thinking => k = fed
    BY <2>1 DEF Control, Assembling
  <2>4. IsReply(reply, Len(reply.tools)) /\ k \in Nat
    BY <1>0, <2>3, ReplyFrames
  <2>5. /\ decision'.thinking # "damaged"
        /\ decision'.thinking = "verbatim" => reply.thinking /\ k >= 3
    BY <2>1, <2>3, <2>4, DecisionIs
  <2>6. decision'.thinking = "verbatim" => Relayed(log')
    BY <1>1, <1>k, <2>1, <2>2, <2>3, <2>5
  <2> QED BY <1>c, <1>k, <2>1, <2>2, <2>5, <2>6
<1>11. CASE CapturePrey
  <2>1. pc = "act" /\ pc' = "act" /\ decision' = decision
    BY <1>11 DEF CapturePrey
  <2>2. Grows(Untold)
    <3>1. PICK e \in Event : e = [type |-> "prey_captured"]
      BY EventTypes
    <3>2. e.type \in Untold
      BY <3>1 DEF Untold
    <3> QED BY <1>11, <3>1, <3>2 DEF CapturePrey, AppendEvent, Grows
  <2> QED BY <1>1, <1>c, <1>k, <2>1, <2>2
<1>12. CASE Dispatch
  <2>1. /\ pc = "act" /\ pc' = "execute"
        /\ log' = Append(log, [type |-> "tool_call", id |-> turn, thinking |-> decision.thinking])
    BY <1>12 DEF Dispatch, AppendEvent
  <2>2. decision.thinking \in {"none", "verbatim", "damaged"}
    BY DEF Control, Choice
  <2>3. PICK e \in Event : e = [type |-> "tool_call", id |-> turn, thinking |-> decision.thinking]
    BY <1>0, <2>2, EventTypes
  <2>4. e.thinking = decision.thinking /\ log' = Append(log, e)
    BY <2>1, <2>3
  <2>5. Carried(log')
    BY <1>0, <1>1, <2>1, <2>4, CarriedKept
  <2> QED BY <1>c, <2>1, <2>5
<1>13. CASE ToolReturns
  <2>1. pc' = "plan" /\ log' = Append(log, [type |-> "tool_result", id |-> turn])
    BY <1>13 DEF ToolReturns, AppendEvent
  <2>2. PICK e \in Event : e = [type |-> "tool_result", id |-> turn]
    BY <1>0, EventTypes
  <2>3. e.type # "tool_call" /\ log' = Append(log, e)
    BY <2>1, <2>2
  <2>4. Carried(log')
    BY <1>0, <1>1, <2>3, CarriedKept
  <2> QED BY <1>c, <2>1, <2>4
<1>14. CASE UNCHANGED vars
  <2>1. log' = log /\ pc' = pc /\ reply' = reply /\ fed' = fed /\ decision' = decision
    BY <1>14 DEF vars, stream
  <2> QED BY <1>1, <1>c, <2>1
<1>15. TurnsOn => \/ StreamOpens \/ Answers \/ FeedFrame \/ StreamEnds \/ CallFails \/ Decide
                  \/ CapturePrey \/ Ends \/ Plan \/ Dispatch \/ UNCHANGED vars
  <2> SUFFICES ASSUME TurnsOn,
                      ~(Exhausted \/ TooDear \/ Complete \/ AskHelp \/ BrainRaises \/ ParseFails
                        \/ Refuse) /\ ~(ToolReturns \/ ToolFails)
               PROVE  \/ StreamOpens \/ Answers \/ FeedFrame \/ StreamEnds \/ CallFails \/ Decide
                      \/ CapturePrey \/ Ends \/ Plan \/ Dispatch \/ UNCHANGED vars
    <3>1. TurnsOn => pc \in InATurn /\ pc' \in InATurn
      BY DEF TurnsOn
    <3>2. Exhausted \/ TooDear \/ Complete \/ AskHelp \/ BrainRaises \/ ParseFails \/ Refuse
            => pc' = "over"
      BY DEF Exhausted, TooDear, Complete, AskHelp, BrainRaises, ParseFails, Refuse, End
    <3>3. ToolReturns \/ ToolFails => pc = "execute"
      BY DEF ToolReturns, ToolFails, ToolFailsUntil
    <3> QED BY <3>1, <3>2, <3>3 DEF InATurn
  <2> QED BY DEF Next
<1> QED BY <1>2, <1>3, <1>4, <1>5, <1>6, <1>7, <1>8, <1>9, <1>10, <1>11, <1>12, <1>13,
           <1>14, <1>15, StepKinds

(* adapter_brain_for, _extract_thinking_block: the thinking a tool call    *)
(* carries is the whole signed block or none, wherever its stream was cut, *)
(* and its pieces were relayed before it.                                  *)
THEOREM ThinkingIsVerbatim == Spec => []ThinkingVerbatim
<1>1. Init => Thinking
  <2> SUFFICES ASSUME Init PROVE Thinking
    OBVIOUS
  <2>0. log = <<>> /\ pc = "plan"
    BY DEF Init
  <2>1. DOMAIN log = {}
    BY <2>0
  <2>2. ThinkingVerbatim
    BY <2>1 DEF ThinkingVerbatim, ToolCalls
  <2> QED BY <2>0, <2>2 DEF Thinking
<1>2. Control /\ Thinking /\ [Next]_vars => Thinking'
  BY ThinkingStep
<1>3. Thinking => ThinkingVerbatim
  BY DEF Thinking
<1> QED BY <1>1, <1>2, <1>3, ControlInvariant, PTL DEF Spec

-----------------------------------------------------------------------------
(* HuntView: the card shows the hunt's outcome, and folding is idempotent. *)

(* A hunt's events as rows.                                                *)
Hunts == {"hunt", "other"}

LEMMA RowType ==
    ASSUME NEW e \in Event, NEW id \in Nat, NEW seq \in Nat, NEW run \in Hunts
    PROVE  /\ Row(e, id, seq, run) \in LogRow(Hunts)
           /\ Row(e, id, seq, run).id = id /\ Row(e, id, seq, run).run = run
<1>1. PICK type : type = IF e.type \in {"tool_error", "brain_error", "loop_error"}
                         THEN "error" ELSE e.type
  OBVIOUS
<1>2. type \in {"tool_call", "tool_result", "error", "prey_captured", "thinking_delta", "usage"}
  BY <1>1 DEF Event
<1>3. PICK tool : tool = IF e.type \in {"tool_call", "tool_error"} THEN "tool"
                         ELSE IF e.type \in {"brain_error", "loop_error"}
                         THEN "<brain>" ELSE ""
  OBVIOUS
<1>4. tool \in Labels
  BY <1>3 DEF Labels, None
<1>5. PICK cost : cost = IF e.type = "usage" THEN e.cost ELSE 0
  OBVIOUS
<1>6. cost \in Nat
  BY <1>5 DEF Event
<1>7. Row(e, id, seq, run) = [id |-> id, seq |-> seq, run |-> run, type |-> type, tool |-> tool,
                              cost |-> cost]
  BY <1>1, <1>3, <1>5 DEF Row
<1> QED BY <1>2, <1>4, <1>6, <1>7 DEF LogRow, RowTypes

\* The hunt's log as rows, and its card.
RowsOf(l) == [i \in DOMAIN l |-> Row(l[i], i, i - 1, "hunt")]

Numbers(rows) == \A i \in 1..Len(rows) : rows[i].id = i

CardOf(l) == RunIn(Fold(RowsOf(l)).runs, "hunt")

LEMMA RowsType ==
    ASSUME NEW l \in Seq(Event)
    PROVE  /\ RowsOf(l) \in Seq(LogRow(Hunts)) /\ Len(RowsOf(l)) = Len(l)
           /\ Numbers(RowsOf(l))
<1>1. PICK n \in Nat : n = Len(l) /\ DOMAIN l = 1..n
  OBVIOUS
<1>2. ASSUME NEW i \in 1..n
      PROVE  Row(l[i], i, i - 1, "hunt") \in LogRow(Hunts) /\ Row(l[i], i, i - 1, "hunt").id = i
  <2>1. PICK e \in Event : e = l[i]
    BY <1>1
  <2>2. PICK j \in Nat : j = i - 1
    OBVIOUS
  <2>3. i \in Nat /\ "hunt" \in Hunts
    BY DEF Hunts
  <2>4. Row(e, i, j, "hunt") \in LogRow(Hunts) /\ Row(e, i, j, "hunt").id = i
    BY <2>3, RowType
  <2> QED BY <2>1, <2>2, <2>4
<1>3. PICK rows : rows = RowsOf(l)
  OBVIOUS
<1>4. rows = [i \in 1..n |-> Row(l[i], i, i - 1, "hunt")]
  BY <1>1, <1>3 DEF RowsOf
<1>5. \A i \in 1..n : rows[i] \in LogRow(Hunts) /\ rows[i].id = i
  BY <1>2, <1>4
<1>6. rows \in [1..n -> LogRow(Hunts)]
  BY <1>4, <1>5
<1>7. rows \in Seq(LogRow(Hunts)) /\ Len(rows) = n
  BY <1>6
<1> QED BY <1>1, <1>3, <1>5, <1>7 DEF Numbers

LEMMA RowsAppend ==
    ASSUME NEW l \in Seq(Event), NEW e \in Event
    PROVE  RowsOf(Append(l, e)) = Append(RowsOf(l), Row(e, Len(l) + 1, Len(l), "hunt"))
<1>1. PICK n \in Nat : n = Len(l) /\ DOMAIN l = 1..n
  OBVIOUS
<1>2. PICK more \in Seq(Event) : more = Append(l, e)
  BY AppendProperties
<1>3. /\ DOMAIN more = 1..(n + 1) /\ more[n + 1] = e /\ \A i \in 1..n : more[i] = l[i]
  BY <1>1, <1>2
<1>4. PICK row : row = Row(e, n + 1, n, "hunt")
  OBVIOUS
<1>r. n + 1 \in Nat /\ "hunt" \in Hunts
  BY DEF Hunts
<1>5. row \in LogRow(Hunts)
  BY <1>4, <1>r, RowType
<1>6. RowsOf(l) \in Seq(LogRow(Hunts)) /\ Len(RowsOf(l)) = n
  BY <1>1, RowsType
<1>7. PICK rows \in Seq(LogRow(Hunts)) : rows = RowsOf(l)
  BY <1>6
<1>8. PICK rows2 \in Seq(LogRow(Hunts)) : rows2 = Append(rows, row)
  BY <1>5, AppendProperties
<1>9. Len(rows2) = n + 1 /\ rows2[n + 1] = row /\ \A i \in 1..n : rows2[i] = rows[i]
  BY <1>5, <1>6, <1>7, <1>8, AppendProperties
<1>10. RowsOf(more) \in Seq(LogRow(Hunts)) /\ Len(RowsOf(more)) = n + 1
  BY <1>3, RowsType
<1>11. PICK rows3 \in Seq(LogRow(Hunts)) : rows3 = RowsOf(more)
  BY <1>10
<1>12. \A i \in 1..n : rows[i] = Row(l[i], i, i - 1, "hunt")
  BY <1>1, <1>7 DEF RowsOf
<1>13. ASSUME NEW i \in 1..(n + 1) PROVE rows3[i] = rows2[i]
  <2>0. rows3[i] = Row(more[i], i, i - 1, "hunt")
    BY <1>3, <1>11 DEF RowsOf
  <2>1. CASE i = n + 1
    <3>1. i - 1 = n /\ more[i] = e
      BY <1>3, <2>1
    <3> QED BY <1>4, <1>9, <2>0, <2>1, <3>1
  <2>2. CASE i # n + 1
    <3>1. i \in 1..n
      BY <2>2
    <3> QED BY <1>3, <1>9, <1>12, <2>0, <3>1
  <2> QED BY <2>1, <2>2
<1>14. rows3 = rows2
  BY <1>9, <1>10, <1>11, <1>13, SeqEqual
<1> QED BY <1>1, <1>2, <1>4, <1>7, <1>8, <1>11, <1>14

(* A numbered log is in the order of its ids.                              *)
LEMMA NumbersRise ==
    ASSUME NEW rows \in Seq(LogRow(Hunts)), Numbers(rows)
    PROVE  IdsRise(rows) /\ \A k \in 0..Len(rows) : WaterAt(rows, k) = k
<1>1. PICK n \in Nat : n = Len(rows)
  OBVIOUS
<1> QED BY <1>1 DEF Numbers, IdsRise, WaterAt

(* The high-water mark of a numbered log is how much of it was folded.     *)
LEMMA HighWater ==
    ASSUME NEW rows \in Seq(LogRow(Hunts)), Numbers(rows),
           NEW h, Running(h, Projection(Hunts), Accumulator, RowStep(Hunts), rows)
    PROVE  \A k \in 0..Len(rows) : h[k] \in Projection(Hunts) /\ h[k].highWater = k
<1>1. IdsRise(rows) /\ \A k \in 0..Len(rows) : WaterAt(rows, k) = k
  BY NumbersRise
<1> QED BY <1>1, WaterIsLast

LEMMA FoldedWater ==
    ASSUME NEW l \in Seq(Event)
    PROVE  /\ Fold(RowsOf(l)) \in Projection(Hunts)
           /\ Fold(RowsOf(l)).highWater = Len(l)
<1>1. PICK rows \in Seq(LogRow(Hunts)) : rows = RowsOf(l) /\ Len(rows) = Len(l) /\ Numbers(rows)
  BY RowsType
<1>2. Accumulator \in Projection(Hunts)
  BY AccumulatorType
<1>3. FoldsInto(Fold(rows), Projection(Hunts), Accumulator, RowStep(Hunts), rows)
  BY <1>2, ViewRuns DEF Fold
<1>4. PICK h : /\ Running(h, Projection(Hunts), Accumulator, RowStep(Hunts), rows)
               /\ h[Len(rows)] = Fold(rows)
  BY <1>3 DEF FoldsInto
<1>5. Len(rows) \in 0..Len(rows)
  OBVIOUS
<1> QED BY <1>1, <1>4, <1>5, HighWater

(* What an event adds to the card.                                         *)
Tells(d, c, e) ==
    /\ d.openTool = IF e.type = "tool_call" THEN "tool"
                    ELSE IF e.type \in {"tool_result", "tool_error"} THEN None ELSE c.openTool
    /\ d.turns = IF e.type = "tool_call" THEN c.turns + 1 ELSE c.turns
    /\ d.prey = IF e.type = "prey_captured" THEN c.prey + 1 ELSE c.prey
    /\ d.spent = Paid(c.spent, e)

LEMMA AppliedTells ==
    ASSUME NEW c \in RunView, c.openTool \in {None, "tool"}, NEW e \in Event,
           NEW id \in Nat, NEW seq \in Nat,
           NEW d, d = Applied(c, Row(e, id, seq, "hunt"))
    PROVE  Tells(d, c, e)
<1>0. /\ c.turns \in Nat /\ c.prey \in Nat /\ c.spent \in Nat /\ c.errors \in Nat
      /\ c = [openTool |-> c.openTool, thinking |-> c.thinking, prey |-> c.prey,
              errors |-> c.errors, turns |-> c.turns, spent |-> c.spent]
  BY DEF RunView
<1>1. PICK row : row = Row(e, id, seq, "hunt")
  OBVIOUS
<1>2. CASE e.type = "tool_call"
  <2>1. row.type = "tool_call" /\ row.tool = "tool"
    BY <1>1, <1>2 DEF Row
  <2>2. d = [c EXCEPT !.openTool = row.tool, !.turns = @ + 1]
    BY <1>1, <2>1 DEF Applied, AppliedIf
  <2> QED BY <1>0, <1>2, <2>1, <2>2 DEF Tells, Paid
<1>3. CASE e.type = "tool_result"
  <2>1. row.type = "tool_result"
    BY <1>1, <1>3 DEF Row
  <2>2. d = [c EXCEPT !.openTool = None]
    BY <1>1, <2>1 DEF Applied, AppliedIf
  <2> QED BY <1>0, <1>3, <2>2 DEF Tells, Paid
<1>4. CASE e.type = "tool_error"
  <2>1. row.type = "error" /\ row.tool = "tool"
    BY <1>1, <1>4 DEF Row
  <2>2. d = [c EXCEPT !.errors = @ + 1,
                      !.openTool = IF row.tool = c.openTool THEN None ELSE @]
    BY <1>1, <2>1 DEF Applied, AppliedIf
  <2> QED BY <1>0, <1>4, <2>1, <2>2 DEF Tells, Paid
<1>5. CASE e.type \in {"brain_error", "loop_error"}
  <2>1. row.type = "error" /\ row.tool = "<brain>"
    BY <1>1, <1>5 DEF Row
  <2>n. row.tool # c.openTool
    BY <2>1 DEF None
  <2>2. d = [c EXCEPT !.errors = @ + 1,
                      !.openTool = IF row.tool = c.openTool THEN None ELSE @]
    BY <1>1, <2>1 DEF Applied, AppliedIf
  <2> QED BY <1>0, <1>5, <2>n, <2>2 DEF Tells, Paid
<1>6. CASE e.type = "prey_captured"
  <2>1. row.type = "prey_captured"
    BY <1>1, <1>6 DEF Row
  <2>2. d = [c EXCEPT !.prey = @ + 1]
    BY <1>1, <2>1 DEF Applied, AppliedIf
  <2> QED BY <1>0, <1>6, <2>2 DEF Tells, Paid
<1>7. CASE e.type = "thinking_delta"
  <2>1. row.type = "thinking_delta"
    BY <1>1, <1>7 DEF Row
  <2>2. d = [c EXCEPT !.thinking = Append(@, row.id)]
    BY <1>1, <2>1 DEF Applied, AppliedIf
  <2> QED BY <1>0, <1>7, <2>2 DEF Tells, Paid
<1>8. CASE e.type = "usage"
  <2>1. row.type = "usage" /\ row.cost = e.cost
    BY <1>1, <1>8 DEF Row
  <2>2. d = [c EXCEPT !.spent = @ + row.cost]
    BY <1>1, <2>1 DEF Applied, AppliedIf
  <2> QED BY <1>0, <1>8, <2>1, <2>2 DEF Tells, Paid
<1>9. e.type \in {"thinking_delta", "prey_captured", "loop_error", "usage", "tool_call",
                  "tool_result", "tool_error", "brain_error"}
  BY DEF Event
<1> QED BY <1>2, <1>3, <1>4, <1>5, <1>6, <1>7, <1>8, <1>9

LEMMA CardAppend ==
    ASSUME NEW l \in Seq(Event), CardOf(l).openTool \in {None, "tool"}, NEW e \in Event
    PROVE  /\ Tells(CardOf(Append(l, e)), CardOf(l), e)
           /\ "hunt" \in DOMAIN Fold(RowsOf(Append(l, e))).runs
<1>1. PICK n \in Nat : n = Len(l)
  OBVIOUS
<1>2. PICK row : row = Row(e, n + 1, n, "hunt")
  OBVIOUS
<1>r. n + 1 \in Nat /\ "hunt" \in Hunts
  BY DEF Hunts
<1>3. row \in LogRow(Hunts) /\ row.id = n + 1 /\ row.run = "hunt"
  BY <1>2, <1>r, RowType
<1>4. PICK rows \in Seq(LogRow(Hunts)) : rows = RowsOf(l)
  BY RowsType
<1>5. RowsOf(Append(l, e)) = Append(rows, row)
  BY <1>1, <1>2, <1>4, RowsAppend
<1>6. PICK acc \in Projection(Hunts) : acc = Fold(rows) /\ acc.highWater = n
  BY <1>1, <1>4, FoldedWater
<1>7. Fold(Append(rows, row)) = Step(acc, row)
  BY <1>3, <1>6, FoldAppends
<1>8. row.id > acc.highWater
  BY <1>3, <1>6
<1>9. PICK new : new = Step(acc, row)
  OBVIOUS
<1>10. Moved(new, acc, row)
  BY <1>3, <1>8, <1>9, StepIs
<1>11. "hunt" \in DOMAIN new.runs /\ new.runs["hunt"] = Applied(RunIn(acc.runs, "hunt"), row)
  BY <1>3, <1>10 DEF Moved
<1>12. CardOf(Append(l, e)) = new.runs["hunt"]
  BY <1>5, <1>7, <1>9, <1>11 DEF CardOf, RunIn
<1>13. CardOf(l) = RunIn(acc.runs, "hunt")
  BY <1>4, <1>6 DEF CardOf
<1>14. PICK c : c = CardOf(l)
  OBVIOUS
<1>15. c \in RunView
  <2>1. acc.runs \in RunsBy(Hunts)
    BY DEF Projection
  <2>2. acc.runs \in [DOMAIN acc.runs -> RunView]
    BY <2>1, RunsAre
  <2> QED BY <1>13, <1>14, <2>2, NewRunType DEF RunIn
<1>16. CardOf(Append(l, e)) = Applied(c, Row(e, n + 1, n, "hunt"))
  BY <1>2, <1>11, <1>12, <1>13, <1>14
<1>17. Tells(CardOf(Append(l, e)), c, e)
  BY <1>14, <1>15, <1>16, <1>r, AppliedTells
<1> QED BY <1>5, <1>7, <1>9, <1>11, <1>14, <1>17

LEMMA CardOfNone == CardOf(<<>>) = NewRun
<1>1. RowsOf(<<>>) \in Seq(LogRow(Hunts)) /\ Len(RowsOf(<<>>)) = 0
  <2>1. <<>> \in Seq(Event) /\ Len(<<>>) = 0
    OBVIOUS
  <2> QED BY <2>1, RowsType
<1>2. RowsOf(<<>>) = <<>>
  BY <1>1
<1>3. PICK runs : runs = <<>>
  OBVIOUS
<1>4. DOMAIN runs = {}
  BY <1>3
<1>5. Fold(RowsOf(<<>>)).runs = runs
  BY <1>2, <1>3, FoldOfNone DEF Accumulator
<1> QED BY <1>4, <1>5 DEF CardOf, RunIn

LEMMA CardType ==
    ASSUME NEW l \in Seq(Event)
    PROVE  CardOf(l) \in RunView
<1>1. PICK acc \in Projection(Hunts) : acc = Fold(RowsOf(l))
  BY FoldedWater
<1>2. acc.runs \in RunsBy(Hunts)
  BY DEF Projection
<1>3. acc.runs \in [DOMAIN acc.runs -> RunView]
  BY <1>2, RunsAre
<1> QED BY <1>1, <1>3, NewRunType DEF CardOf, RunIn

(* What the card shows at every point of the hunt.                         *)
Carding ==
    LET card == CardOf(log)
    IN  /\ log # <<>> => "hunt" \in DOMAIN Fold(RowsOf(log)).runs
        /\ card.openTool \in {None, "tool"}
        /\ card.openTool # None => pc = "execute"
        /\ pc = "execute" /\ attempt = 1 => card.openTool # None
        /\ card.spent = Spend(log)
        /\ card.turns <= turn
        /\ pc \in {"plan", "execute"} => card.turns = turn
        /\ pc \in InATurn => card.turns = turn - 1
        /\ pc \notin {"act", "over"} => card.prey = 0
        /\ pc = "act" => card.prey = captured
        /\ pc = "act" /\ captured > 0 => decision.name = "hunt_complete"
        /\ pc = "over" /\ card.prey > 0 => outcome = <<"completed", "">>
        /\ outcome = <<"completed", "">> => card.prey = decision.catch

LEMMA CardingStep ==
    ASSUME Control, Control', Carding, [Next]_vars
    PROVE  Carding'
<1> DEFINE c == CardOf(log)
           shown == log # <<>> => "hunt" \in DOMAIN Fold(RowsOf(log)).runs
           spend == Spend(log)
<1>0. /\ log \in Seq(Event) /\ turn \in Nat /\ attempt \in Nat /\ captured \in Nat
      /\ c.turns \in Nat /\ c.prey \in Nat
  <2>1. /\ log \in Seq(Event) /\ turn \in 0..MaxIterations /\ attempt \in 0..(RetryBudget + 1)
        /\ captured \in 0..MaxCatch
    BY DEF Control, TypeOK
  <2>2. turn \in Nat /\ attempt \in Nat /\ captured \in Nat
    BY <2>1, Bounds
  <2>3. c \in RunView
    BY <2>1, CardType
  <2> QED BY <2>1, <2>2, <2>3 DEF RunView
<1>1. /\ shown
      /\ c.openTool \in {None, "tool"}
      /\ c.openTool # None => pc = "execute"
      /\ pc = "execute" /\ attempt = 1 => c.openTool # None
      /\ c.spent = spend
      /\ c.turns <= turn
      /\ pc \in {"plan", "execute"} => c.turns = turn
      /\ pc \in InATurn => c.turns = turn - 1
      /\ pc \notin {"act", "over"} => c.prey = 0
      /\ pc = "act" => c.prey = captured
      /\ pc = "act" /\ captured > 0 => decision.name = "hunt_complete"
      /\ pc = "over" /\ c.prey > 0 => outcome = <<"completed", "">>
      /\ outcome = <<"completed", "">> => c.prey = decision.catch
  BY DEF Carding
<1>c. ASSUME shown', c'.openTool \in {None, "tool"},
             c'.openTool # None => pc' = "execute",
             pc' = "execute" /\ attempt' = 1 => c'.openTool # None,
             c'.spent = spend', c'.turns <= turn',
             pc' \in {"plan", "execute"} => c'.turns = turn',
             pc' \in InATurn => c'.turns = turn' - 1,
             pc' \notin {"act", "over"} => c'.prey = 0,
             pc' = "act" => c'.prey = captured',
             pc' = "act" /\ captured' > 0 => decision'.name = "hunt_complete",
             pc' = "over" /\ c'.prey > 0 => outcome' = <<"completed", "">>,
             outcome' = <<"completed", "">> => c'.prey = decision'.catch
      PROVE  Carding'
  BY <1>c DEF Carding
<1>k. log' = log => c' = c /\ (shown' <=> shown) /\ spend' = spend
  OBVIOUS
<1>g. ASSUME NEW e \in Event, log' = Append(log, e)
      PROVE  Tells(c', c, e) /\ shown' /\ spend' = Paid(spend, e)
  <2>1. Tells(CardOf(Append(log, e)), CardOf(log), e)
        /\ "hunt" \in DOMAIN Fold(RowsOf(Append(log, e))).runs
    BY <1>0, <1>1, CardAppend
  <2>2. Spend(Append(log, e)) = Paid(Spend(log), e)
    BY <1>0, SpendAppend
  <2> QED BY <1>g, <2>1, <2>2
<1>o. (outcome = <<>> <=> pc # "over") /\ (outcome' = <<>> <=> pc' # "over")
  BY DEF Control, TypeOK
<1>n. outcome = <<>> => outcome # <<"completed", "">>
  OBVIOUS
<1>n2. outcome' = <<>> => outcome' # <<"completed", "">>
  OBVIOUS
<1>n3. \A reason : <<"aborted", reason>> # <<"completed", "">>
                  /\ <<"needs_help", reason>> # <<"completed", "">>
  OBVIOUS
<1>t. /\ pc \in InATurn => c.turns = turn - 1
      /\ c.turns <= turn
  BY <1>1
<1>q. pc \in {"plan", "ask", "stream", "parse", "execute"} => c.prey = 0
  BY <1>1
<1>z. pc = "act" /\ decision.name # "hunt_complete" => c.prey = 0
  <2> SUFFICES ASSUME pc = "act", decision.name # "hunt_complete" PROVE c.prey = 0
    OBVIOUS
  <2>1. c.prey = captured /\ ~(captured > 0)
    BY <1>1
  <2> HIDE DEF c
  <2> QED BY <1>0, <2>1
<1>e. pc # "execute" => c.openTool = None
  BY <1>1
<1>over. ASSUME pc' = "over", shown', c'.openTool = None, c'.turns <= turn', c'.spent = spend',
                c'.prey = 0, outcome' # <<"completed", "">>
         PROVE  Carding'
  <2>1. c'.openTool \in {None, "tool"} /\ ~(c'.openTool # None) /\ ~(c'.prey > 0)
    <3>1. ~(0 > 0)
      OBVIOUS
    <3> HIDE DEF c
    <3> QED BY <1>over, <3>1
  <2> HIDE DEF c, shown, spend
  <2> QED BY <1>c, <1>over, <2>1 DEF InATurn
<1> HIDE DEF c, shown, spend
\* Events that show on the card only as what they cost.
<1>f. ASSUME NEW e \in Event, log' = Append(log, e),
             e.type \in {"thinking_delta", "brain_error", "loop_error"}
      PROVE  /\ shown' /\ c'.openTool = c.openTool /\ c'.turns = c.turns /\ c'.prey = c.prey
             /\ c'.spent = spend'
  BY <1>1, <1>f, <1>g DEF Tells, Paid
<1>2. CASE Exhausted \/ TooDear
  <2>1. /\ pc = "plan" /\ pc' = "over" /\ log' = log /\ turn' = turn
        /\ outcome' # <<"completed", "">>
    BY <1>2, <1>n3 DEF Exhausted, TooDear, End
  <2> QED BY <1>1, <1>k, <1>q, <1>e, <1>over, <2>1
<1>3. CASE Plan
  <2>1. /\ pc = "plan" /\ pc' = "ask" /\ log' = log /\ turn' = turn + 1 /\ outcome' = outcome
    BY <1>3 DEF Plan, PlanBelow
  <2>2. c'.turns = turn' - 1 /\ c'.turns <= turn'
    <3>1. c.turns = turn /\ c' = c
      BY <1>1, <1>k, <2>1
    <3> QED BY <1>0, <2>1, <3>1
  <2> QED BY <1>1, <1>c, <1>k, <1>q, <1>e, <1>o, <1>n2, <2>1, <2>2 DEF InATurn
<1>4. CASE StreamOpens \/ Answers \/ StreamEnds
  <2>1. /\ pc \in {"ask", "stream"} /\ pc' \in {"stream", "parse"} /\ log' = log /\ turn' = turn
        /\ outcome' = outcome
    BY <1>4 DEF StreamOpens, Answers, StreamEnds
  <2> QED BY <1>1, <1>c, <1>k, <1>o, <1>n2, <2>1 DEF InATurn
<1>5. CASE FeedFrame
  <2>1. pc = "stream" /\ pc' = "stream" /\ turn' = turn /\ outcome' = outcome
    BY <1>5 DEF FeedFrame
  <2>2. log' = log \/ log' = Append(log, [type |-> "thinking_delta"])
    BY <1>5 DEF FeedFrame, AppendEvent
  <2>3. /\ shown' /\ c'.openTool = c.openTool /\ c'.turns = c.turns /\ c'.prey = c.prey
        /\ c'.spent = spend'
    <3>1. CASE log' = log
      BY <1>1, <1>k, <3>1
    <3>2. CASE log' = Append(log, [type |-> "thinking_delta"])
      <4>1. PICK e \in Event : e = [type |-> "thinking_delta"]
        BY EventTypes
      <4> QED BY <1>f, <3>2, <4>1
    <3> QED BY <2>2, <3>1, <3>2
  <2> QED BY <1>1, <1>c, <1>o, <1>n2, <2>1, <2>3 DEF InATurn
<1>6. CASE CallFails
  <2>1. PICK retryable \in BOOLEAN :
           /\ log' = Append(log, [type |-> "brain_error", retryable |-> retryable])
           /\ IF retryable /\ attempt <= RetryBudget
              THEN pc' = "ask" /\ attempt' = attempt + 1 /\ UNCHANGED outcome
              ELSE End("aborted", "brain call failed") /\ UNCHANGED attempt
    BY <1>6 DEF CallFails, CallFailsWithin, AppendEvent
  <2>2. pc \in {"ask", "stream"} /\ turn' = turn
    BY <1>6 DEF CallFails, CallFailsWithin
  <2>3. PICK e \in Event : e = [type |-> "brain_error", retryable |-> retryable]
    BY EventTypes
  <2>4. /\ shown' /\ c'.openTool = c.openTool /\ c'.turns = c.turns /\ c'.prey = c.prey
        /\ c'.spent = spend'
    BY <1>f, <2>1, <2>3
  <2>5. CASE pc' = "ask"
    BY <1>1, <1>c, <1>e, <1>q, <1>o, <1>n2, <2>2, <2>4, <2>5 DEF InATurn
  <2>6. CASE pc' # "ask"
    <3>1. pc' = "over" /\ outcome' = <<"aborted", "brain call failed">>
      BY <2>1, <2>6 DEF End
    <3> QED BY <1>1, <1>e, <1>q, <1>n3, <1>over, <2>2, <2>4, <3>1
  <2> QED BY <2>5, <2>6
<1>7. CASE BrainRaises \/ ParseFails
  <2>1. /\ pc \in {"ask", "stream", "parse"} /\ turn' = turn
        /\ pc' = "over" /\ outcome' # <<"completed", "">>
    BY <1>7, <1>n3 DEF BrainRaises, ParseFails, End
  <2>2. PICK e \in Event : /\ e.type \in {"brain_error", "loop_error"}
                           /\ log' = Append(log, e)
    <3>1. CASE BrainRaises
      <4>1. PICK e \in Event : e = [type |-> "loop_error"]
        BY EventTypes
      <4> QED BY <3>1, <4>1 DEF BrainRaises, AppendEvent
    <3>2. CASE ParseFails
      <4>1. PICK e \in Event : e = [type |-> "brain_error", retryable |-> FALSE]
        BY EventTypes
      <4> QED BY <3>2, <4>1 DEF ParseFails, AppendEvent
    <3> QED BY <1>7, <3>1, <3>2
  <2>3. /\ shown' /\ c'.openTool = c.openTool /\ c'.turns = c.turns /\ c'.prey = c.prey
        /\ c'.spent = spend'
    BY <1>f, <2>2
  <2> QED BY <1>1, <1>e, <1>q, <1>over, <2>1, <2>3
<1>8. CASE Decide
  <2>1. /\ pc = "parse" /\ pc' = "act" /\ turn' = turn /\ captured' = 0 /\ outcome' = outcome
        /\ \/ log' = log
           \/ log' = Append(log, [type |-> "usage", cost |-> CostOf(asm.usage)])
    BY <1>8 DEF Decide, AppendEvent
  <2>2. /\ shown' /\ c'.openTool = c.openTool /\ c'.turns = c.turns /\ c'.prey = c.prey
        /\ c'.spent = spend'
    <3>1. CASE log' = log
      BY <1>1, <1>k, <3>1
    <3>2. CASE log' = Append(log, [type |-> "usage", cost |-> CostOf(asm.usage)])
      <4>1. PICK e \in Event : e = [type |-> "usage", cost |-> CostOf(asm.usage)]
        BY EventTypes, CostType
      <4> QED BY <1>1, <1>g, <3>2, <4>1 DEF Tells, Paid
    <3> QED BY <2>1, <3>1, <3>2
  <2>3. ~(captured' > 0)
    BY <2>1
  <2>4. c'.turns = turn' - 1 /\ c'.turns <= turn' /\ c'.openTool = None /\ c'.prey = 0
    BY <1>t, <1>q, <1>e, <2>1, <2>2 DEF InATurn
  <2> QED BY <1>c, <1>o, <1>n2, <2>1, <2>2, <2>3, <2>4
<1>9. CASE Refuse
  <2>1. /\ pc = "act" /\ decision.name \notin Reserved /\ turn' = turn
        /\ log' = Append(log, [type |-> "tool_error", retryable |-> FALSE])
        /\ pc' = "over" /\ outcome' # <<"completed", "">>
    BY <1>9, <1>n3 DEF Refuse, End, AppendEvent
  <2>2. c.prey = 0
    BY <1>z, <2>1 DEF Reserved
  <2>3. PICK e \in Event : e = [type |-> "tool_error", retryable |-> FALSE]
    BY EventTypes
  <2>4. /\ shown' /\ c'.openTool = None /\ c'.turns = c.turns /\ c'.prey = 0
        /\ c'.spent = spend'
    BY <1>1, <1>g, <2>1, <2>2, <2>3 DEF Tells, Paid
  <2> QED BY <1>t, <1>over, <2>1, <2>4
<1>10. CASE Dispatch
  <2>1. /\ pc = "act" /\ decision.name \in Tools /\ turn' = turn /\ attempt' = 1
        /\ log' = Append(log, [type |-> "tool_call", id |-> turn, thinking |-> decision.thinking])
        /\ pc' = "execute" /\ outcome' = outcome
    BY <1>10 DEF Dispatch, AppendEvent
  <2>2. c.prey = 0
    BY <1>z, <2>1, HuntLoopAssumption DEF Reserved
  <2>3. PICK e \in Event : e = [type |-> "tool_call", id |-> turn, thinking |-> decision.thinking]
    <3>1. decision.thinking \in {"none", "verbatim", "damaged"}
      BY DEF Control, Choice
    <3> QED BY <1>0, <3>1, EventTypes
  <2>4. /\ shown' /\ c'.openTool = "tool" /\ c'.turns = c.turns + 1 /\ c'.prey = 0
        /\ c'.spent = spend'
    BY <1>1, <1>g, <2>1, <2>2, <2>3 DEF Tells, Paid
  <2>5. c'.turns = turn' /\ c'.turns <= turn'
    <3>1. c.turns = turn - 1
      BY <1>t, <2>1 DEF InATurn
    <3> QED BY <1>0, <2>1, <2>4, <3>1
  <2>6. c'.openTool # None
    BY <2>4 DEF None
  <2> QED BY <1>c, <1>o, <1>n2, <2>1, <2>4, <2>5, <2>6 DEF InATurn
<1>11. CASE ToolReturns
  <2>1. /\ pc = "execute" /\ pc' = "plan" /\ turn' = turn /\ outcome' = outcome
        /\ log' = Append(log, [type |-> "tool_result", id |-> turn])
    BY <1>11 DEF ToolReturns, AppendEvent
  <2>2. PICK e \in Event : e = [type |-> "tool_result", id |-> turn]
    BY <1>0, EventTypes
  <2>3. /\ shown' /\ c'.openTool = None /\ c'.turns = c.turns /\ c'.prey = c.prey
        /\ c'.spent = spend'
    BY <1>1, <1>g, <2>1, <2>2 DEF Tells, Paid
  <2> QED BY <1>1, <1>c, <1>o, <1>n2, <2>1, <2>3 DEF InATurn
<1>12. CASE ToolFails
  <2>1. PICK retryable \in BOOLEAN :
           /\ log' = Append(log, [type |-> "tool_error", retryable |-> retryable])
           /\ IF retryable /\ attempt <= RetryBudget
              THEN attempt' = attempt + 1 /\ UNCHANGED <<pc, outcome>>
              ELSE End("aborted", "tool failure") /\ UNCHANGED attempt
    BY <1>12 DEF ToolFails, ToolFailsUntil, AppendEvent
  <2>2. pc = "execute" /\ turn' = turn
    BY <1>12 DEF ToolFails, ToolFailsUntil
  <2>3. PICK e \in Event : e = [type |-> "tool_error", retryable |-> retryable]
    BY EventTypes
  <2>4. /\ shown' /\ c'.openTool = None /\ c'.turns = c.turns /\ c'.prey = c.prey
        /\ c'.spent = spend'
    BY <1>1, <1>g, <2>1, <2>3 DEF Tells, Paid
  <2>5. CASE retryable /\ attempt <= RetryBudget
    <3>1. pc' = "execute" /\ attempt' = attempt + 1 /\ outcome' = outcome
      BY <2>1, <2>2, <2>5
    <3>2. attempt >= 1
      BY <2>2 DEF Control
    <3>3. attempt' # 1
      BY <1>0, <3>1, <3>2
    <3>4. c'.turns = turn' /\ c'.turns <= turn' /\ c'.prey = 0
      BY <1>1, <1>q, <2>2, <2>4
    <3> QED BY <1>c, <1>o, <1>n2, <2>4, <3>1, <3>3, <3>4 DEF InATurn
  <2>6. CASE ~(retryable /\ attempt <= RetryBudget)
    <3>1. pc' = "over" /\ outcome' = <<"aborted", "tool failure">>
      BY <2>1, <2>6 DEF End
    <3> QED BY <1>t, <1>q, <1>n3, <1>over, <2>2, <2>4, <3>1
  <2> QED BY <2>5, <2>6
<1>13. CASE CapturePrey
  <2>1. /\ pc = "act" /\ pc' = "act" /\ decision' = decision /\ turn' = turn
        /\ decision.name = "hunt_complete" /\ captured' = captured + 1 /\ outcome' = outcome
        /\ log' = Append(log, [type |-> "prey_captured"])
    BY <1>13 DEF CapturePrey, AppendEvent
  <2>2. PICK e \in Event : e = [type |-> "prey_captured"]
    BY EventTypes
  <2>3. /\ shown' /\ c'.openTool = c.openTool /\ c'.turns = c.turns /\ c'.prey = c.prey + 1
        /\ c'.spent = spend'
    BY <1>1, <1>g, <2>1, <2>2 DEF Tells, Paid
  <2> QED BY <1>1, <1>c, <1>o, <1>n2, <2>1, <2>3 DEF InATurn
<1>14. CASE Complete
  <2>1. /\ pc = "act" /\ captured = decision.catch /\ pc' = "over" /\ log' = log
        /\ turn' = turn /\ decision' = decision /\ outcome' = <<"completed", "">>
    BY <1>14 DEF Complete, End
  <2> QED BY <1>0, <1>1, <1>c, <1>k, <2>1 DEF InATurn
<1>15. CASE AskHelp
  <2>1. /\ pc = "act" /\ decision.name = "needs_help" /\ pc' = "over" /\ log' = log
        /\ turn' = turn /\ outcome' # <<"completed", "">>
    BY <1>15, <1>n3 DEF AskHelp, End
  <2>2. c.prey = 0
    BY <1>z, <2>1
  <2> QED BY <1>1, <1>k, <1>e, <1>t, <1>over, <2>1, <2>2
<1>16. CASE UNCHANGED vars
  <2>1. /\ log' = log /\ pc' = pc /\ turn' = turn /\ attempt' = attempt /\ decision' = decision
        /\ captured' = captured /\ outcome' = outcome
    BY <1>16 DEF vars
  <2> QED BY <1>1, <1>c, <1>k, <2>1
<1> QED BY <1>2, <1>3, <1>4, <1>5, <1>6, <1>7, <1>8, <1>9, <1>10, <1>11, <1>12, <1>13,
           <1>14, <1>15, <1>16 DEF Next

LEMMA NothingRemains ==
    ASSUME NEW spent \in Nat, NEW ceiling \in Nat, spent >= ceiling
    PROVE  Remaining(spent, ceiling) = 0
<1>1. ~(ceiling - spent > 0)
  OBVIOUS
<1> QED BY <1>1 DEF Remaining

(* Rex's card tells the hunt it shows.                                     *)
THEOREM CardTells == Spec => []CardTellsHunt
<1>1. Init => Carding
  <2> SUFFICES ASSUME Init PROVE Carding
    OBVIOUS
  <2>1. log = <<>> /\ pc = "plan" /\ turn = 0 /\ captured = 0 /\ outcome = <<>>
    BY DEF Init
  <2>2. PICK c : c = CardOf(log)
    OBVIOUS
  <2>3. /\ c.openTool = None /\ c.spent = 0 /\ c.turns = 0 /\ c.prey = 0
    BY <2>1, <2>2, CardOfNone DEF NewRun
  <2>4. Spend(log) = 0
    BY <2>1, SpendEmpty
  <2>5. outcome # <<"completed", "">>
    BY <2>1
  <2> QED BY <2>1, <2>2, <2>3, <2>4, <2>5 DEF Carding, InATurn
<1>2. Control /\ Control' /\ Carding /\ [Next]_vars => Carding'
  BY CardingStep
<1>3. Control /\ Spending /\ ReasonTold /\ Carding => CardTellsHunt
  <2> SUFFICES ASSUME Control, Spending, ReasonTold, Carding,
                      pc \in {"plan", "ask", "execute", "over"}, log # <<>>
               PROVE  LET card == Fold(Rows).runs["hunt"]
                          hp   == Remaining(card.spent, CostCeiling)
                      IN  /\ card.openTool # None => pc = "execute"
                          /\ pc = "execute" /\ attempt = 1 => card.openTool # None
                          /\ Remaining(card.turns, MaxIterations) = MaxIterations - card.turns
                          /\ pc = "plan" => card.turns = turn
                          /\ pc = "ask" => hp > 0
                          /\ outcome = <<"aborted", "cost ceiling">> => hp = 0
                          /\ outcome = <<"completed", "">> => card.prey = decision.catch
                          /\ pc = "over" /\ card.prey > 0 => outcome = <<"completed", "">>
    BY DEF CardTellsHunt
  <2> DEFINE card == Fold(Rows).runs["hunt"]
  <2>1. card = CardOf(log)
    <3>1. "hunt" \in DOMAIN Fold(RowsOf(log)).runs
      BY DEF Carding
    <3>2. Rows = RowsOf(log)
      BY DEF Rows, RowsOf
    <3> QED BY <3>1, <3>2 DEF CardOf, RunIn
  <2>2. /\ card.openTool # None => pc = "execute"
        /\ pc = "execute" /\ attempt = 1 => card.openTool # None
        /\ card.spent = Spend(log) /\ card.turns <= turn
        /\ pc = "plan" => card.turns = turn
        /\ pc = "over" /\ card.prey > 0 => outcome = <<"completed", "">>
        /\ outcome = <<"completed", "">> => card.prey = decision.catch
    BY <2>1 DEF Carding
  <2>3. card \in RunView /\ log \in Seq(Event) /\ turn \in 0..MaxIterations
    <3>1. log \in Seq(Event) /\ turn \in 0..MaxIterations
      BY DEF Control, TypeOK
    <3>2. CardOf(log) \in RunView
      BY <3>1, CardType
    <3> HIDE DEF card
    <3> QED BY <2>1, <3>1, <3>2
  <2> HIDE DEF card
  <2>4. PICK turns \in Nat : turns = card.turns
    BY <2>3 DEF RunView
  <2>5. turns <= MaxIterations /\ MaxIterations \in Nat /\ CostCeiling \in Nat
    <3>1. turns <= turn /\ turn \in 0..MaxIterations
      BY <2>2, <2>3, <2>4
    <3> QED BY <3>1, Bounds
  <2>6. Remaining(turns, MaxIterations) = MaxIterations - turns
    BY <2>5 DEF Remaining
  <2>7. PICK spent \in Nat : spent = Spend(log)
    BY <2>3, SpendIsNat
  <2>8. pc = "ask" => Remaining(spent, CostCeiling) > 0
    BY <2>5, <2>7 DEF Spending, Remaining
  <2>9. outcome = <<"aborted", "cost ceiling">> => Remaining(spent, CostCeiling) = 0
    <3> SUFFICES ASSUME outcome = <<"aborted", "cost ceiling">>
                 PROVE  Remaining(spent, CostCeiling) = 0
      OBVIOUS
    <3>1. outcome # <<>> /\ outcome[2] = "cost ceiling"
      OBVIOUS
    <3>2. spent >= CostCeiling
      BY <2>7, <3>1 DEF ReasonTold
    <3> QED BY <2>5, <2>7, <3>2, NothingRemains
  <2> QED BY <2>2, <2>4, <2>6, <2>7, <2>8, <2>9 DEF card
<1> QED BY <1>1, <1>2, <1>3, ControlInvariant, SpendingInvariant, ReasonIsTold, PTL DEF Spec

-----------------------------------------------------------------------------
(* The laws of the reducer: a log sent again, and a log sent in part.      *)

\* Two hunts whose rows alternate, and the second of them alone.
Doubled(both, alone, n) ==
    /\ both \in Seq(LogRow(Hunts)) /\ Len(both) = 2 * n /\ Numbers(both)
    /\ alone \in Seq(LogRow(Hunts)) /\ Len(alone) = n
    /\ \A k \in 1..n : both[2 * k - 1].run = "hunt" /\ both[2 * k].run = "other"
    /\ \A k \in 1..n : alone[k] = both[2 * k]

\* What a viewer of the other hunt alone sees is the live feed's without
\* the first one.
Alone(seen, live) ==
    /\ seen.highWater = live.highWater
    /\ DOMAIN seen.runs = DOMAIN live.runs \ {"hunt"}
    /\ \A r \in DOMAIN seen.runs : seen.runs[r] = live.runs[r]

LEMMA AloneStep ==
    ASSUME NEW seen \in Projection(Hunts), NEW live \in Projection(Hunts), Alone(seen, live),
           NEW first \in LogRow(Hunts), first.run = "hunt", first.id > live.highWater,
           NEW second \in LogRow(Hunts), second.run = "other", second.id > first.id
    PROVE  Alone(Step(seen, second), Step(Step(live, first), second))
<1>0. seen.highWater \in Nat /\ live.highWater \in Nat /\ first.id \in Nat /\ second.id \in Nat
  BY DEF Projection, LogRow
<1>1. PICK mid \in Projection(Hunts) : mid = Step(live, first) /\ Moved(mid, live, first)
  BY StepIs
<1>2. /\ mid.highWater = first.id /\ DOMAIN mid.runs = DOMAIN live.runs \cup {"hunt"}
      /\ \A r \in DOMAIN live.runs : r # "hunt" => mid.runs[r] = live.runs[r]
  BY <1>1 DEF Moved
<1>3. PICK new : new = Step(mid, second)
  OBVIOUS
<1>4. Moved(new, mid, second)
  <2>1. second.id > mid.highWater
    BY <1>2
  <2> QED BY <1>3, <2>1, StepIs
<1>5. PICK then : then = Step(seen, second)
  OBVIOUS
<1>6. Moved(then, seen, second)
  <2>1. second.id > seen.highWater
    BY <1>0 DEF Alone
  <2> QED BY <1>5, <2>1, StepIs
<1>7. /\ DOMAIN seen.runs = DOMAIN live.runs \ {"hunt"}
      /\ \A r \in DOMAIN seen.runs : seen.runs[r] = live.runs[r]
  BY DEF Alone
<1>8. RunIn(seen.runs, "other") = RunIn(mid.runs, "other")
  BY <1>2, <1>7 DEF RunIn
<1>9. DOMAIN then.runs = DOMAIN new.runs \ {"hunt"}
  BY <1>2, <1>4, <1>6, <1>7 DEF Moved
<1>10. then.highWater = new.highWater
  BY <1>4, <1>6 DEF Moved
<1>11. then.runs["other"] = new.runs["other"]
  BY <1>4, <1>6, <1>8 DEF Moved
<1>12. ASSUME NEW r \in DOMAIN then.runs, r # "other" PROVE then.runs[r] = new.runs[r]
  <2>1. r \in DOMAIN seen.runs /\ then.runs[r] = seen.runs[r]
    BY <1>6, <1>12 DEF Moved
  <2>2. r \in DOMAIN live.runs /\ r # "hunt" /\ mid.runs[r] = live.runs[r]
    BY <1>2, <1>7, <2>1
  <2>3. new.runs[r] = mid.runs[r]
    BY <1>2, <1>4, <1>12, <2>2 DEF Moved
  <2> QED BY <1>7, <2>1, <2>2, <2>3
<1> QED BY <1>1, <1>3, <1>5, <1>9, <1>10, <1>11, <1>12 DEF Alone

LEMMA SeenAlone ==
    ASSUME NEW both, NEW alone, NEW n \in Nat, Doubled(both, alone, n),
           NEW h, Running(h, Projection(Hunts), Accumulator, RowStep(Hunts), both),
           NEW q, Running(q, Projection(Hunts), Accumulator, RowStep(Hunts), alone)
    PROVE  Alone(q[n], h[2 * n])
<1> DEFINE S == {k \in Nat : k <= n => Alone(q[k], h[2 * k])}
<1>0. /\ both \in Seq(LogRow(Hunts)) /\ Len(both) = 2 * n /\ Numbers(both)
      /\ alone \in Seq(LogRow(Hunts)) /\ Len(alone) = n
  BY DEF Doubled
<1>1. 0 \in S
  <2>1. q[0] = Accumulator /\ h[0] = Accumulator
    BY DEF Running
  <2>2. PICK acc : acc = Accumulator
    OBVIOUS
  <2>3. PICK none : none = <<>>
    OBVIOUS
  <2>4. acc.runs = none /\ DOMAIN none = {}
    BY <2>2, <2>3 DEF Accumulator
  <2>5. Alone(acc, acc)
    BY <2>4 DEF Alone
  <2>6. 2 * 0 = 0
    OBVIOUS
  <2> QED BY <2>1, <2>2, <2>5, <2>6
<1>2. ASSUME NEW k \in S PROVE k + 1 \in S
  <2> SUFFICES ASSUME k + 1 <= n PROVE Alone(q[k + 1], h[2 * (k + 1)])
    OBVIOUS
  <2>1. PICK j \in Nat : j = 2 * k
    OBVIOUS
  <2>2. /\ 2 * (k + 1) = j + 2 /\ 2 * (k + 1) - 1 = j + 1 /\ k \in 0..(n - 1) /\ k + 1 \in 1..n
        /\ j \in 0..(2 * n) /\ j \in 0..(2 * n - 1) /\ j + 1 \in 0..(2 * n - 1)
        /\ j + 1 \in 1..(2 * n) /\ j + 2 \in 1..(2 * n) /\ (j + 1) + 1 = j + 2
    BY <2>1
  <2>3. PICK first \in LogRow(Hunts) : /\ first = both[j + 1] /\ first.id = j + 1
                                       /\ first.run = "hunt"
    <3>1. both[j + 1] \in LogRow(Hunts) /\ both[j + 1].id = j + 1
      BY <1>0, <2>2 DEF Numbers
    <3>2. both[j + 1].run = "hunt"
      BY <2>2 DEF Doubled
    <3> QED BY <3>1, <3>2
  <2>4. PICK second \in LogRow(Hunts) : /\ second = both[j + 2] /\ second.id = j + 2
                                        /\ second.run = "other" /\ second = alone[k + 1]
    <3>1. both[j + 2] \in LogRow(Hunts) /\ both[j + 2].id = j + 2
      BY <1>0, <2>2 DEF Numbers
    <3>2. both[j + 2].run = "other" /\ alone[k + 1] = both[j + 2]
      BY <2>2 DEF Doubled
    <3> QED BY <3>1, <3>2
  <2>5. PICK live \in Projection(Hunts) : live = h[j] /\ live.highWater = j
    BY <1>0, <2>2, HighWater
  <2>6. PICK seen \in Projection(Hunts) : seen = q[k]
    BY <1>0, <2>2 DEF Running
  <2>7. h[j + 1] = Step(live, first)
    <3>1. h[j + 1] = RowStep(Hunts)[<<live, first>>]
      BY <1>0, <2>2, <2>3, <2>5 DEF Running
    <3> QED BY <3>1, StepIsRowStep
  <2>8. PICK mid \in Projection(Hunts) : mid = Step(live, first)
    BY StepIs
  <2>9. h[j + 2] = Step(mid, second)
    <3>1. h[j + 2] = RowStep(Hunts)[<<mid, second>>]
      BY <1>0, <2>2, <2>4, <2>7, <2>8 DEF Running
    <3> QED BY <3>1, StepIsRowStep
  <2>10. q[k + 1] = Step(seen, second)
    <3>1. q[k + 1] = RowStep(Hunts)[<<seen, second>>]
      BY <1>0, <2>2, <2>4, <2>6 DEF Running
    <3> QED BY <3>1, StepIsRowStep
  <2>11. Alone(seen, live)
    BY <2>1, <2>2, <2>5, <2>6
  <2>12. first.id > live.highWater /\ second.id > first.id
    BY <2>3, <2>4, <2>5
  <2>13. Alone(Step(seen, second), Step(Step(live, first), second))
    BY <2>3, <2>4, <2>11, <2>12, AloneStep
  <2> QED BY <2>2, <2>8, <2>9, <2>10, <2>13
<1>3. S = Nat
  <2>1. S \in SUBSET Nat
    OBVIOUS
  <2> HIDE DEF S
  <2> QED BY <1>1, <1>2, <2>1, NatSetInduction
<1> QED BY <1>3

LEMMA TwoHuntsAre ==
    ASSUME log \in Seq(Event)
    PROVE  Doubled(TwoHunts, [i \in DOMAIN log |-> TwoHunts[2 * i]], Len(log))
<1>1. PICK n \in Nat : n = Len(log) /\ DOMAIN log = 1..n
  OBVIOUS
<1>2. PICK both : both = TwoHunts
  OBVIOUS
<1>3. both = [i \in 1..(2 * n) |->
                 Row(log[(i + 1) \div 2], i, ((i + 1) \div 2) - 1,
                     IF i % 2 = 1 THEN "hunt" ELSE "other")]
  BY <1>1, <1>2 DEF TwoHunts
<1>4. ASSUME NEW i \in 1..(2 * n)
      PROVE  /\ both[i] \in LogRow(Hunts) /\ both[i].id = i
             /\ both[i].run = IF i % 2 = 1 THEN "hunt" ELSE "other"
  <2>1. PICK k : k = (i + 1) \div 2
    OBVIOUS
  <2>2. k \in 1..n
    BY <2>1
  <2>3. PICK e \in Event : e = log[k]
    BY <1>1, <2>2
  <2>4. PICK run \in Hunts : run = IF i % 2 = 1 THEN "hunt" ELSE "other"
    BY DEF Hunts
  <2>5. PICK seq \in Nat : seq = k - 1
    BY <2>2
  <2>6. both[i] = Row(e, i, seq, run)
    BY <1>3, <2>1, <2>3, <2>4, <2>5
  <2>7. PICK id \in Nat : id = i
    OBVIOUS
  <2>8. /\ Row(e, id, seq, run) \in LogRow(Hunts)
        /\ Row(e, id, seq, run).id = id /\ Row(e, id, seq, run).run = run
    BY RowType
  <2> QED BY <2>4, <2>6, <2>7, <2>8
<1>5. both \in [1..(2 * n) -> LogRow(Hunts)]
  BY <1>3, <1>4
<1>6. both \in Seq(LogRow(Hunts)) /\ Len(both) = 2 * n
  <2>1. 2 * n \in Nat
    OBVIOUS
  <2> QED BY <1>5, <2>1
<1>7. Numbers(both)
  BY <1>4, <1>6 DEF Numbers
<1>8. PICK alone : alone = [i \in 1..n |-> both[2 * i]]
  OBVIOUS
<1>9. ASSUME NEW k \in 1..n
      PROVE  /\ 2 * k - 1 \in 1..(2 * n) /\ 2 * k \in 1..(2 * n)
             /\ (2 * k - 1) % 2 = 1 /\ (2 * k) % 2 # 1
  OBVIOUS
<1>10. \A k \in 1..n : both[2 * k - 1].run = "hunt" /\ both[2 * k].run = "other"
  <2> SUFFICES ASSUME NEW k \in 1..n
               PROVE  both[2 * k - 1].run = "hunt" /\ both[2 * k].run = "other"
    OBVIOUS
  <2>1. both[2 * k - 1].run = IF (2 * k - 1) % 2 = 1 THEN "hunt" ELSE "other"
    BY <1>4, <1>9
  <2>2. both[2 * k].run = IF (2 * k) % 2 = 1 THEN "hunt" ELSE "other"
    BY <1>4, <1>9
  <2> QED BY <1>9, <2>1, <2>2
<1>11. \A k \in 1..n : alone[k] = both[2 * k] /\ both[2 * k] \in LogRow(Hunts)
  BY <1>4, <1>8, <1>9
<1>12. alone \in [1..n -> LogRow(Hunts)]
  BY <1>8, <1>11
<1>13. alone \in Seq(LogRow(Hunts)) /\ Len(alone) = n
  BY <1>12
<1>14. alone = [i \in DOMAIN log |-> TwoHunts[2 * i]]
  BY <1>1, <1>2, <1>8
<1>15. Doubled(both, alone, n)
  BY <1>6, <1>7, <1>10, <1>11, <1>13 DEF Doubled
<1> QED BY <1>1, <1>2, <1>14, <1>15

(* view.py's laws: a viewer that has folded the log to some point and is   *)
(* sent all of it again has the fold of the whole log, and the replay of   *)
(* one hunt alone shows what the live feed of both shows of it.            *)
THEOREM ReplaysFold == Spec => []ReplayFolds
<1>1. Control => ReplayFolds
  <2> SUFFICES ASSUME log \in Seq(Event) PROVE ReplayFolds
    BY DEF Control, TypeOK
  <2>1. PICK n \in Nat : n = Len(log)
    OBVIOUS
  <2>2. PICK both : both = TwoHunts
    OBVIOUS
  <2>3. PICK alone : alone = [i \in DOMAIN log |-> TwoHunts[2 * i]]
    OBVIOUS
  <2>4. Doubled(both, alone, n)
    BY <2>1, <2>2, <2>3, TwoHuntsAre
  <2>5. /\ both \in Seq(LogRow(Hunts)) /\ Len(both) = 2 * n /\ Numbers(both)
        /\ alone \in Seq(LogRow(Hunts)) /\ Len(alone) = n
    BY <2>4 DEF Doubled
  <2>6. n \in 0..Len(both)
    BY <2>5
  <2>7. FoldFrom(Fold(SubSeq(both, 1, n)), both) = Fold(both)
    BY <2>5, <2>6, NumbersRise, ReplayIdempotent
  <2>8. Accumulator \in Projection(Hunts)
    BY AccumulatorType
  <2>9. /\ FoldsInto(Fold(both), Projection(Hunts), Accumulator, RowStep(Hunts), both)
        /\ FoldsInto(Fold(alone), Projection(Hunts), Accumulator, RowStep(Hunts), alone)
    BY <2>5, <2>8, ViewRuns DEF Fold
  <2>10. PICK h : /\ Running(h, Projection(Hunts), Accumulator, RowStep(Hunts), both)
                  /\ h[2 * n] = Fold(both)
    BY <2>5, <2>9 DEF FoldsInto
  <2>11. PICK q : /\ Running(q, Projection(Hunts), Accumulator, RowStep(Hunts), alone)
                  /\ q[n] = Fold(alone)
    BY <2>5, <2>9 DEF FoldsInto
  <2>12. Alone(Fold(alone), Fold(both))
    BY <2>4, <2>10, <2>11, SeenAlone
  <2>13. PICK seen \in Projection(Hunts) : seen = Fold(alone)
    BY <2>5, <2>9, FoldType
  <2>14. seen.runs \in RunsBy(Hunts)
    BY DEF Projection
  <2>15. seen.runs \in [DOMAIN seen.runs -> RunView]
    BY <2>14, RunsAre
  <2>16. seen.runs = [r \in DOMAIN Fold(both).runs \ {"hunt"} |-> Fold(both).runs[r]]
    BY <2>12, <2>13, <2>15 DEF Alone
  <2> QED BY <2>1, <2>2, <2>3, <2>7, <2>13, <2>16 DEF ReplayFolds
<1> QED BY <1>1, ControlInvariant, PTL
=============================================================================
