-------------------------- MODULE StreamAssembler --------------------------
(***************************************************************************)
(* The provider boundary of a brain: the frames of one streamed reply, the *)
(* assembler that folds them (brain.StreamAssembler) and the parser of the *)
(* assembled message (brain.parse_decision).  Operators only: HuntLoop     *)
(* feeds the frames one by one.                                            *)
(*                                                                         *)
(* Text is abstracted to how much of it there is: a thinking block has     *)
(* ThinkingPieces deltas and a signature, the JSON of a tool_use input     *)
(* InputPieces deltas.  A half JSON text does not parse.                   *)
(***************************************************************************)
EXTENDS Integers, Sequences, SequencesExt, FiniteSets, FiniteSetsExt

CONSTANTS
    Tools,          \* registered tool names
    DefaultArgs,    \* those whose parameters all have defaults
    Says,           \* the sequences of tool names a provider may call
    MaxCatch        \* bound: postings in a catch

Reserved       == {"hunt_complete", "needs_help"}
ThinkingPieces == 1
InputPieces    == 2

(* What a provider may set out to say: thinking or not, the tool_use       *)
(* blocks, whether their inputs validate, the catch of a hunt_complete,    *)
(* and whether max_tokens ends a last input half way.                      *)
Replies == {r \in [thinking : BOOLEAN, tools : Says, valid : BOOLEAN,
                   catch : 0..MaxCatch, truncated : BOOLEAN] :
               /\ ~r.valid => ToSet(r.tools) \cap (Tools \cup {"hunt_complete"}) # {}
               /\ r.catch > 0 => r.valid /\ "hunt_complete" \in ToSet(r.tools)
               /\ r.truncated => r.valid /\ Len(r.tools) = 1 /\ r.catch = 0}

ThinkingFrames ==
    <<[type |-> "block_start", block |-> "thinking", name |-> ""]>>
    \o [i \in 1..ThinkingPieces |-> [type |-> "thinking_delta"]]
    \o <<[type |-> "signature_delta"], [type |-> "block_stop"]>>

ToolFrames(name, pieces) ==
    <<[type |-> "block_start", block |-> "tool_use", name |-> name]>>
    \o [i \in 1..pieces |-> [type |-> "input_json_delta"]]
    \o <<[type |-> "block_stop"]>>

Frames(r) ==
    LET n == Len(r.tools)
        tool(i) == ToolFrames(r.tools[i],
                              IF r.truncated /\ i = n THEN InputPieces - 1 ELSE InputPieces)
    IN  <<[type |-> "message_start"]>>
        \o (IF r.thinking THEN ThinkingFrames ELSE <<>>)
        \o FlattenSeq([i \in 1..n |-> tool(i)])
        \o <<[type |-> "message_delta"], [type |-> "message_stop"]>>

-----------------------------------------------------------------------------
(* The assembler: blocks in index order, each with what its deltas have    *)
(* accumulated.  A tool_use starts with input {} ("empty"), the JSON       *)
(* buffer is applied when the block stops.                                 *)

Block == [type : {"thinking", "tool_use"}, name : Tools \cup Reserved \cup {"unknown", ""},
          text : 0..ThinkingPieces, signed : BOOLEAN,
          buf : 0..InputPieces, input : {"empty", "whole"}]

Assembly == [blocks : Seq(Block), usage : {"none", "input", "full"}]

NewAssembler == [blocks |-> <<>>, usage |-> "none"]

OpenBlock(asm) == asm.blocks[Len(asm.blocks)]

\* json.loads of the buffer of the block that stops.
StopRaises(asm, frame) ==
    /\ frame.type = "block_stop" /\ OpenBlock(asm).type = "tool_use"
    /\ OpenBlock(asm).buf \in 1..(InputPieces - 1)

Finalized(block) ==
    IF block.type = "tool_use" /\ block.buf = InputPieces
    THEN [block EXCEPT !.input = "whole"] ELSE block

\* Mutant: signature_delta falls through.
FeedUnsigned(asm, frame) ==
    LET last == Len(asm.blocks) IN
    CASE frame.type = "message_start" -> [asm EXCEPT !.usage = "input"]
      [] frame.type = "block_start" ->
            [asm EXCEPT !.blocks = Append(@,
                [type |-> frame.block, name |-> frame.name, text |-> 0,
                 signed |-> FALSE, buf |-> 0, input |-> "empty"])]
      [] frame.type = "thinking_delta" -> [asm EXCEPT !.blocks[last].text = @ + 1]
      [] frame.type = "input_json_delta" -> [asm EXCEPT !.blocks[last].buf = @ + 1]
      [] frame.type = "block_stop" -> [asm EXCEPT !.blocks[last] = Finalized(@)]
      [] frame.type = "message_delta" -> [asm EXCEPT !.usage = "full"]
      [] OTHER -> asm

Feed(asm, frame) ==
    LET last == Len(asm.blocks) IN
    CASE frame.type = "message_start" -> [asm EXCEPT !.usage = "input"]
      [] frame.type = "block_start" ->
            [asm EXCEPT !.blocks = Append(@,
                [type |-> frame.block, name |-> frame.name, text |-> 0,
                 signed |-> FALSE, buf |-> 0, input |-> "empty"])]
      [] frame.type = "thinking_delta" -> [asm EXCEPT !.blocks[last].text = @ + 1]
      [] frame.type = "signature_delta" -> [asm EXCEPT !.blocks[last].signed = TRUE]
      [] frame.type = "input_json_delta" -> [asm EXCEPT !.blocks[last].buf = @ + 1]
      [] frame.type = "block_stop" -> [asm EXCEPT !.blocks[last] = Finalized(@)]
      [] frame.type = "message_delta" -> [asm EXCEPT !.usage = "full"]
      [] OTHER -> asm

\* A reply read in one piece, without the stream.
Whole(r) == FoldLeft(Feed, NewAssembler, Frames(r))

-----------------------------------------------------------------------------
(* parse_decision.                                                         *)

BlocksOf(asm, type) == {i \in DOMAIN asm.blocks : asm.blocks[i].type = type}

ToolUses(asm) == BlocksOf(asm, "tool_use")

Malformed(asm, r) ==
    \/ Cardinality(ToolUses(asm)) # 1
    \/ \E i \in ToolUses(asm) : /\ asm.blocks[i].name = "hunt_complete"
                               /\ asm.blocks[i].input = "whole" /\ ~r.valid

\* _extract_thinking_block: the first block, as assembled, or nothing.
ThinkingOf(asm) ==
    IF BlocksOf(asm, "thinking") = {} THEN "none"
    ELSE LET block == asm.blocks[Min(BlocksOf(asm, "thinking"))]
         IN  IF block.text = ThinkingPieces /\ block.signed THEN "verbatim" ELSE "damaged"

Decision(asm, r) ==
    LET use == asm.blocks[CHOOSE i \in ToolUses(asm) : TRUE]
    IN  [name     |-> use.name,
         input    |-> use.input,
         valid    |-> IF use.input = "whole" THEN r.valid ELSE use.name \in DefaultArgs,
         catch    |-> IF use.input = "whole" THEN r.catch ELSE 0,
         usage    |-> asm.usage,
         thinking |-> ThinkingOf(asm)]
=============================================================================
