--------------------------- MODULE ResponsesStream ---------------------------
(***************************************************************************)
(* The translation of a provider's inference into an OpenAI Responses      *)
(* stream: class ResponsesStream of ai/openai/codex/model.                 *)
(*                                                                         *)
(* A stream is a record.  Receive... is what receive() makes of it for one *)
(* event of ai/model/Provider.h when every frame it sends is taken.  Texts *)
(* and JSON are left out: whether the checks on them pass (declared tool,  *)
(* text and arguments equal to their deltas, custom input, byte limit) is  *)
(* the parameter "valid"; whether the sum of the usage fits the total of   *)
(* the frame that reports it is that of the completion.                    *)
(***************************************************************************)
EXTENDS Naturals

CONSTANT CallIds          \* the ids a provider may give to its tool calls

Text == "text"
Reasoning == "reasoning"
NoBlock == "none"
ASSUME CallIdsAssumption == CallIds \cap {Text, Reasoning, NoBlock} = {}

Blocks == CallIds \cup {Text, Reasoning}
Kind(block) == IF block \in CallIds THEN "call" ELSE block
StopReasons == {"end_turn", "tool_use", "output_limit", "pause"}

(* "active" is the one entry active_ can have, "output" the length of      *)
(* output_, whose items below it are finished, and "last" the kind of the  *)
(* last of them.  "added", "done" and "outcome" are what the frames have   *)
(* told the client: items announced, items done, and how it ended.         *)
Streams ==
  [started : BOOLEAN, active : CallIds \cup {Text, NoBlock}, output : Nat,
   last : {NoBlock, Text, "call"}, calls : SUBSET CallIds, terminal : BOOLEAN,
   added : Nat, done : Nat, outcome : {"none", "completed", "failed"}]

NewStream ==
  [started |-> FALSE, active |-> NoBlock, output |-> 0, last |-> NoBlock,
   calls |-> {}, terminal |-> FALSE, added |-> 0, done |-> 0, outcome |-> "none"]

-----------------------------------------------------------------------------
Ends(s, outcome) == [[s EXCEPT !.outcome = outcome] EXCEPT !.terminal = TRUE]
Fail(s) == IF s.terminal THEN s ELSE Ends(s, "failed")

(* A text's item stays open until the next block or the completion tells   *)
(* which phase it has.                                                     *)
FinishText_Skips(s) == s
FinishText(s) == IF s.last = Text THEN [s EXCEPT !.done = @ + 1] ELSE s

ReceiveStarted(s) ==
  IF s.started THEN Fail(s) ELSE [s EXCEPT !.started = TRUE]

Announce(s, block) ==
  [[[s EXCEPT !.active = block]
       EXCEPT !.added = @ + 1]
       EXCEPT !.calls = IF block \in CallIds THEN @ \cup {block} ELSE @]

ReceiveBlockStarted_AnyTime(s, index, block, valid) ==
  IF block = Reasoning \/ ~valid THEN Fail(FinishText(s))
  ELSE Announce(FinishText(s), block)
ReceiveBlockStarted(s, index, block, valid) ==
  IF ~s.started \/ s.active # NoBlock \/ index # s.output THEN Fail(s)
  ELSE IF block \in s.calls \/ block = Reasoning \/ ~valid THEN Fail(FinishText(s))
  ELSE Announce(FinishText(s), block)

IsActive(s, index) == s.active # NoBlock /\ index = s.output

ReceiveDelta(s, index, kind, valid) ==
  IF IsActive(s, index) /\ kind = Kind(s.active) /\ valid THEN s ELSE Fail(s)

Push(s, kind) ==
  [[[s EXCEPT !.active = NoBlock]
       EXCEPT !.output = @ + 1]
       EXCEPT !.last = kind]

(* A block may be finished as the text its deltas gave, whatever it was    *)
(* announced as; a call must be the one that was announced.                *)
ReceiveBlockFinished(s, index, block, valid) ==
  IF ~IsActive(s, index) \/ block \notin {Text, s.active} \/ ~valid THEN Fail(s)
  ELSE IF block = Text THEN Push(s, Text)
  ELSE [Push(s, "call") EXCEPT !.done = @ + 1]

ReceiveUsage(s) == s

ReceiveCompleted(s, reason, valid) ==
  IF \/ ~s.started \/ s.active # NoBlock
     \/ reason \in {"output_limit", "pause"}
     \/ (reason = "tool_use") # (s.calls # {})
     \/ ~valid
  THEN Fail(s)
  ELSE Ends(FinishText(s), "completed")

(* A frame the client's connection does not take ends the stream.          *)
Refused(s) == [s EXCEPT !.terminal = TRUE]

(* What any event of a provider, in or out of order, makes of the stream.  *)
Received(s, maxIndex) ==
  {Fail(s), ReceiveStarted(s), ReceiveUsage(s)}
    \cup {ReceiveCompleted(s, reason, valid) : reason \in StopReasons, valid \in BOOLEAN}
    \cup {ReceiveBlockStarted(s, i, b, valid) :
            i \in 0 .. maxIndex, b \in Blocks, valid \in BOOLEAN}
    \cup {ReceiveBlockFinished(s, i, b, valid) :
            i \in 0 .. maxIndex, b \in Blocks, valid \in BOOLEAN}
    \cup {ReceiveDelta(s, i, kind, valid) :
            i \in 0 .. maxIndex, kind \in {Text, "call"}, valid \in BOOLEAN}
=============================================================================
