-------------------------- MODULE RequestTranslation --------------------------
(***************************************************************************)
(* What becomes of the history of a conversation on its way to Anthropic:  *)
(* parseResponsesRequest, which turns the items of a Responses request     *)
(* into messages, and prepareRequest, which turns messages of any origin   *)
(* into the blocks that Anthropic takes.                                   *)
(*                                                                         *)
(* A step reads one item, or is one part that another user of the provider *)
(* puts into its request; each state is a whole request, as if it ended    *)
(* there.  What an item is refused for by itself, tool choice, limits and  *)
(* reasoning, which the model runtime turns off, are left out.             *)
(***************************************************************************)
EXTENDS Naturals, Sequences, FiniteSets, SequencesExt

CONSTANTS
  Calls,      \* the identities of tool calls
  Tools,      \* the names of tools, qualified by their namespaces
  WireNames,  \* the names that Anthropic takes
  MaxParts    \* bounds the parts of a conversation

ASSUME TranslationAssumption == IsFiniteSet(Tools)

(* "wire" is how each name is written for Anthropic, where hashes may      *)
(* collide; "declared" are the tools of this inference.  The messages are  *)
(* the neutral request's; "pending", "calls" and "assistantSeen" the locals*)
(* of parseResponsesRequest.  "given" observes the parts in their order.   *)
VARIABLE conversation
Conversation(source, wire, declared) ==
  [source |-> source, wire |-> wire, declared |-> declared, messages |-> <<>>,
   pending |-> {}, calls |-> {}, assistantSeen |-> FALSE, given |-> <<>>]
TranslationInit ==
  \E source \in {"responses", "neutral"}, wire \in [Tools -> WireNames],
     declared \in SUBSET Tools :
    conversation = Conversation(source, wire, declared)

Text == [kind |-> "text"]
ToolCall(call, tool) == [kind |-> "call", id |-> call, tool |-> tool]
ToolResult(call) == [kind |-> "result", id |-> call]
Parts == {Text} \cup {ToolCall(c, t) : c \in Calls, t \in Tools} \cup {ToolResult(c) : c \in Calls}

BackRole(messages) == IF messages = <<>> THEN "none" ELSE Last(messages).role
NewMessage(messages, role, part) == Append(messages, [role |-> role, content |-> <<part>>])
Continue(messages, part) ==
  [messages EXCEPT ![Len(messages)].content = Append(@, part)]
Merge(messages, role, part) ==
  IF BackRole(messages) = role THEN Continue(messages, part)
  ELSE NewMessage(messages, role, part)
Given(c, role, part) == Append(c.given, [role |-> role, part |-> part])
Room == Len(conversation.given) < MaxParts

-----------------------------------------------------------------------------
(* parseResponsesRequest: what an item needs of those before it            *)

FromResponses == conversation.source = "responses" /\ Room
Adds(c, role, part) ==
  [c EXCEPT !.messages = Merge(@, role, part), !.given = Given(c, role, part)]

(* An instruction joins the others, in front of the conversation.          *)
ReadInstruction_Late ==
  /\ FromResponses
  /\ conversation' = [conversation EXCEPT !.given = Given(conversation, "system", Text)]
ReadInstruction ==
  /\ FromResponses /\ ~conversation.assistantSeen
  /\ conversation' = [conversation EXCEPT !.given = Given(conversation, "system", Text)]
MessageMayFollow_Always(c, role) == TRUE
MessageMayFollow(c, role) ==
  c.pending = {} \/ (role = "assistant" /\ BackRole(c.messages) = "assistant")
ReadMessage(role, empty) ==
  /\ FromResponses /\ MessageMayFollow(conversation, role)
  /\ LET c == [conversation EXCEPT !.assistantSeen = @ \/ role = "assistant"]
     IN conversation' = IF empty THEN c ELSE Adds(c, role, Text)
CallMayFollow(c) == c.pending = {} \/ BackRole(c.messages) = "assistant"
ReadCall(call, tool) ==
  /\ FromResponses /\ CallMayFollow(conversation)
  /\ call \notin conversation.calls
  /\ conversation' =
       Adds([conversation EXCEPT !.assistantSeen = TRUE, !.calls = @ \cup {call},
                                 !.pending = @ \cup {call}],
            "assistant", ToolCall(call, tool))
ReadOutput(call) ==
  /\ FromResponses /\ call \in conversation.pending
  /\ conversation' =
       Adds([conversation EXCEPT !.pending = @ \ {call}], "user", ToolResult(call))

(* What is required at the end of the input.                               *)
Parsed(c) == c.pending = {} /\ c.messages # <<>>

-----------------------------------------------------------------------------
(* prepareRequest *)

PrepareStart(c) ==
  [refused |-> FALSE, names |-> {}, messages |-> <<>>, pending |-> {}, calls |-> {},
   blocks |-> <<>>, ordinary |-> FALSE]
Require(condition, p) == IF condition THEN p ELSE [p EXCEPT !.refused = TRUE]

(* A name keeps its encoding, which no other name may have.                *)
EncodeName_Shares(wire, p, tool) == [p EXCEPT !.names = @ \cup {tool}]
EncodeName(wire, p, tool) ==
  Require(\A other \in p.names \ {tool} : wire[other] # wire[tool],
          [p EXCEPT !.names = @ \cup {tool}])
DeclareTools(c) ==
  FoldLeft(LAMBDA p, tool : EncodeName(c.wire, p, tool), PrepareStart(c),
           SetToSeq(c.declared))

Block(p, block) == [p EXCEPT !.blocks = Append(@, block)]
PrepareText_Anywhere(p, role) ==
  Block([p EXCEPT !.ordinary = @ \/ role = "user"], Text)
PrepareText(p, role) ==
  Require(role = "user" => p.pending = {},
          Block([p EXCEPT !.ordinary = @ \/ role = "user"], Text))
PrepareCall(wire, p, role, part) ==
  Require(role = "assistant" /\ part.id \notin p.calls,
          Block(EncodeName(wire, [p EXCEPT !.calls = @ \cup {part.id},
                                           !.pending = @ \cup {part.id}], part.tool),
                [kind |-> "call", id |-> part.id, name |-> wire[part.tool]]))
PrepareResult(p, role, part) ==
  Require(role = "user" /\ ~p.ordinary /\ part.id \in p.pending,
          Block([p EXCEPT !.pending = @ \ {part.id}], part))
PreparePart(wire, p, role, part) ==
  IF p.refused THEN p
  ELSE CASE part.kind = "text" -> PrepareText(p, role)
         [] part.kind = "call" -> PrepareCall(wire, p, role, part)
         [] part.kind = "result" -> PrepareResult(p, role, part)

ContinuesEarly_Never(p, message) == FALSE
ContinuesEarly(p, message) ==
  BackRole(p.messages) = "user" /\ message.role = "assistant" /\ p.pending # {}
MergeBlocks(p, role) ==
  LET M == p.messages
      merged == IF BackRole(M) = role THEN [M EXCEPT ![Len(M)].content = @ \o p.blocks]
                ELSE Append(M, [role |-> role, content |-> p.blocks])
  IN [p EXCEPT !.messages = merged]
PrepareMessage(wire, p, message) ==
  LET begun == Require(~ContinuesEarly(p, message),
                       [p EXCEPT !.blocks = <<>>, !.ordinary = FALSE])
      read == FoldLeft(LAMBDA q, part : PreparePart(wire, q, message.role, part),
                       begun, message.content)
  IN MergeBlocks(read, message.role)
PrepareMessages(c) ==
  FoldLeft(LAMBDA p, message : PrepareMessage(c.wire, p, message), DeclareTools(c), c.messages)
Prepare(c) ==
  LET p == PrepareMessages(c)
  IN Require(/\ p.messages # <<>> /\ Head(p.messages).role = "user"
             /\ BackRole(p.messages) = "user" /\ p.pending = {}, p)

(* The names that an answer may use, once history's are erased.            *)
ToolNames_OfHistory(c, p) == p.names
ToolNames(c, p) == p.names \cap c.declared

-----------------------------------------------------------------------------
(* Any other user of ai::model::Provider forms messages as it likes; what  *)
(* is refused once stays refused, and so does what the assistant begins.   *)
PutPart(role, part, fresh) ==
  /\ conversation.source = "neutral" /\ Room
  /\ ~PrepareMessages(conversation).refused
  /\ conversation.messages = <<>> => role = "user"
  /\ fresh \/ BackRole(conversation.messages) = role
  /\ conversation' =
       [conversation EXCEPT
          !.messages = IF fresh THEN NewMessage(@, role, part) ELSE Continue(@, part),
          !.given = Given(conversation, role, part)]

TranslationNext ==
  \/ ReadInstruction
  \/ \E role \in {"user", "assistant"}, empty \in BOOLEAN : ReadMessage(role, empty)
  \/ \E call \in Calls, tool \in Tools : ReadCall(call, tool)
  \/ \E call \in Calls : ReadOutput(call)
  \/ \E role \in {"user", "assistant"}, part \in Parts, fresh \in BOOLEAN :
       PutPart(role, part, fresh)

-----------------------------------------------------------------------------
(* The type invariant.                                                     *)
TranslationTypeOK ==
  /\ conversation.wire \in [Tools -> WireNames] /\ conversation.declared \subseteq Tools
  /\ conversation.pending \subseteq conversation.calls /\ conversation.calls \subseteq Calls
  /\ \A i \in DOMAIN conversation.messages :
       /\ conversation.messages[i].role \in {"user", "assistant"}
       /\ conversation.messages[i].content \in Seq(Parts)

(* What Anthropic takes: turns that alternate, from a user's to a user's,  *)
(* and the results of all calls of a turn, each once and no others, before *)
(* everything else in the turn that follows.                               *)
Of(message, kind) ==
  FoldLeft(LAMBDA kept, b : IF b.kind = kind THEN Append(kept, b) ELSE kept,
           <<>>, message.content)
Ids(blocks) == {blocks[i].id : i \in DOMAIN blocks}
TurnsAlternate(messages) ==
  /\ Len(messages) % 2 = 1
  /\ \A i \in DOMAIN messages :
       messages[i].role = IF i % 2 = 1 THEN "user" ELSE "assistant"
ResultsFollowCalls(messages) ==
  \A i \in DOMAIN messages :
    LET calls == IF i = 1 THEN <<>> ELSE Of(messages[i - 1], "call")
        results == Of(messages[i], "result")
    IN messages[i].role = "user" =>
         /\ Ids(results) = Ids(calls) /\ Len(results) = Len(calls)
         /\ IsPrefix(results, messages[i].content)

(* Nothing of the conversation is lost, added or moved, but instructions   *)
(* in front of what the user said.                                         *)
AsBlock(wire, part) ==
  IF part.kind = "call" THEN [kind |-> "call", id |-> part.id, name |-> wire[part.tool]]
  ELSE part
AsGiven(c) ==
  FoldLeft(LAMBDA sent, g :
             IF g.role = "system" THEN sent ELSE Append(sent, AsBlock(c.wire, g.part)),
           <<>>, c.given)
Sent(messages) ==
  FoldLeft(LAMBDA sent, message : sent \o message.content, <<>>, messages)
InstructionsLead(c) ==
  \A i, j \in DOMAIN c.given :
    c.given[i].role = "assistant" /\ c.given[j].role = "system" => j < i

(* A name that comes back is that of one tool, which was declared for this *)
(* inference.                                                              *)
NamesComeBack(c, p) ==
  /\ \A s, t \in p.names : c.wire[s] = c.wire[t] => s = t
  /\ ToolNames(c, p) = c.declared

(* What is sent is a conversation that Anthropic takes, and the one that   *)
(* was given.  A history that Codex sends is never refused for the shape   *)
(* that parseResponsesRequest gave it: only names that collide, and one    *)
(* that does not begin and end with a user's turn, are refused.            *)
ConversationsAreKept ==
  LET c == conversation
      p == Prepare(c)
  IN /\ ~p.refused =>
          /\ TurnsAlternate(p.messages) /\ ResultsFollowCalls(p.messages)
          /\ Sent(p.messages) = AsGiven(c) /\ InstructionsLead(c)
          /\ NamesComeBack(c, p)
     /\ /\ c.source = "responses" /\ Parsed(c)
        /\ Head(c.messages).role = "user" /\ BackRole(c.messages) = "user"
        /\ \A s, t \in Tools : c.wire[s] = c.wire[t] => s = t
        => ~p.refused
=============================================================================
